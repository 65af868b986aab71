-------------------------- MODULE JavaMemoryProofs --------------------------
(***************************************************************************)
(* Proofs about JavaMemory, for any number of threads, buffers, slices of  *)
(* slices and pools.                                                       *)
(*                                                                         *)
(* A thread that cleans a slice closes the parent, which may clean the     *)
(* parent in turn, and so on up to the root, so a stack has any depth.     *)
(* The argument is about what may lie on what in a stack, about which      *)
(* references a reference count stands for, and about who may change the   *)
(* fields of the pool while a thread is in the class's monitor.            *)
(***************************************************************************)
EXTENDS JavaMemory, SequenceTheorems, FiniteSetTheorems, TLAPS

----------------------------------------------------------------------------
(* The stacks.                                                             *)

Frames == [at : FrameAt, buf : Buffers \cup {None}]
BufferAt == {"close", "closing", "clean", "cleaning", "reclaim", "free"}
CloseAt == {"close", "closing", "clean", "cleaning"}
PoolAt == {"single", "future", "locked", "final"}

In(s, f) == \E i \in DOMAIN s : s[i] = f

Used(b) == parent[b] # None \/ origin[b] # None

\* Frame g may lie on frame f, when par gives the parents.
Above(par, f, g) ==
  \/ f.at \in {"closing", "reclaim"} /\ g.at \in {"clean", "cleaning"} /\ g.buf = f.buf
  \/ f.at = "cleaning" /\ par[f.buf] # None
     /\ g.at \in {"close", "closing"} /\ g.buf = par[f.buf]
  \/ f.at = "cleaning" /\ par[f.buf] = None /\ g = Frame("free", f.buf)
  \/ f.at \in {"free", "allocate", "initialize", "shutdown"} /\ g.at \in PoolAt
  \/ f.at = "locked" /\ g.at = "reset"

\* A stack of thread t may begin with f.
Bottom(t, f) ==
  \/ /\ t \in Users
     /\ f.at \in {"close", "closing", "allocate", "initialize", "shutdown", "unset"}
  \/ t = "hook" /\ f.at \in {"clean", "cleaning"}
  \/ t = "cleaner" /\ f.at = "reclaim"

Known(par, org, f) ==
  f.at \in BufferAt => f.buf \in Buffers /\ (par[f.buf] # None \/ org[f.buf] # None)

\* Every step from a slice to its parent lowers the rank, so a buffer that is
\* being cleaned is not met again further up; nothing that names a buffer is called
\* from where memory is freed.
Lower(rank, f, g) ==
  /\ f.at = "cleaning" /\ g.at \in CloseAt => rank[g.buf] < rank[f.buf]
  /\ f.at = "free" => g.at \notin BufferAt

Stacked(par, org, rank, t, s) ==
  /\ \A i \in 1 .. Len(s) - 1 : Above(par, s[i], s[i + 1])
  /\ s # <<>> => Bottom(t, s[1])
  /\ \A i \in 1 .. Len(s) : Known(par, org, s[i])
  /\ \A i, j \in 1 .. Len(s) : i < j => Lower(rank, s[i], s[j])

\* A slice is younger than its parent.
Ancestry(rank) ==
  /\ rank \in [Buffers -> Nat]
  /\ \A s \in Buffers : parent[s] # None => Used(parent[s]) /\ rank[parent[s]] < rank[s]

\* What was not created yet has left no trace.
Traceless ==
  /\ \A b \in Buffers : ~Used(b) => /\ refs[b] = 0 /\ ~resource[b] /\ ~closed[b]
                                    /\ frees[b] = <<>>
  /\ \A b \in all \cup collected : Used(b)

Shape(rank) ==
  /\ TypeOK /\ frees \in [Buffers -> Seq(Pools)]
  /\ Ancestry(rank) /\ Traceless
  /\ \A t \in Threads : Stacked(parent, origin, rank, t, stack[t])

----------------------------------------------------------------------------
(* Cleaning.                                                               *)

\* One thread at a time cleans a buffer, what is being cleaned is not yet clean,
\* memory that went back is clean or about to be marked so, and what is not clean
\* is registered.
Cleans ==
  /\ \A t, u \in Threads : \A b \in Buffers :
       InFrame(t, "cleaning", b) /\ InFrame(u, "cleaning", b) => t = u
  /\ \A t \in Threads : \A b \in Buffers : InFrame(t, "cleaning", b) => resource[b]
  /\ \A b \in Buffers :
       frees[b] # <<>> =>
         /\ Len(frees[b]) = 1
         /\ ~resource[b] \/ \E t \in Threads : /\ InFrame(t, "cleaning", b)
                                               /\ ~InFrame(t, "free", b)
  /\ \A b \in Buffers :
       InFrame("cleaner", "reclaim", b) =>
         \/ ~resource[b]
         \/ InFrame("cleaner", "clean", b) \/ InFrame("cleaner", "cleaning", b)
  /\ LeaksTracked

----------------------------------------------------------------------------
(* References.                                                             *)

\* The references to a buffer that are not the application's: closes that have
\* begun, and slices that were not cleaned yet.
Closes(b) == {t \in Threads : InFrame(t, "close", b)}
Busy(s) == \E t \in Threads : InFrame(t, "cleaning", s)
Slices(b) == {s \in Buffers : parent[s] = b /\ resource[s] /\ ~Busy(s)}

Dead(b) == refs[b] = 0 /\ Closes(b) = {} /\ Slices(b) = {}

Counts ==
  /\ \A b \in Buffers :
       refCount[b] >= refs[b] + Cardinality(Closes(b)) + Cardinality(Slices(b))
  /\ \A t \in Threads : \A b \in Buffers : InFrame(t, "closing", b) => refCount[b] = 0
  /\ \A b \in Buffers : closed[b] => refCount[b] = 0
  /\ \A b \in collected : ~Reachable(b)
  /\ \A b \in Buffers : InFrame("cleaner", "reclaim", b) => b \in collected
  /\ jvm = "running" => /\ stack["hook"] = <<>>
                        /\ \A b \in Buffers : Used(b) /\ ~resource[b] => Dead(b)

----------------------------------------------------------------------------
(* The pool.                                                               *)

Existing == {p \in Pools : pool[p] \in {"pending", "live"}}
Owner(p) == pool[p] = "released" \/ (pool[p] = "live" /\ p = singleton_)

\* What a thread in the class's monitor has read of the two fields stays true.
Steady(t) ==
  /\ At(t, "future") /\ InClass(t) => singleton_ = None
  /\ At(t, "final") /\ InClass(t) => singleton_ # None
  /\ At(t, "reset") => singleton_ # None
  /\ At(t, "initialize") /\ ret[t] = "ok" /\ got[t] = None
       => singleton_ = None /\ initFuture = None
  /\ At(t, "shutdown") /\ ret[t] = "ok"
       => got[t] = singleton_ /\ (singleton_ = None => initFuture = None)
  /\ At(t, "unset") => Existing = {}

\* One thread is in the monitor, and a pool that exists is the singleton or will be.
Monitor ==
  /\ \A t, u \in Threads : InClass(t) /\ InClass(u) => t = u
  /\ Existing \subseteq {singleton_, initFuture}
  /\ singleton_ # None /\ initFuture # None => singleton_ = initFuture
  /\ \A t \in Threads : Steady(t)

\* Memory can go to a pool that it was not allocated in, but only once its own pool
\* was released.
OwnUnlessReleased ==
  \A b \in Buffers : frees[b] # <<>> => \/ frees[b][1] = origin[b]
                                        \/ pool[origin[b]] = "released"

\* A pool somebody has got is the singleton until it is released, and what is about
\* to be freed goes to its own pool if there still is one.
FreesOwn(t) == At(t, "free") /\ got[t] # None =>
  got[t] = origin[Top(t).buf] \/ pool[origin[Top(t).buf]] = "released"

Owners ==
  /\ singleton_ # None => Owner(singleton_)
  /\ \A t \in Threads : got[t] # None => Owner(got[t])
  /\ \A b \in Buffers : origin[b] # None => Owner(origin[b])
  /\ \A t \in Threads : FreesOwn(t)
  /\ OwnUnlessReleased /\ \A b \in Buffers : frees[b] # <<>> => origin[b] # None

Good(rank) == Shape(rank) /\ Cleans /\ Counts /\ Monitor /\ Owners
Inv == \E rank \in [Buffers -> Nat] : Good(rank)

----------------------------------------------------------------------------
(* Stacks.                                                                 *)

\* A stack that is not empty is a frame on a stack.
LEMMA FrontAndTop ==
  ASSUME NEW s \in Seq(Frames), s # <<>>
  PROVE  /\ SubSeq(s, 1, Len(s) - 1) \in Seq(Frames) /\ s[Len(s)] \in Frames
         /\ s = Append(SubSeq(s, 1, Len(s) - 1), s[Len(s)])
<1>. DEFINE n == Len(s)
            r == SubSeq(s, 1, n - 1)
<1>1. n \in Nat /\ n >= 1 /\ \A i \in 1 .. n : s[i] \in Frames
  BY EmptySeq, LenProperties, ElementOfSeq
<1>2. r \in Seq(Frames) /\ Len(r) = n - 1 /\ \A i \in 1 .. n - 1 : r[i] = s[i]
  <2>. DEFINE k == n - 1
  <2>1. k \in Nat /\ k <= n /\ \A i \in 1 .. k : s[i] \in Frames
    BY <1>1
  <2>. HIDE DEF k, n
  <2>2. SubSeq(s, 1, k) \in Seq(Frames) /\ Len(SubSeq(s, 1, k)) = k
        /\ \A i \in 1 .. k : SubSeq(s, 1, k)[i] = s[i]
    BY <2>1, SubSeqProperties
  <2>. QED BY <2>2 DEF k
<1>3. s[n] \in Frames
  BY <1>1
<1>. HIDE DEF n, r
<1>. DEFINE a == Append(r, s[n])
<1>4. a \in Seq(Frames) /\ Len(a) = n /\ \A i \in 1 .. n : a[i] = s[i]
  BY <1>1, <1>2, <1>3, AppendProperties
<1>5. Len(s) = n
  BY DEF n
<1>. HIDE DEF a
<1>6. s = a
  BY <1>1, <1>4, <1>5, SeqEqual
<1>. QED BY <1>2, <1>3, <1>6 DEF n, r, a

\* What a push adds.
LEMMA AppendIn ==
  ASSUME NEW s \in Seq(Frames), NEW f \in Frames, NEW g
  PROVE  /\ Append(s, f) \in Seq(Frames) /\ Append(s, f) # <<>>
         /\ Append(s, f)[Len(Append(s, f))] = f
         /\ In(Append(s, f), g) <=> In(s, g) \/ g = f
<1>. DEFINE a == Append(s, f)
<1>1. Len(s) \in Nat /\ DOMAIN s = 1 .. Len(s)
  BY LenProperties
<1>2. /\ a \in Seq(Frames) /\ Len(a) = Len(s) + 1 /\ a # <<>> /\ a[Len(s) + 1] = f
      /\ \A i \in 1 .. Len(s) : a[i] = s[i]
  BY AppendProperties
<1>3. DOMAIN a = 1 .. Len(s) + 1
  BY <1>2, LenProperties
<1>. HIDE DEF a
<1>4. In(a, g) <=> In(s, g) \/ g = f
  BY <1>1, <1>2, <1>3 DEF In
<1>. QED BY <1>2, <1>4 DEF a

\* Nothing is in an empty stack.
LEMMA EmptyIn == ASSUME NEW g PROVE ~In(<<>>, g)
BY DEF In

\* A thread that is in no call.
LEMMA StackedEmpty ==
  ASSUME NEW par, NEW org, NEW rank, NEW t PROVE Stacked(par, org, rank, t, <<>>)
BY DEF Stacked

\* One frame more.
LEMMA StackedAppend ==
  ASSUME NEW par, NEW org, NEW rank, NEW t, NEW s \in Seq(Frames), NEW f \in Frames
  PROVE  Stacked(par, org, rank, t, Append(s, f)) <=>
           /\ Stacked(par, org, rank, t, s) /\ Known(par, org, f)
           /\ s = <<>> => Bottom(t, f)
           /\ s # <<>> => Above(par, s[Len(s)], f)
           /\ \A e \in Frames : In(s, e) => Lower(rank, e, f)
<1>. DEFINE a == Append(s, f)
            n == Len(s)
            Ab(x, y) == Above(par, x, y)
            Kn(x) == Known(par, org, x)
            Lo(x, y) == Lower(rank, x, y)
            Bo(x) == Bottom(t, x)
<1>1. n \in Nat /\ DOMAIN s = 1 .. n /\ (s # <<>> <=> n > 0) /\ \A i \in 1 .. n : s[i] \in Frames
  BY LenProperties, EmptySeq, ElementOfSeq
<1>2. Len(a) = n + 1 /\ a # <<>> /\ a[n + 1] = f /\ \A i \in 1 .. n : a[i] = s[i]
  BY AppendProperties
<1>3. Stacked(par, org, rank, t, s) <=>
        /\ \A i \in 1 .. n - 1 : Ab(s[i], s[i + 1])
        /\ s # <<>> => Bo(s[1])
        /\ \A i \in 1 .. n : Kn(s[i])
        /\ \A i, j \in 1 .. n : i < j => Lo(s[i], s[j])
  BY DEF Stacked
<1>4. Stacked(par, org, rank, t, a) <=>
        /\ \A i \in 1 .. n : Ab(a[i], a[i + 1])
        /\ Bo(a[1])
        /\ \A i \in 1 .. n + 1 : Kn(a[i])
        /\ \A i, j \in 1 .. n + 1 : i < j => Lo(a[i], a[j])
  BY <1>1, <1>2, SMTT(30) DEF Stacked
<1>5. (\A e \in Frames : In(s, e) => Lo(e, f)) <=> (\A i \in 1 .. n : Lo(s[i], f))
  BY <1>1 DEF In
<1>. HIDE DEF a, n, Ab, Kn, Lo, Bo
<1>6. (\A i \in 1 .. n : Ab(a[i], a[i + 1])) <=>
        (\A i \in 1 .. n - 1 : Ab(s[i], s[i + 1])) /\ (s # <<>> => Ab(s[n], f))
  BY <1>1, <1>2
<1>7. Bo(a[1]) <=> (s # <<>> => Bo(s[1])) /\ (s = <<>> => Bo(f))
  <2>1. CASE s = <<>>
    BY <1>1, <1>2, <2>1
  <2>2. CASE s # <<>>
    BY <1>1, <1>2, <2>2
  <2>. QED BY <2>1, <2>2
<1>8. (\A i \in 1 .. n + 1 : Kn(a[i])) <=> (\A i \in 1 .. n : Kn(s[i])) /\ Kn(f)
  BY <1>1, <1>2
<1>9. (\A i, j \in 1 .. n + 1 : i < j => Lo(a[i], a[j])) <=>
        (\A i, j \in 1 .. n : i < j => Lo(s[i], s[j])) /\ (\A i \in 1 .. n : Lo(s[i], f))
  BY <1>1, <1>2
<1>10. Stacked(par, org, rank, t, a) <=>
         /\ Stacked(par, org, rank, t, s) /\ Kn(f)
         /\ s = <<>> => Bo(f)
         /\ s # <<>> => Ab(s[n], f)
         /\ \A e \in Frames : In(s, e) => Lo(e, f)
  BY <1>3, <1>4, <1>5, <1>6, <1>7, <1>8, <1>9
<1>. QED BY <1>10 DEF a, n, Ab, Kn, Lo, Bo

\* What lies on a frame that calls nothing, and what is at the bottom.
LEMMA OnTop ==
  ASSUME NEW par, NEW org, NEW rank, NEW t, NEW s \in Seq(Frames), NEW f \in Frames,
         Stacked(par, org, rank, t, Append(s, f)), NEW g \in Frames, In(s, g)
  PROVE  \E h \in Frames : In(Append(s, f), h) /\ Above(par, g, h)
<1>. DEFINE a == Append(s, f)
<1>1. PICK i \in DOMAIN s : s[i] = g
  BY DEF In
<1>2. Len(s) \in Nat /\ DOMAIN s = 1 .. Len(s)
  BY LenProperties
<1>3. a \in Seq(Frames) /\ Len(a) = Len(s) + 1 /\ \A j \in 1 .. Len(s) : a[j] = s[j]
  BY AppendProperties
<1>4. DOMAIN a = 1 .. Len(a) /\ \A j \in 1 .. Len(a) : a[j] \in Frames
  BY <1>3, LenProperties, ElementOfSeq
<1>5. \A j \in 1 .. Len(a) - 1 : Above(par, a[j], a[j + 1])
  BY DEF Stacked
<1>. HIDE DEF a
<1>6. Above(par, g, a[i + 1]) /\ i + 1 \in DOMAIN a /\ a[i + 1] \in Frames
  BY <1>1, <1>2, <1>3, <1>4, <1>5
<1>7. In(a, a[i + 1])
  BY <1>6 DEF In
<1>. QED BY <1>6, <1>7 DEF a

\* What a frame lies on.
LEMMA Beneath ==
  ASSUME NEW par, NEW org, NEW rank, NEW t, NEW s \in Seq(Frames),
         Stacked(par, org, rank, t, s), NEW g \in Frames, In(s, g)
  PROVE  Bottom(t, g) \/ \E h \in Frames : In(s, h) /\ Above(par, h, g)
<1>1. PICK i \in DOMAIN s : s[i] = g
  BY DEF In
<1>2. Len(s) \in Nat /\ DOMAIN s = 1 .. Len(s) /\ \A j \in 1 .. Len(s) : s[j] \in Frames
  BY LenProperties, ElementOfSeq
<1>3. /\ \A j \in 1 .. Len(s) - 1 : Above(par, s[j], s[j + 1])
      /\ s # <<>> => Bottom(t, s[1])
  BY DEF Stacked
<1>4. CASE i = 1
  <2>1. s # <<>>
    BY <1>1, <1>2, EmptySeq
  <2>. QED BY <1>1, <1>3, <1>4, <2>1
<1>5. CASE i # 1
  <2>. DEFINE k == i - 1
  <2>1. k \in 1 .. Len(s) - 1 /\ k + 1 = i /\ k \in DOMAIN s
    BY <1>1, <1>2, <1>5
  <2>. HIDE DEF k
  <2>2. Above(par, s[k], g) /\ s[k] \in Frames
    BY <1>1, <1>2, <1>3, <2>1
  <2>3. In(s, s[k])
    BY <2>1 DEF In
  <2>. QED BY <2>2, <2>3
<1>. QED BY <1>4, <1>5

\* The frames of a stack are known, and a buffer being cleaned is not met again.
LEMMA StackedFrames ==
  ASSUME NEW par, NEW org, NEW rank, NEW t, NEW s \in Seq(Frames),
         Stacked(par, org, rank, t, s), NEW g \in Frames, In(s, g)
  PROVE  Known(par, org, g)
<1>1. PICK i \in DOMAIN s : s[i] = g
  BY DEF In
<1>2. DOMAIN s = 1 .. Len(s)
  BY LenProperties
<1>. QED BY <1>1, <1>2 DEF Stacked

----------------------------------------------------------------------------
(* Steps of a thread.                                                      *)

\* Thread t has the stack S afterwards, and the other threads are where they were.
Moved(t, S) ==
  /\ S \in Seq(Frames) /\ stack' = [stack EXCEPT ![t] = S]
  /\ ret' \in [Threads -> {"ok", "throw", "clean"}]
  /\ got' \in [Threads -> Pools \cup {None}]
  /\ \A u \in Threads \ {t} : ret'[u] = ret[u] /\ got'[u] = got[u]

\* The stack of a thread that is in a call.
LEMMA TopFacts ==
  ASSUME TypeOK, NEW t \in Threads, stack[t] # <<>>
  PROVE  /\ Below(t) \in Seq(Frames) /\ Top(t) \in Frames
         /\ stack[t] = Append(Below(t), Top(t))
<1>1. stack[t] \in Seq(Frames)
  BY DEF TypeOK, Frames
<1>. QED BY <1>1, FrontAndTop DEF Below, Top

\* Frames, taken apart and put together.
LEMMA FrameType ==
  ASSUME NEW at \in FrameAt, NEW b \in Buffers \cup {None}
  PROVE  Frame(at, b) \in Frames /\ Frame(at, b).at = at /\ Frame(at, b).buf = b
BY DEF Frame, Frames

\* A frame is its place and its buffer.
LEMMA FrameIs ==
  ASSUME NEW f \in Frames
  PROVE  f = Frame(f.at, f.buf) /\ f.at \in FrameAt /\ f.buf \in Buffers \cup {None}
BY DEF Frame, Frames

\* Frames are equal when their places and their buffers are.
LEMMA FrameSame ==
  ASSUME NEW at, NEW b, NEW at2, NEW b2
  PROVE  Frame(at, b) = Frame(at2, b2) <=> at = at2 /\ b = b2
<1>1. Frame(at, b).at = at /\ Frame(at, b).buf = b /\ Frame(at2, b2).at = at2
      /\ Frame(at2, b2).buf = b2
  BY DEF Frame
<1>. QED BY <1>1

\* Two pushes at a time.
LEMMA ConcatTwo ==
  ASSUME NEW s \in Seq(Frames), NEW h \in Frames, NEW k \in Frames
  PROVE  s \o <<h, k>> = Append(Append(s, h), k)
<1>1. <<h>> \in Seq(Frames) /\ <<k>> \in Seq(Frames) /\ <<h, k>> = <<h>> \o <<k>>
  <2>1. /\ <<h>> \in Seq(Frames) /\ <<k>> \in Seq(Frames) /\ <<h, k>> \in Seq(Frames)
        /\ Len(<<h>>) = 1 /\ Len(<<k>>) = 1 /\ Len(<<h, k>>) = 2
    OBVIOUS
  <2>. DEFINE a == <<h>> \o <<k>>
  <2>2. /\ a \in Seq(Frames) /\ Len(a) = 2
        /\ \A i \in 1 .. 2 : a[i] = IF i <= 1 THEN <<h>>[i] ELSE <<k>>[i - 1]
    BY <2>1, ConcatProperties
  <2>. HIDE DEF a
  <2>3. a[1] = h /\ a[2] = k
    BY <2>2
  <2>4. \A i \in 1 .. 2 : <<h, k>>[i] = a[i]
    BY <2>3
  <2>5. <<h, k>> = a
    BY <2>1, <2>2, <2>4, SeqEqual
  <2>. QED BY <2>1, <2>5 DEF a
<1>2. s \o <<h>> = Append(s, h) /\ Append(s, h) \in Seq(Frames)
  BY AppendIsConcat, AppendIn
<1>3. Append(s, h) \o <<k>> = Append(Append(s, h), k)
  BY <1>2, AppendIsConcat
<1>4. (s \o <<h>>) \o <<k>> = s \o (<<h>> \o <<k>>)
  BY <1>1, ConcatAssociative
<1>. QED BY <1>1, <1>2, <1>3, <1>4

\* What a return does to the stack.
LEMMA ReturnMoves ==
  ASSUME TypeOK, NEW t \in Threads, stack[t] # <<>>, NEW r \in {"ok", "throw", "clean"},
         NEW p \in Pools \cup {None}, ReturnWith(t, r, p)
  PROVE  /\ Moved(t, Below(t)) /\ got'[t] = p
         /\ Below(t) # <<>> => ret'[t] = r
<1>1. Below(t) \in Seq(Frames)
  BY TopFacts
<1>2. /\ ret \in [Threads -> {"ok", "throw", "clean"}] /\ got \in [Threads -> Pools \cup {None}]
  BY DEF TypeOK
<1>. QED BY <1>1, <1>2 DEF ReturnWith, Moved

\* What the first call of a thread does to its stack.
LEMMA EnterMoves ==
  ASSUME TypeOK, NEW t \in Threads, NEW f \in Frames, Enter(t, f)
  PROVE  Moved(t, Append(stack[t], f)) /\ UNCHANGED <<ret, got>>
<1>1. stack[t] \in Seq(Frames)
  BY DEF TypeOK, Frames
<1>2. Append(stack[t], f) \in Seq(Frames)
  BY <1>1, AppendIn
<1>. QED BY <1>2 DEF Enter, Moved, TypeOK

\* What going on in the same call does to the stack.
LEMMA BecomeMoves ==
  ASSUME TypeOK, NEW t \in Threads, stack[t] # <<>>, NEW at \in FrameAt, Become(t, at)
  PROVE  /\ Moved(t, Append(Below(t), Frame(at, Top(t).buf))) /\ UNCHANGED <<ret, got>>
<1>1. Below(t) \in Seq(Frames) /\ Top(t).buf \in Buffers \cup {None}
  BY TopFacts, FrameIs
<1>2. Frame(at, Top(t).buf) \in Frames
  BY <1>1, FrameType
<1>3. Append(Below(t), Frame(at, Top(t).buf)) \in Seq(Frames)
  BY <1>1, <1>2, AppendIn
<1>. QED BY <1>3 DEF Become, Moved, TypeOK

\* What a call from within a call does to the stack.
LEMMA BecomeEnterMoves ==
  ASSUME TypeOK, NEW t \in Threads, stack[t] # <<>>, NEW at \in FrameAt, NEW h \in Frames
  PROVE  /\ BecomeAndEnter(t, at, <<h>>) =>
              /\ Moved(t, Append(Append(Below(t), Frame(at, Top(t).buf)), h))
              /\ UNCHANGED <<ret, got>>
         /\ \A k \in Frames : BecomeAndEnter(t, at, <<h, k>>) =>
              /\ Moved(t, Append(Append(Append(Below(t), Frame(at, Top(t).buf)), h), k))
              /\ UNCHANGED <<ret, got>>
<1>1. Below(t) \in Seq(Frames) /\ Top(t).buf \in Buffers \cup {None}
  BY TopFacts, FrameIs
<1>2. Frame(at, Top(t).buf) \in Frames
  BY <1>1, FrameType
<1>. DEFINE s == Append(Below(t), Frame(at, Top(t).buf))
<1>3. s \in Seq(Frames)
  BY <1>1, <1>2, AppendIn
<1>. HIDE DEF s
<1>4. s \o <<h>> = Append(s, h) /\ Append(s, h) \in Seq(Frames)
  BY <1>3, AppendIsConcat, AppendIn
<1>5. \A k \in Frames : s \o <<h, k>> = Append(Append(s, h), k)
                        /\ Append(Append(s, h), k) \in Seq(Frames)
  BY <1>3, <1>4, ConcatTwo, AppendIn
<1>. QED BY <1>4, <1>5 DEF BecomeAndEnter, Moved, TypeOK, s

----------------------------------------------------------------------------
(* Stacks that change at the top.                                          *)

\* The top of a stack is in it.
LEMMA LastIs ==
  ASSUME NEW s \in Seq(Frames), s # <<>>
  PROVE  s[Len(s)] \in Frames /\ In(s, s[Len(s)])
<1>1. Len(s) \in Nat \ {0} /\ DOMAIN s = 1 .. Len(s)
  BY EmptySeq, LenProperties
<1>2. Len(s) \in 1 .. Len(s)
  BY <1>1
<1>. QED BY <1>1, <1>2, ElementOfSeq DEF In

\* The frame at the top is replaced.
LEMMA StackedReplace ==
  ASSUME NEW par, NEW org, NEW rank, NEW t, NEW s \in Seq(Frames), NEW f \in Frames,
         Stacked(par, org, rank, t, Append(s, f)),
         NEW g \in Frames, Known(par, org, g), Bottom(t, f) => Bottom(t, g),
         \A e \in Frames : Above(par, e, f) => Above(par, e, g),
         g.at \in CloseAt => f.at \in CloseAt /\ f.buf = g.buf,
         g.at \in BufferAt => f.at \in BufferAt
  PROVE  Stacked(par, org, rank, t, Append(s, g))
<1>1. /\ Stacked(par, org, rank, t, s)
      /\ s = <<>> => Bottom(t, f)
      /\ s # <<>> => Above(par, s[Len(s)], f)
      /\ \A e \in Frames : In(s, e) => Lower(rank, e, f)
  BY StackedAppend
<1>2. s # <<>> => Above(par, s[Len(s)], g)
  BY <1>1, LastIs
<1>3. \A e \in Frames : In(s, e) => Lower(rank, e, g)
  BY <1>1 DEF Lower
<1>. QED BY <1>1, <1>2, <1>3, StackedAppend

\* A frame is put on the top.
LEMMA StackedPush ==
  ASSUME NEW par, NEW org, NEW rank \in [Buffers -> Nat], NEW t, NEW s \in Seq(Frames),
         NEW f \in Frames, Stacked(par, org, rank, t, Append(s, f)),
         NEW h \in Frames, Known(par, org, h), Above(par, f, h),
         \/ h.at \notin CloseAt
         \/ f.at = "closing" /\ h.buf = f.buf
         \/ f.at = "cleaning" /\ h.buf \in Buffers /\ rank[h.buf] < rank[f.buf]
  PROVE  Stacked(par, org, rank, t, Append(Append(s, f), h))
<1>. DEFINE a == Append(s, f)
<1>1. a \in Seq(Frames) /\ a # <<>> /\ a[Len(a)] = f
  BY AppendIn
<1>2. \A e : In(a, e) <=> In(s, e) \/ e = f
  BY AppendIn
<1>3. \A e \in Frames : In(s, e) => Lower(rank, e, f)
  BY StackedAppend
<1>4. ASSUME NEW e \in Frames, In(a, e) PROVE Lower(rank, e, h)
  <2>0. e.at = "free" => h.at \notin BufferAt
    <3>1. h.at \in BufferAt => f.at \in {"closing", "reclaim", "cleaning"}
      BY DEF Above, BufferAt, PoolAt
    <3>2. In(s, e) => Lower(rank, e, f)
      BY <1>3
    <3>. QED BY <1>2, <1>4, <3>1, <3>2 DEF Lower, BufferAt
  <2>. SUFFICES ASSUME e.at = "cleaning", h.at \in CloseAt PROVE rank[h.buf] < rank[e.buf]
    BY <2>0 DEF Lower
  <2>1. CASE e = f
    BY <2>1 DEF CloseAt
  <2>2. CASE In(s, e)
    <3>1. Lower(rank, e, f)
      BY <1>3, <2>2
    <3>2. CASE f.at = "closing" /\ h.buf = f.buf
      BY <3>1, <3>2 DEF Lower, CloseAt
    <3>3. CASE f.at = "cleaning" /\ h.buf \in Buffers /\ rank[h.buf] < rank[f.buf]
      <4>1. rank[f.buf] < rank[e.buf]
        BY <3>1, <3>3 DEF Lower, CloseAt
      <4>2. e.buf \in Buffers /\ f.buf \in Buffers
        <5>1. Known(par, org, e) /\ Known(par, org, f)
          BY <1>1, <1>2, <2>2, StackedFrames
        <5>. QED BY <3>3, <5>1 DEF Known, BufferAt
      <4>. QED BY <3>3, <4>1, <4>2
    <3>. QED BY <3>2, <3>3
  <2>. QED BY <1>2, <1>4, <2>1, <2>2
<1>. HIDE DEF a
<1>5. Stacked(par, org, rank, t, a)
  BY DEF a
<1>6. Stacked(par, org, rank, t, Append(a, h))
  BY <1>1, <1>4, <1>5, StackedAppend
<1>. QED BY <1>6 DEF a

\* A stack that begins.
LEMMA StackedFirst ==
  ASSUME NEW par, NEW org, NEW rank, NEW t, NEW f \in Frames, Known(par, org, f), Bottom(t, f)
  PROVE  Stacked(par, org, rank, t, Append(<<>>, f)) /\ Append(<<>>, f) = <<f>>
<1>1. <<>> \in Seq(Frames)
  BY EmptySeq
<1>2. Append(<<>>, f) = <<f>>
  OBVIOUS
<1>. QED BY <1>1, <1>2, StackedAppend, StackedEmpty, EmptyIn

\* A stack of two frames.
LEMMA TwoFrames ==
  ASSUME NEW f \in Frames, NEW g \in Frames
  PROVE  <<f, g>> = Append(Append(<<>>, f), g) /\ <<f, g>> \in Seq(Frames)
         /\ Append(<<>>, f) \in Seq(Frames)
<1>1. <<>> \in Seq(Frames) /\ <<f, g>> \in Seq(Frames)
  BY EmptySeq
<1>2. <<>> \o <<f, g>> = <<f, g>>
  BY <1>1, ConcatEmptySeq
<1>. QED BY <1>1, <1>2, ConcatTwo, AppendIn

----------------------------------------------------------------------------
(* Shape.                                                                  *)

\* The two threads of the library.
LEMMA ThreadsAre == "hook" \in Threads /\ "cleaner" \in Threads /\ "hook" # "cleaner"
BY DEF Threads

\* One stack has changed, and nothing that the others say.
LEMMA ShapeMoved ==
  ASSUME NEW rank \in [Buffers -> Nat], Shape(rank), NEW t \in Threads, NEW S, Moved(t, S),
         Stacked(parent, origin, rank, t, S), UNCHANGED <<parent, origin>>,
         TypeOK', frees' \in [Buffers -> Seq(Pools)], Traceless'
  PROVE  Shape(rank)'
<1>1. stack \in [Threads -> Seq(Frames)]
  BY DEF Shape, TypeOK, Frames
<1>2. stack'[t] = S /\ \A u \in Threads : u # t => stack'[u] = stack[u]
  BY <1>1 DEF Moved
<1>3. ASSUME NEW u \in Threads PROVE Stacked(parent', origin', rank, u, stack'[u])
  <2>1. Stacked(parent, origin, rank, u, stack[u])
    BY DEF Shape
  <2>. QED BY <1>2, <2>1
<1>4. Ancestry(rank)'
  BY DEF Shape, Ancestry, Used
<1>. QED BY <1>3, <1>4 DEF Shape

\* Buffers that do not exist stay so when no buffer changes.
LEMMA TracelessKept ==
  ASSUME Traceless, UNCHANGED bufferVars
  PROVE  Traceless'
BY DEF Traceless, bufferVars, Used

\* What was said of the buffers depends on the frames that name one.
SameFrames(t, S) == \A at \in BufferAt : \A b \in Buffers : In(S, Frame(at, b)) <=> InFrame(t, at, b)

\* A step that leaves the buffers alone.
Quiet(rank, t, S) ==
  /\ Moved(t, S) /\ Stacked(parent, origin, rank, t, S) /\ SameFrames(t, S)
  /\ UNCHANGED bufferVars /\ jvm' = jvm
  /\ t \in Users \/ stack[t] # <<>>

\* The shape of the stacks after a step of the pool.
LEMMA QuietShape ==
  ASSUME NEW rank \in [Buffers -> Nat], Shape(rank), NEW t \in Threads, NEW S, Quiet(rank, t, S),
         singleton_' \in Pools \cup {None}, initFuture' \in Pools \cup {None},
         pool' \in [Pools -> {"none", "pending", "live", "failed", "released"}],
         visited' \subseteq Buffers, calls' \in 0 .. MaxCalls
  PROVE  Shape(rank)'
<1>1. Moved(t, S) /\ Stacked(parent, origin, rank, t, S) /\ UNCHANGED <<parent, origin>>
  BY DEF Quiet, bufferVars
<1>2. stack' \in [Threads -> Seq(Frames)]
  BY <1>1 DEF Moved, Shape, TypeOK, Frames
<1>3. TypeOK'
  BY <1>1, <1>2 DEF Shape, TypeOK, Quiet, bufferVars, Frames, Moved
<1>4. frees' \in [Buffers -> Seq(Pools)] /\ Traceless'
  BY TracelessKept DEF Shape, Quiet, bufferVars
<1>. QED BY <1>1, <1>3, <1>4, ShapeMoved

\* A frame that names no buffer is popped, replaced or pushed.
LEMMA QuietPop ==
  ASSUME NEW rank \in [Buffers -> Nat], Shape(rank), NEW t \in Threads, stack[t] # <<>>,
         Top(t).at \notin BufferAt, Moved(t, Below(t)), UNCHANGED bufferVars, jvm' = jvm
  PROVE  Quiet(rank, t, Below(t))
<1>1. /\ Below(t) \in Seq(Frames) /\ Top(t) \in Frames /\ stack[t] = Append(Below(t), Top(t))
      /\ Stacked(parent, origin, rank, t, stack[t])
  BY TopFacts DEF Shape
<1>. DEFINE B == Below(t)
            f == Top(t)
<1>. HIDE DEF B, f
<1>2. /\ B \in Seq(Frames) /\ f \in Frames /\ stack[t] = Append(B, f) /\ f.at \notin BufferAt
      /\ Stacked(parent, origin, rank, t, Append(B, f))
  BY <1>1 DEF B, f
<1>3. Stacked(parent, origin, rank, t, B)
  BY <1>2, StackedAppend
<1>4. ASSUME NEW at \in BufferAt, NEW b \in Buffers
      PROVE  In(B, Frame(at, b)) <=> InFrame(t, at, b)
  <2>1. Frame(at, b) # f
    BY <1>2 DEF Frame
  <2>2. In(Append(B, f), Frame(at, b)) <=> In(B, Frame(at, b))
    BY <1>2, <2>1, AppendIn
  <2>. QED BY <1>2, <2>2 DEF InFrame, In
<1>. QED BY <1>3, <1>4 DEF Quiet, SameFrames, B

\* Going on in a call of the pool is quiet.
LEMMA QuietBecome ==
  ASSUME NEW rank \in [Buffers -> Nat], Shape(rank), NEW t \in Threads, stack[t] # <<>>,
         Top(t).at \notin BufferAt, NEW g \in Frames, g.at \notin BufferAt,
         Bottom(t, Top(t)) => Bottom(t, g),
         \A e \in Frames : Above(parent, e, Top(t)) => Above(parent, e, g),
         Moved(t, Append(Below(t), g)), UNCHANGED bufferVars, jvm' = jvm
  PROVE  Quiet(rank, t, Append(Below(t), g))
<1>1. /\ Below(t) \in Seq(Frames) /\ Top(t) \in Frames /\ stack[t] = Append(Below(t), Top(t))
      /\ Stacked(parent, origin, rank, t, stack[t])
  BY TopFacts DEF Shape
<1>. DEFINE B == Below(t)
            f == Top(t)
<1>. HIDE DEF B, f
<1>2. /\ B \in Seq(Frames) /\ f \in Frames /\ stack[t] = Append(B, f) /\ f.at \notin BufferAt
      /\ Stacked(parent, origin, rank, t, Append(B, f))
      /\ Bottom(t, f) => Bottom(t, g)
      /\ \A e \in Frames : Above(parent, e, f) => Above(parent, e, g)
  BY <1>1 DEF B, f
<1>3. g.at \notin CloseAt /\ Known(parent, origin, g)
  BY DEF CloseAt, BufferAt, Known
<1>4. Stacked(parent, origin, rank, t, Append(B, g))
  BY <1>2, <1>3, StackedReplace
<1>5. ASSUME NEW at \in BufferAt, NEW b \in Buffers
      PROVE  In(Append(B, g), Frame(at, b)) <=> InFrame(t, at, b)
  <2>1. Frame(at, b) # f /\ Frame(at, b) # g
    BY <1>2 DEF Frame
  <2>2. In(Append(B, f), Frame(at, b)) <=> In(Append(B, g), Frame(at, b))
    BY <1>2, <2>1, AppendIn
  <2>. QED BY <1>2, <2>2 DEF InFrame, In
<1>. QED BY <1>4, <1>5 DEF Quiet, SameFrames, B

----------------------------------------------------------------------------
(* The class's monitor.                                                    *)

ClassAt == {"locked", "initialize", "shutdown", "unset"}
HasClass(s) == \E f \in Frames : In(s, f) /\ f.at \in ClassAt

\* A thread is in the monitor of the class when its stack says so.
LEMMA InClassIs ==
  ASSUME TypeOK, NEW t \in Threads
  PROVE  InClass(t) <=> HasClass(stack[t])
<1>1. stack[t] \in Seq(Frames)
  BY DEF TypeOK, Frames
<1>2. DOMAIN stack[t] = 1 .. Len(stack[t]) /\ \A i \in DOMAIN stack[t] : stack[t][i] \in Frames
  BY <1>1, LenProperties, ElementOfSeq
<1>. QED BY <1>2 DEF InClass, HasClass, In, ClassAt

\* Where the threads are after a step of t.
LEMMA AfterMove ==
  ASSUME TypeOK, NEW t \in Threads, NEW S, Moved(t, S)
  PROVE  /\ \A u \in Threads : u # t =>
              /\ stack'[u] = stack[u] /\ ret'[u] = ret[u] /\ got'[u] = got[u]
              /\ InClass(u)' <=> InClass(u)
              /\ \A x : At(u, x)' <=> At(u, x)
         /\ stack'[t] = S
         /\ InClass(t)' <=> HasClass(S)
         /\ \A x : At(t, x)' <=> S # <<>> /\ S[Len(S)].at = x
<1>1. stack \in [Threads -> Seq(Frames)]
  BY DEF TypeOK, Frames
<1>2. stack'[t] = S /\ \A u \in Threads : u # t => stack'[u] = stack[u]
  BY <1>1 DEF Moved
<1>3. ASSUME NEW u \in Threads, u # t
      PROVE  /\ ret'[u] = ret[u] /\ got'[u] = got[u] /\ (InClass(u)' <=> InClass(u))
             /\ \A x : At(u, x)' <=> At(u, x)
  BY <1>2, <1>3 DEF Moved, InClass, At, Top
<1>4. InClass(t)' <=> HasClass(S)
  <2>1. S \in Seq(Frames)
    BY DEF Moved
  <2>2. DOMAIN S = 1 .. Len(S) /\ \A i \in DOMAIN S : S[i] \in Frames
    BY <2>1, LenProperties, ElementOfSeq
  <2>. QED BY <1>2, <2>2 DEF InClass, HasClass, In, ClassAt
<1>5. \A x : At(t, x)' <=> S # <<>> /\ S[Len(S)].at = x
  BY <1>2 DEF At, Top
<1>. QED BY <1>2, <1>3, <1>4, <1>5

\* A push enters the monitor when the frame does.
LEMMA HasClassAppend ==
  ASSUME NEW s \in Seq(Frames), NEW f \in Frames
  PROVE  HasClass(Append(s, f)) <=> HasClass(s) \/ f.at \in ClassAt
BY AppendIn DEF HasClass

\* Where a thread in the monitor is seen to be so.
LEMMA InMonitor ==
  ASSUME NEW rank, Shape(rank), NEW t \in Threads, NEW x, At(t, x),
         x \in {"reset", "locked", "initialize", "shutdown", "unset"}
  PROVE  InClass(t)
<1>1. /\ Below(t) \in Seq(Frames) /\ Top(t) \in Frames /\ stack[t] = Append(Below(t), Top(t))
      /\ TypeOK /\ Stacked(parent, origin, rank, t, stack[t]) /\ Top(t).at = x
  BY TopFacts DEF Shape, At
<1>. DEFINE f == Top(t)
<1>2. f \in Frames /\ In(stack[t], f) /\ f.at = x
  BY <1>1, AppendIn
<1>. HIDE DEF f
<1>3. CASE x # "reset"
  BY <1>1, <1>2, <1>3, InClassIs DEF HasClass, ClassAt
<1>4. CASE x = "reset"
  <2>1. stack[t] \in Seq(Frames)
    BY <1>1, AppendIn
  <2>2. Bottom(t, f) \/ \E h \in Frames : In(stack[t], h) /\ Above(parent, h, f)
    BY <1>1, <1>2, <2>1, Beneath
  <2>3. ~Bottom(t, f)
    BY <1>2, <1>4 DEF Bottom
  <2>4. PICK h \in Frames : In(stack[t], h) /\ Above(parent, h, f)
    BY <2>2, <2>3
  <2>5. h.at = "locked"
    BY <1>2, <1>4, <2>4 DEF Above, PoolAt, Frame
  <2>. QED BY <1>1, <2>4, <2>5, InClassIs DEF HasClass, ClassAt
<1>. QED BY <1>3, <1>4

\* The threads that do not step.
LEMMA SteadyOthers ==
  ASSUME NEW rank, Shape(rank), Monitor, NEW t \in Threads, NEW S, Moved(t, S),
         \/ InClass(t)
         \/ UNCHANGED <<singleton_, initFuture>> /\ Existing' \subseteq Existing
  PROVE  \A u \in Threads : u # t => Steady(u)'
<1>. SUFFICES ASSUME NEW u \in Threads, u # t PROVE Steady(u)'
  OBVIOUS
<1>1. TypeOK /\ Steady(u)
  BY DEF Shape, Monitor
<1>2. /\ ret'[u] = ret[u] /\ got'[u] = got[u] /\ (InClass(u)' <=> InClass(u))
      /\ \A x : At(u, x)' <=> At(u, x)
  BY <1>1, AfterMove
<1>3. CASE UNCHANGED <<singleton_, initFuture>> /\ Existing' \subseteq Existing
  BY <1>1, <1>2, <1>3 DEF Steady
<1>4. CASE InClass(t)
  <2>1. ~InClass(u)
    BY <1>4 DEF Monitor
  <2>2. ~At(u, "reset") /\ ~At(u, "initialize") /\ ~At(u, "shutdown") /\ ~At(u, "unset")
    BY <2>1, InMonitor
  <2>. QED BY <1>2, <2>1, <2>2 DEF Steady
<1>. QED BY <1>3, <1>4

\* Only one thread enters the monitor.
LEMMA MonitorOne ==
  ASSUME NEW rank, Shape(rank), Monitor, NEW t \in Threads, NEW S, Moved(t, S),
         HasClass(S) => InClass(t) \/ ClassFree(t)
  PROVE  \A u, v \in Threads : InClass(u)' /\ InClass(v)' => u = v
<1>1. TypeOK
  BY DEF Shape
<1>2. \A u \in Threads : u # t => (InClass(u)' <=> InClass(u))
  BY <1>1, AfterMove
<1>3. InClass(t)' <=> HasClass(S)
  BY <1>1, AfterMove
<1>4. ASSUME NEW u \in Threads, u # t, InClass(u)', InClass(t)' PROVE FALSE
  BY <1>2, <1>3, <1>4 DEF Monitor, ClassFree
<1>5. \A u, v \in Threads : InClass(u) /\ InClass(v) => u = v
  BY DEF Monitor
<1>. QED BY <1>2, <1>4, <1>5

\* A step of a thread that leaves the pool alone and is, afterwards, where nothing
\* is claimed.
LEMMA MonitorKept ==
  ASSUME NEW rank, Shape(rank), Monitor, NEW t \in Threads, NEW S, Moved(t, S),
         UNCHANGED poolVars, HasClass(S) => InClass(t) \/ ClassFree(t),
         S # <<>> => S[Len(S)].at \notin {"future", "final", "reset", "initialize",
                                          "shutdown", "unset"}
  PROVE  Monitor'
<1>1. Existing' = Existing /\ UNCHANGED <<singleton_, initFuture>>
  BY DEF Existing, poolVars
<1>2. \A u \in Threads : u # t => Steady(u)'
  BY <1>1, SteadyOthers
<1>3. Steady(t)'
  <2>1. \A x : At(t, x)' <=> S # <<>> /\ S[Len(S)].at = x
    BY AfterMove DEF Shape
  <2>. QED BY <2>1 DEF Steady
<1>4. \A u, v \in Threads : InClass(u)' /\ InClass(v)' => u = v
  BY MonitorOne
<1>. QED BY <1>1, <1>2, <1>3, <1>4 DEF Monitor

----------------------------------------------------------------------------
(* The pool.                                                               *)

\* What thread t is in, without the call at the top.
LEMMA BelowFacts ==
  ASSUME NEW rank, Shape(rank), NEW t \in Threads, stack[t] # <<>>
  PROVE  /\ TypeOK /\ Below(t) \in Seq(Frames) /\ Top(t) \in Frames
         /\ stack[t] = Append(Below(t), Top(t))
         /\ Stacked(parent, origin, rank, t, Append(Below(t), Top(t)))
         /\ Stacked(parent, origin, rank, t, Below(t))
         /\ Known(parent, origin, Top(t))
         /\ Below(t) = <<>> => Bottom(t, Top(t))
         /\ Below(t) # <<>> => /\ Above(parent, Below(t)[Len(Below(t))], Top(t))
                               /\ Below(t)[Len(Below(t))] \in Frames
         /\ HasClass(Below(t)) => InClass(t)
         /\ InClass(t) <=> HasClass(Below(t)) \/ Top(t).at \in ClassAt
<1>1. /\ TypeOK /\ Below(t) \in Seq(Frames) /\ Top(t) \in Frames
      /\ stack[t] = Append(Below(t), Top(t)) /\ Stacked(parent, origin, rank, t, stack[t])
  BY TopFacts DEF Shape
<1>. DEFINE B == Below(t)
            f == Top(t)
<1>. HIDE DEF B, f
<1>2. /\ B \in Seq(Frames) /\ f \in Frames /\ stack[t] = Append(B, f)
      /\ Stacked(parent, origin, rank, t, Append(B, f))
  BY <1>1 DEF B, f
<1>3. /\ Stacked(parent, origin, rank, t, B) /\ Known(parent, origin, f)
      /\ B = <<>> => Bottom(t, f)
      /\ B # <<>> => Above(parent, B[Len(B)], f)
  BY <1>2, StackedAppend
<1>4. B # <<>> => B[Len(B)] \in Frames
  BY <1>2, LastIs
<1>5. InClass(t) <=> HasClass(B) \/ f.at \in ClassAt
  BY <1>1, <1>2, InClassIs, HasClassAppend, ZenonT(40)
<1>. QED BY <1>1, <1>2, <1>3, <1>4, <1>5 DEF B, f

\* Who calls the accessors of the pool.
LEMMA CallerBelow ==
  ASSUME NEW rank, Shape(rank), NEW t \in Threads, stack[t] # <<>>, Top(t).at \in PoolAt
  PROVE  /\ Below(t) # <<>>
         /\ Below(t)[Len(Below(t))].at \in {"free", "allocate", "initialize", "shutdown"}
<1>1. /\ Below(t) = <<>> => Bottom(t, Top(t))
      /\ Below(t) # <<>> => Above(parent, Below(t)[Len(Below(t))], Top(t))
  BY BelowFacts
<1>2. ~Bottom(t, Top(t))
  BY DEF Bottom, PoolAt
<1>. QED BY <1>1, <1>2 DEF Above, PoolAt, Frame

\* Calls that nothing of the library makes are at the bottom of a stack.
LEMMA AloneBelow ==
  ASSUME NEW rank, Shape(rank), NEW t \in Threads, stack[t] # <<>>,
         Top(t).at \in {"allocate", "initialize", "shutdown", "unset", "reclaim"}
  PROVE  Below(t) = <<>>
<1>1. Below(t) # <<>> => Above(parent, Below(t)[Len(Below(t))], Top(t))
  BY BelowFacts
<1>. QED BY <1>1 DEF Above, PoolAt, Frame

\* Memory that is being freed came from a pool.
LEMMA FreeFacts ==
  ASSUME NEW rank, Shape(rank), NEW t \in Threads, At(t, "free")
  PROVE  /\ Top(t).buf \in Buffers /\ parent[Top(t).buf] = None /\ origin[Top(t).buf] \in Pools
         /\ Below(t) # <<>> /\ Below(t)[Len(Below(t))] = Frame("cleaning", Top(t).buf)
<1>1. stack[t] # <<>> /\ Top(t).at = "free"
  BY DEF At
<1>2. /\ Known(parent, origin, Top(t)) /\ (Below(t) = <<>> => Bottom(t, Top(t)))
      /\ Below(t) # <<>> => /\ Above(parent, Below(t)[Len(Below(t))], Top(t))
                            /\ Below(t)[Len(Below(t))] \in Frames
  BY <1>1, BelowFacts
<1>3. Below(t) # <<>>
  BY <1>1, <1>2 DEF Bottom
<1>. DEFINE e == Below(t)[Len(Below(t))]
<1>4. Above(parent, e, Top(t)) /\ e \in Frames
  BY <1>2, <1>3
<1>. HIDE DEF e
<1>5. e.at = "cleaning" /\ parent[e.buf] = None /\ Top(t) = Frame("free", e.buf)
  BY <1>1, <1>4 DEF Above, PoolAt
<1>6. Top(t).buf = e.buf
  BY <1>5 DEF Frame
<1>7. e = Frame("cleaning", Top(t).buf)
  BY <1>4, <1>5, <1>6, FrameIs
<1>8. Top(t).buf \in Buffers /\ origin[Top(t).buf] # None
  BY <1>1, <1>2, <1>5, <1>6 DEF Known, BufferAt
<1>9. origin[Top(t).buf] \in Pools
  BY <1>8 DEF Shape, TypeOK
<1>. QED BY <1>3, <1>5, <1>6, <1>7, <1>8, <1>9 DEF e

\* Steps that give no memory back.
LEMMA OwnersKept ==
  ASSUME NEW rank, Shape(rank), Owners, NEW t \in Threads, NEW S, Moved(t, S),
         UNCHANGED <<origin, frees>>,
         \A p \in Pools : Owner(p) => Owner(p)',
         \A p \in Pools : pool[p] = "released" => pool'[p] = "released",
         (singleton_ # None => Owner(singleton_))',
         (got[t] # None => Owner(got[t]))',
         FreesOwn(t)'
  PROVE  Owners'
<1>1. TypeOK
  BY DEF Shape
<1>2. /\ got \in [Threads -> Pools \cup {None}] /\ origin \in [Buffers -> Pools \cup {None}]
  BY <1>1 DEF TypeOK
<1>3. ASSUME NEW u \in Threads PROVE (got[u] # None => Owner(got[u]))'
  <2>1. CASE u # t
    <3>1. got'[u] = got[u]
      BY <1>1, <2>1, AfterMove
    <3>2. got[u] # None => got[u] \in Pools /\ Owner(got[u])
      BY <1>2 DEF Owners
    <3>. QED BY <3>1, <3>2 DEF Owner
  <2>. QED BY <2>1
<1>4. ASSUME NEW b \in Buffers PROVE (origin[b] # None => Owner(origin[b]))'
  <2>1. origin[b] # None => origin[b] \in Pools /\ Owner(origin[b])
    BY <1>2 DEF Owners
  <2>. QED BY <2>1 DEF Owner
<1>5. ASSUME NEW u \in Threads PROVE FreesOwn(u)'
  <2>1. CASE u # t
    <3>1. /\ stack'[u] = stack[u] /\ got'[u] = got[u] /\ (At(u, "free")' <=> At(u, "free"))
      BY <1>1, <2>1, AfterMove
    <3>2. Top(u)' = Top(u) /\ FreesOwn(u)
      BY <3>1 DEF Top, Owners
    <3>3. At(u, "free") => origin[Top(u).buf] \in Pools
      BY FreeFacts
    <3>. QED BY <3>1, <3>2, <3>3 DEF FreesOwn
  <2>. QED BY <2>1
<1>6. OwnUnlessReleased' /\ \A b \in Buffers : frees'[b] # <<>> => origin'[b] # None
  <2>1. \A b \in Buffers : frees[b] # <<>> => origin[b] \in Pools
    BY <1>2 DEF Owners
  <2>. QED BY <2>1 DEF Owners, OwnUnlessReleased
<1>. QED BY <1>3, <1>4, <1>5, <1>6 DEF Owners

\* The same of a frame anywhere in a stack.
LEMMA FreeIn ==
  ASSUME NEW par, NEW org, NEW rank, NEW t, NEW s \in Seq(Frames),
         Stacked(par, org, rank, t, s), NEW g \in Frames, In(s, g), g.at = "free"
  PROVE  g.buf \in Buffers /\ par[g.buf] = None /\ org[g.buf] # None
         /\ In(s, Frame("cleaning", g.buf))
<1>1. Known(par, org, g)
  BY StackedFrames
<1>2. ~Bottom(t, g)
  BY DEF Bottom
<1>3. PICK h \in Frames : In(s, h) /\ Above(par, h, g)
  BY <1>2, Beneath
<1>4. h.at = "cleaning" /\ par[h.buf] = None /\ g = Frame("free", h.buf)
  BY <1>3 DEF Above, PoolAt
<1>5. g.buf = h.buf
  BY <1>4 DEF Frame
<1>6. h = Frame("cleaning", g.buf)
  BY <1>4, <1>5, FrameIs
<1>. QED BY <1>1, <1>3, <1>4, <1>5, <1>6 DEF Known, BufferAt

\* The pool is as it was.
LEMMA OwnersPoolKept ==
  ASSUME NEW rank, Shape(rank), Owners, NEW t \in Threads, NEW S, Moved(t, S),
         UNCHANGED <<origin, frees, poolVars>>, Stacked(parent, origin, rank, t, S),
         \/ got'[t] = None
         \/ got'[t] = got[t] /\ ~At(t, "free")'
         \/ got'[t] = singleton_
  PROVE  Owners'
<1>1. UNCHANGED <<singleton_, pool>>
  BY DEF poolVars
<1>2. \A p : Owner(p)' <=> Owner(p)
  BY <1>1 DEF Owner
<1>3. (got[t] # None => Owner(got[t]))'
  BY <1>1 DEF Owners, Owner
<1>4. FreesOwn(t)'
  <2>1. CASE got'[t] = None
    BY <2>1 DEF FreesOwn
  <2>2. CASE got'[t] = got[t] /\ ~At(t, "free")'
    BY <2>2 DEF FreesOwn
  <2>3. CASE got'[t] = singleton_ /\ got'[t] # None /\ At(t, "free")'
    <3>. DEFINE g == S[Len(S)]
    <3>1. TypeOK /\ S \in Seq(Frames)
      BY DEF Shape, Moved
    <3>2. S # <<>> /\ g.at = "free" /\ Top(t)' = g
      BY <2>3, <3>1, AfterMove DEF Top
    <3>3. g \in Frames /\ In(S, g)
      BY <3>1, <3>2, LastIs
    <3>. HIDE DEF g
    <3>4. g.buf \in Buffers /\ origin[g.buf] # None
      BY <3>1, <3>2, <3>3, FreeIn
    <3>5. Owner(origin[g.buf])
      BY <3>4 DEF Owners
    <3>. QED BY <1>1, <2>3, <3>2, <3>5 DEF FreesOwn, Owner
  <2>. QED BY <2>1, <2>2, <2>3 DEF FreesOwn
<1>5. (singleton_ # None => Owner(singleton_))'
  BY <1>1 DEF Owners, Owner
<1>. QED BY <1>1, <1>2, <1>3, <1>4, <1>5, OwnersKept

\* A step of t that leaves the buffers alone and keeps what is said of the pool.
Settled(rank, t) == (\E S : Quiet(rank, t, S)) /\ Shape(rank)' /\ Monitor' /\ Owners'

\* The same when the pool does not change either.
LEMMA QuietShapeKept ==
  ASSUME NEW rank \in [Buffers -> Nat], Shape(rank), NEW t \in Threads, NEW S, Quiet(rank, t, S),
         UNCHANGED <<poolVars, jvmVars>>
  PROVE  Shape(rank)'
<1>1. /\ singleton_ \in Pools \cup {None} /\ initFuture \in Pools \cup {None}
      /\ pool \in [Pools -> {"none", "pending", "live", "failed", "released"}]
      /\ visited \subseteq Buffers /\ calls \in 0 .. MaxCalls
  BY DEF Shape, TypeOK
<1>2. UNCHANGED <<singleton_, initFuture, pool, visited, calls>>
  BY DEF poolVars, jvmVars
<1>3. /\ singleton_' \in Pools \cup {None} /\ initFuture' \in Pools \cup {None}
      /\ pool' \in [Pools -> {"none", "pending", "live", "failed", "released"}]
      /\ visited' \subseteq Buffers /\ calls' \in 0 .. MaxCalls
  BY <1>1, <1>2
<1>. QED BY <1>3, QuietShape

\* getSingleton returns.
LEMMA PoolReturn ==
  ASSUME NEW rank \in [Buffers -> Nat], Shape(rank), Monitor, Owners, NEW t \in Threads,
         stack[t] # <<>>, Top(t).at \in PoolAt,
         NEW r \in {"ok", "throw"}, NEW p \in Pools \cup {None}, ReturnWith(t, r, p),
         UNCHANGED <<bufferVars, poolVars, jvmVars>>, p \in {None, singleton_},
         HasClass(Below(t)) /\ r = "ok" => p = singleton_ /\ (singleton_ = None => initFuture = None)
  PROVE  Settled(rank, t)
<1>. DEFINE B == Below(t)
<1>1. TypeOK /\ (HasClass(B) => InClass(t)) /\ Stacked(parent, origin, rank, t, B)
      /\ B \in Seq(Frames) /\ (B # <<>> => B[Len(B)] \in Frames)
  BY BelowFacts
<1>2. B # <<>> /\ B[Len(B)].at \in {"free", "allocate", "initialize", "shutdown"}
  BY CallerBelow
<1>3. Moved(t, B) /\ got'[t] = p /\ ret'[t] = r
  BY <1>1, <1>2, ReturnMoves
<1>4. Top(t).at \notin BufferAt /\ jvm' = jvm
  BY DEF PoolAt, BufferAt, jvmVars
<1>5. Quiet(rank, t, B)
  BY <1>3, <1>4, QuietPop
<1>. HIDE DEF B
<1>6. UNCHANGED <<origin, frees, singleton_, initFuture, pool>>
  BY DEF bufferVars, poolVars
<1>7. Existing' = Existing
  BY <1>6 DEF Existing
<1>8. \A u \in Threads : u # t => Steady(u)'
  BY <1>3, <1>6, <1>7, SteadyOthers
<1>9. \A u, v \in Threads : InClass(u)' /\ InClass(v)' => u = v
  BY <1>1, <1>3, MonitorOne
<1>10. Steady(t)'
  <2>1. \A x : At(t, x)' <=> B[Len(B)].at = x
    BY <1>1, <1>2, <1>3, AfterMove
  <2>2. B[Len(B)].at \in {"initialize", "shutdown"} => HasClass(B)
    BY <1>1, <1>2, LastIs DEF HasClass, ClassAt
  <2>3. HasClass(B) /\ r = "ok" => p = singleton_ /\ (singleton_ = None => initFuture = None)
    BY DEF B
  <2>. QED BY <1>2, <1>3, <1>6, <2>1, <2>2, <2>3 DEF Steady
<1>11. Monitor'
  BY <1>6, <1>7, <1>8, <1>9, <1>10 DEF Monitor
<1>12. Owners'
  BY <1>1, <1>3, <1>6, OwnersPoolKept
<1>. QED BY <1>5, <1>11, <1>12, QuietShapeKept DEF Settled

\* getSingleton goes on.
LEMMA PoolBecome ==
  ASSUME NEW rank \in [Buffers -> Nat], Shape(rank), Monitor, Owners, NEW t \in Threads,
         stack[t] # <<>>, Top(t).at \in PoolAt,
         NEW at \in {"future", "locked", "final"}, Become(t, at),
         UNCHANGED <<bufferVars, poolVars, jvmVars>>,
         at = "future" => singleton_ = None, at = "final" => singleton_ # None,
         at = "locked" => ClassFree(t)
  PROVE  Settled(rank, t)
<1>. DEFINE B == Below(t)
            g == Frame(at, Top(t).buf)
            S == Append(B, g)
<1>1. TypeOK /\ (HasClass(B) => InClass(t)) /\ B \in Seq(Frames) /\ Top(t) \in Frames
  BY BelowFacts
<1>2. at \in FrameAt /\ at \in PoolAt /\ at \notin BufferAt
  BY DEF FrameAt, PoolAt, BufferAt
<1>3. g \in Frames /\ g.at = at
  BY <1>1, <1>2, FrameType, FrameIs
<1>4. Moved(t, S) /\ UNCHANGED <<ret, got>>
  BY <1>1, <1>2, BecomeMoves
<1>5. /\ Top(t).at \notin BufferAt /\ jvm' = jvm /\ ~Bottom(t, Top(t))
      /\ \A e \in Frames : Above(parent, e, Top(t)) => Above(parent, e, g)
  BY <1>2, <1>3 DEF PoolAt, BufferAt, jvmVars, Bottom, Above, Frame
<1>6. Quiet(rank, t, S)
  BY <1>2, <1>3, <1>4, <1>5, QuietBecome
<1>. HIDE DEF B, g
<1>7. UNCHANGED <<origin, frees, singleton_, initFuture, pool>>
  BY DEF bufferVars, poolVars
<1>8. Existing' = Existing
  BY <1>7 DEF Existing
<1>9. \A u \in Threads : u # t => Steady(u)'
  BY <1>4, <1>7, <1>8, SteadyOthers
<1>10. HasClass(S) => InClass(t) \/ ClassFree(t)
  BY <1>1, <1>3, HasClassAppend DEF ClassAt
<1>11. \A u, v \in Threads : InClass(u)' /\ InClass(v)' => u = v
  BY <1>4, <1>10, MonitorOne
<1>12. \A x : At(t, x)' <=> at = x
  <2>1. S # <<>> /\ S[Len(S)] = g
    BY <1>1, <1>3, AppendIn
  <2>2. \A x : At(t, x)' <=> S # <<>> /\ S[Len(S)].at = x
    BY <1>1, <1>4, AfterMove
  <2>. QED BY <1>3, <2>1, <2>2
<1>13. Steady(t)'
  BY <1>7, <1>12 DEF Steady
<1>14. Monitor'
  BY <1>7, <1>8, <1>9, <1>11, <1>13 DEF Monitor
<1>15. Owners'
  <2>1. ~At(t, "free")' /\ got'[t] = got[t] /\ Stacked(parent, origin, rank, t, S)
    BY <1>4, <1>6, <1>12 DEF Quiet
  <2>. QED BY <1>4, <1>7, <2>1, OwnersPoolKept
<1>. QED BY <1>6, <1>14, <1>15, QuietShapeKept DEF Settled

\* getSingleton tests the field outside the monitor.
LEMMA SingleStep ==
  ASSUME NEW rank \in [Buffers -> Nat], Shape(rank), Monitor, Owners, NEW t \in Threads, Single(t)
  PROVE  Settled(rank, t)
<1>1. stack[t] # <<>> /\ Top(t).at \in PoolAt /\ UNCHANGED <<bufferVars, poolVars, jvmVars>>
  BY DEF Single, At, PoolAt
<1>2. singleton_ \in Pools \cup {None}
  BY DEF Shape, TypeOK
<1>3. CASE singleton_ # None /\ ReturnWith(t, "ok", singleton_)
  BY <1>1, <1>2, <1>3, PoolReturn
<1>4. CASE singleton_ = None /\ Become(t, "future")
  BY <1>1, <1>4, PoolBecome
<1>. QED BY <1>3, <1>4 DEF Single

\* getSingleton reads the future, outside the monitor perhaps an old one.
LEMMA FutureStep ==
  ASSUME NEW rank \in [Buffers -> Nat], Shape(rank), Monitor, Owners, NEW t \in Threads, Future(t)
  PROVE  Settled(rank, t)
<1>1. /\ stack[t] # <<>> /\ Top(t).at \in PoolAt /\ UNCHANGED <<bufferVars, poolVars, jvmVars>>
      /\ At(t, "future")
  BY DEF Future, At, PoolAt
<1>2. CASE (initFuture = None \/ ~InClass(t)) /\ Return(t, "ok")
  <2>1. ReturnWith(t, "ok", None)
    BY <1>2 DEF Return
  <2>2. HasClass(Below(t)) => InClass(t)
    BY <1>1, BelowFacts
  <2>3. HasClass(Below(t)) => singleton_ = None /\ initFuture = None
    BY <1>1, <1>2, <2>2 DEF Monitor, Steady
  <2>. QED BY <1>1, <2>1, <2>3, PoolReturn
<1>3. CASE ClassFree(t) /\ Become(t, "locked")
  BY <1>1, <1>3, PoolBecome
<1>. QED BY <1>2, <1>3 DEF Future

\* The field is read once more to be returned.
LEMMA FinalStep ==
  ASSUME NEW rank \in [Buffers -> Nat], Shape(rank), Monitor, Owners, NEW t \in Threads, Final(t)
  PROVE  Settled(rank, t)
<1>1. /\ stack[t] # <<>> /\ Top(t).at \in PoolAt /\ UNCHANGED <<bufferVars, poolVars, jvmVars>>
      /\ At(t, "final") /\ ReturnWith(t, "ok", singleton_)
  BY DEF Final, At, PoolAt
<1>2. singleton_ \in Pools \cup {None}
  BY DEF Shape, TypeOK
<1>3. HasClass(Below(t)) => InClass(t)
  BY <1>1, BelowFacts
<1>4. HasClass(Below(t)) => singleton_ # None
  BY <1>1, <1>3 DEF Monitor, Steady
<1>. QED BY <1>1, <1>2, <1>4, PoolReturn

\* A step in the monitor that changes the fields.
LEMMA PoolSettled ==
  ASSUME NEW rank \in [Buffers -> Nat], Shape(rank), Monitor, Owners, NEW t \in Threads,
         NEW S, Quiet(rank, t, S), UNCHANGED jvmVars, InClass(t), Steady(t)',
         singleton_' \in Pools \cup {None}, initFuture' \in Pools \cup {None},
         pool' \in [Pools -> {"none", "pending", "live", "failed", "released"}],
         Existing' \subseteq {singleton_', initFuture'},
         singleton_' # None /\ initFuture' # None => singleton_' = initFuture',
         \A p \in Pools : Owner(p) => Owner(p)',
         \A p \in Pools : pool[p] = "released" => pool'[p] = "released",
         (singleton_ # None => Owner(singleton_))',
         got'[t] = None \/ (got'[t] = got[t] /\ ~At(t, "free")')
  PROVE  Settled(rank, t)
<1>1. TypeOK /\ Moved(t, S) /\ UNCHANGED <<origin, frees>>
  BY DEF Shape, Quiet, bufferVars
<1>2. visited' \subseteq Buffers /\ calls' \in 0 .. MaxCalls
  BY <1>1 DEF TypeOK, jvmVars
<1>3. Shape(rank)'
  BY <1>2, QuietShape
<1>4. Monitor'
  <2>1. \A u \in Threads : u # t => Steady(u)'
    BY <1>1, SteadyOthers
  <2>2. \A u, v \in Threads : InClass(u)' /\ InClass(v)' => u = v
    BY <1>1, MonitorOne
  <2>. QED BY <2>1, <2>2 DEF Monitor
<1>5. Owners'
  <2>1. (got[t] # None => Owner(got[t]))'
    <3>1. CASE got'[t] = got[t]
      <4>1. got[t] # None => got[t] \in Pools /\ Owner(got[t])
        BY <1>1 DEF Owners, TypeOK
      <4>. QED BY <3>1, <4>1 DEF Owner
    <3>. QED BY <3>1
  <2>2. FreesOwn(t)'
    BY DEF FreesOwn
  <2>. QED BY <1>1, <2>1, <2>2, OwnersKept
<1>. QED BY <1>3, <1>4, <1>5 DEF Settled

\* A call at the bottom of the stack that is done.
LEMMA PopAlone ==
  ASSUME NEW rank \in [Buffers -> Nat], Shape(rank), NEW t \in Threads, stack[t] # <<>>,
         Top(t).at \in {"allocate", "initialize", "shutdown", "unset"},
         NEW r \in {"ok", "throw", "clean"}, Return(t, r), UNCHANGED <<bufferVars, jvmVars>>
  PROVE  /\ Quiet(rank, t, <<>>) /\ got'[t] = None /\ \A x : ~At(t, x)'
         /\ Steady(t)' /\ ~HasClass(<<>>)
<1>1. TypeOK
  BY DEF Shape
<1>2. Below(t) = <<>>
  BY AloneBelow
<1>3. Moved(t, <<>>) /\ got'[t] = None
  BY <1>1, <1>2, ReturnMoves DEF Return
<1>4. Top(t).at \notin BufferAt /\ jvm' = jvm
  BY DEF BufferAt, jvmVars
<1>5. Quiet(rank, t, <<>>)
  BY <1>2, <1>3, <1>4, QuietPop
<1>6. \A x : ~At(t, x)'
  BY <1>1, <1>3, AfterMove
<1>7. Steady(t)'
  BY <1>6 DEF Steady
<1>. QED BY <1>3, <1>5, <1>6, <1>7, EmptyIn DEF HasClass

\* In the monitor the field is tested again, and then the future.
LEMMA LockedStep ==
  ASSUME NEW rank \in [Buffers -> Nat], Shape(rank), Monitor, Owners, NEW t \in Threads, Locked(t)
  PROVE  Settled(rank, t)
<1>1. /\ stack[t] # <<>> /\ Top(t).at = "locked" /\ Top(t).at \in PoolAt /\ At(t, "locked")
      /\ UNCHANGED <<bufferVars, jvmVars>>
  BY DEF Locked, At, PoolAt
<1>2. CASE singleton_ # None /\ Become(t, "final") /\ UNCHANGED poolVars
  BY <1>1, <1>2, PoolBecome
<1>3. CASE Return(t, "throw") /\ UNCHANGED poolVars
  BY <1>1, <1>3, PoolReturn DEF Return
<1>4. CASE /\ singleton_ = None /\ initFuture # None /\ pool[initFuture] = "live"
           /\ singleton_' = initFuture
           /\ BecomeAndEnter(t, "locked", <<Frame("reset", None)>>)
           /\ UNCHANGED <<initFuture, pool>>
  <2>. DEFINE B == Below(t)
              f == Top(t)
              h == Frame("reset", None)
              S == Append(Append(B, f), h)
  <2>1. TypeOK /\ B \in Seq(Frames) /\ f \in Frames /\ stack[t] = Append(B, f)
        /\ Stacked(parent, origin, rank, t, Append(B, f))
    BY <1>1, BelowFacts
  <2>2. h \in Frames /\ h.at = "reset" /\ "locked" \in FrameAt
    BY FrameType DEF FrameAt
  <2>3. f = Frame("locked", Top(t).buf)
    BY <1>1, <2>1, FrameIs
  <2>4. Moved(t, S) /\ UNCHANGED <<ret, got>>
    <3>1. Moved(t, Append(Append(B, Frame("locked", Top(t).buf)), h)) /\ UNCHANGED <<ret, got>>
      BY <1>1, <1>4, <2>1, <2>2, BecomeEnterMoves
    <3>. QED BY <2>3, <3>1
  <2>. HIDE DEF B, f, h
  <2>5. Append(B, f) \in Seq(Frames)
    BY <2>1, AppendIn
  <2>6. Stacked(parent, origin, rank, t, S)
    <3>1. Known(parent, origin, h) /\ Above(parent, f, h) /\ h.at \notin CloseAt
      BY <1>1, <2>2 DEF Known, BufferAt, Above, CloseAt, f
    <3>. QED BY <2>1, <2>2, <3>1, StackedPush
  <2>7. SameFrames(t, S)
    <3>1. ASSUME NEW at \in BufferAt, NEW b \in Buffers
          PROVE  In(S, Frame(at, b)) <=> InFrame(t, at, b)
      <4>1. Frame(at, b) # h
        BY <2>2 DEF Frame, BufferAt
      <4>2. In(S, Frame(at, b)) <=> In(Append(B, f), Frame(at, b))
        BY <2>2, <2>5, <4>1, AppendIn
      <4>. QED BY <2>1, <4>2 DEF InFrame, In
    <3>. QED BY <3>1 DEF SameFrames
  <2>8. Quiet(rank, t, S)
    BY <1>1, <2>4, <2>6, <2>7 DEF Quiet, jvmVars
  <2>9. InClass(t)
    BY <1>1, InMonitor
  <2>10. \A x : At(t, x)' <=> x = "reset"
    <3>1. S # <<>> /\ S[Len(S)] = h
      BY <2>2, <2>5, AppendIn
    <3>2. \A x : At(t, x)' <=> S # <<>> /\ S[Len(S)].at = x
      BY <2>1, <2>4, AfterMove, ZenonT(40)
    <3>. QED BY <2>2, <3>1, <3>2
  <2>11. Steady(t)'
    BY <1>4, <2>10 DEF Steady
  <2>12. singleton_' \in Pools /\ initFuture' \in Pools /\ pool' \in
           [Pools -> {"none", "pending", "live", "failed", "released"}]
    BY <1>4, <2>1 DEF TypeOK
  <2>13. Existing' \subseteq {singleton_', initFuture'}
    <3>1. Existing' = Existing /\ None \notin Existing
      BY <1>4, JavaAssumption DEF Existing
    <3>. QED BY <1>4, <3>1 DEF Monitor
  <2>14. \A p \in Pools : Owner(p) => Owner(p)'
    BY <1>4, JavaAssumption DEF Owner
  <2>15. (singleton_ # None => Owner(singleton_))'
    BY <1>4 DEF Owner
  <2>16. got'[t] = got[t] /\ ~At(t, "free")'
    BY <2>4, <2>10
  <2>. QED BY <1>1, <1>4, <2>8, <2>9, <2>11, <2>12, <2>13, <2>14, <2>15, <2>16, PoolSettled
<1>. QED BY <1>2, <1>3, <1>4 DEF Locked

\* No pool, an exception, or no room: no buffer.
LEMMA AllocateNothingStep ==
  ASSUME NEW rank \in [Buffers -> Nat], Shape(rank), Monitor, Owners, NEW t \in Threads,
         AllocateNothing(t)
  PROVE  Settled(rank, t)
<1>1. /\ stack[t] # <<>> /\ Top(t).at = "allocate" /\ Return(t, ret[t])
      /\ UNCHANGED <<bufferVars, poolVars, jvmVars>> /\ ret[t] \in {"ok", "throw", "clean"}
  BY DEF AllocateNothing, At, Shape, TypeOK
<1>2. /\ Quiet(rank, t, <<>>) /\ got'[t] = None /\ ~HasClass(<<>>)
  BY <1>1, PopAlone
<1>3. Moved(t, <<>>) /\ Stacked(parent, origin, rank, t, <<>>)
  BY <1>2 DEF Quiet
<1>4. UNCHANGED <<origin, frees>>
  BY <1>1 DEF bufferVars
<1>5. Monitor'
  BY <1>1, <1>2, <1>3, MonitorKept
<1>6. Owners'
  BY <1>1, <1>2, <1>3, <1>4, OwnersPoolKept
<1>. QED BY <1>1, <1>2, <1>5, <1>6, QuietShapeKept DEF Settled

\* initialize starts a pool when there is none.
LEMMA InitializeStep ==
  ASSUME NEW rank \in [Buffers -> Nat], Shape(rank), Monitor, Owners, NEW t \in Threads,
         Initialize(t)
  PROVE  Settled(rank, t)
<1>1. /\ stack[t] # <<>> /\ Top(t).at = "initialize" /\ At(t, "initialize")
      /\ UNCHANGED <<bufferVars, jvmVars, singleton_>> /\ TypeOK
  BY DEF Initialize, At, Shape
<1>2. InClass(t) /\ Steady(t)
  BY <1>1, InMonitor DEF Monitor
<1>3. PICK r \in {"ok", "throw"} : Return(t, r)
  BY DEF Initialize
<1>4. /\ Quiet(rank, t, <<>>) /\ got'[t] = None /\ Steady(t)'
  BY <1>1, <1>3, PopAlone
<1>5. CASE UNCHANGED <<initFuture, pool>>
  <2>1. /\ \A p : Owner(p)' <=> Owner(p)
        /\ Existing' = Existing
    BY <1>1, <1>5 DEF Owner, Existing
  <2>2. (singleton_ # None => Owner(singleton_))'
    BY <1>1, <1>5 DEF Owner, Owners
  <2>. QED BY <1>1, <1>2, <1>4, <1>5, <2>1, <2>2, PoolSettled DEF TypeOK, Monitor
<1>6. CASE ret[t] = "ok" /\ got[t] = None /\ \E p \in FreshPool :
             initFuture' = p /\ pool' = [pool EXCEPT ![p] = "pending"]
  <2>1. PICK p \in FreshPool : initFuture' = p /\ pool' = [pool EXCEPT ![p] = "pending"]
    BY <1>6
  <2>2. p \in Pools /\ pool[p] = "none"
    BY DEF FreshPool
  <2>3. singleton_ = None /\ initFuture = None
    BY <1>1, <1>2, <1>6 DEF Steady
  <2>4. pool' \in [Pools -> {"none", "pending", "live", "failed", "released"}]
    BY <1>1, <2>1, <2>2 DEF TypeOK
  <2>5. Existing' \subseteq {p}
    <3>1. Existing = {}
      BY <2>3, JavaAssumption DEF Monitor, Existing
    <3>. QED BY <1>1, <2>1, <2>2, <3>1 DEF Existing, TypeOK
  <2>6. /\ \A q \in Pools : Owner(q) => Owner(q)'
        /\ \A q \in Pools : pool[q] = "released" => pool'[q] = "released"
    BY <1>1, <2>1, <2>2, <2>3, JavaAssumption DEF Owner, TypeOK
  <2>. QED BY <1>1, <1>2, <1>4, <2>1, <2>2, <2>3, <2>4, <2>5, <2>6, PoolSettled
<1>. QED BY <1>5, <1>6 DEF Initialize

\* The fields are unset after the pool is released.
LEMMA UnsetStep ==
  ASSUME NEW rank \in [Buffers -> Nat], Shape(rank), Monitor, Owners, NEW t \in Threads, Unset(t)
  PROVE  Settled(rank, t)
<1>1. /\ stack[t] # <<>> /\ Top(t).at = "unset" /\ At(t, "unset") /\ TypeOK
      /\ UNCHANGED <<bufferVars, jvmVars, pool>> /\ initFuture' = None /\ singleton_' = None
      /\ Return(t, "ok")
  BY DEF Unset, At, Shape
<1>2. InClass(t) /\ Existing = {}
  BY <1>1, InMonitor DEF Monitor, Steady
<1>3. /\ Quiet(rank, t, <<>>) /\ got'[t] = None /\ Steady(t)'
  BY <1>1, PopAlone
<1>4. Existing' = {}
  BY <1>1, <1>2 DEF Existing
<1>5. \A p \in Pools : Owner(p) => Owner(p)'
  BY <1>1, <1>2 DEF Owner, Existing
<1>. QED BY <1>1, <1>2, <1>3, <1>4, <1>5, PoolSettled DEF TypeOK

\* The pool is released.
LEMMA ShutdownStep ==
  ASSUME NEW rank \in [Buffers -> Nat], Shape(rank), Monitor, Owners, NEW t \in Threads,
         Shutdown(t)
  PROVE  Settled(rank, t)
<1>1. /\ stack[t] # <<>> /\ Top(t).at = "shutdown" /\ At(t, "shutdown")
      /\ UNCHANGED <<bufferVars, jvmVars, singleton_, initFuture>> /\ TypeOK
  BY DEF Shutdown, At, Shape
<1>2. InClass(t) /\ Steady(t)
  BY <1>1, InMonitor DEF Monitor
<1>3. CASE Return(t, "throw") /\ UNCHANGED pool
  <2>1. /\ Quiet(rank, t, <<>>) /\ got'[t] = None /\ Steady(t)'
    BY <1>1, <1>3, PopAlone
  <2>2. /\ \A p : Owner(p)' <=> Owner(p)
        /\ Existing' = Existing
    BY <1>1, <1>3 DEF Owner, Existing
  <2>3. (singleton_ # None => Owner(singleton_))'
    BY <1>1, <1>3 DEF Owner, Owners
  <2>. QED BY <1>1, <1>2, <1>3, <2>1, <2>2, <2>3, PoolSettled DEF TypeOK, Monitor
<1>4. CASE /\ ret[t] = "ok"
           /\ pool' = [p \in Pools |-> IF p = got[t] THEN "released" ELSE pool[p]]
           /\ Become(t, "unset")
  <2>. DEFINE B == Below(t)
              g == Frame("unset", Top(t).buf)
              S == Append(B, g)
  <2>1. B \in Seq(Frames) /\ Top(t) \in Frames
    BY <1>1, BelowFacts
  <2>2. "unset" \in FrameAt
    BY DEF FrameAt
  <2>3. g \in Frames /\ g.at = "unset"
    BY <2>1, <2>2, FrameType, FrameIs
  <2>4. Moved(t, S) /\ UNCHANGED <<ret, got>>
    BY <1>1, <1>4, <2>2, BecomeMoves
  <2>5. /\ Top(t).at \notin BufferAt /\ g.at \notin BufferAt /\ jvm' = jvm
        /\ Bottom(t, Top(t)) => Bottom(t, g)
        /\ \A e \in Frames : ~Above(parent, e, Top(t))
    BY <1>1, <2>3, JavaAssumption DEF PoolAt, BufferAt, jvmVars, Bottom, Above, Frame
  <2>6. Quiet(rank, t, S)
    BY <1>1, <2>3, <2>4, <2>5, QuietBecome
  <2>. HIDE DEF B, g
  <2>7. \A x : At(t, x)' <=> x = "unset"
    <3>1. S # <<>> /\ S[Len(S)] = g
      BY <2>1, <2>3, AppendIn
    <3>2. \A x : At(t, x)' <=> S # <<>> /\ S[Len(S)].at = x
      BY <1>1, <2>4, AfterMove
    <3>. QED BY <2>3, <3>1, <3>2
  <2>8. got[t] = singleton_ /\ (singleton_ = None => initFuture = None)
    BY <1>1, <1>2, <1>4 DEF Steady
  <2>9. Existing' = {}
    <3>1. ASSUME NEW p \in Existing PROVE p = got[t]
      BY <2>8, <3>1, JavaAssumption DEF Monitor, Existing
    <3>. QED BY <1>1, <1>4, <3>1 DEF Existing
  <2>10. Steady(t)'
    BY <2>7, <2>9 DEF Steady
  <2>11. pool' \in [Pools -> {"none", "pending", "live", "failed", "released"}]
    BY <1>1, <1>4 DEF TypeOK
  <2>12. /\ \A q \in Pools : Owner(q) => Owner(q)'
         /\ \A q \in Pools : pool[q] = "released" => pool'[q] = "released"
    BY <1>1, <1>4, <2>8 DEF Owner
  <2>13. (singleton_ # None => Owner(singleton_))'
    BY <1>1, <1>4, <2>8 DEF Owner, TypeOK
  <2>14. got'[t] = got[t] /\ ~At(t, "free")'
    BY <2>4, <2>7
  <2>. QED BY <1>1, <1>2, <2>6, <2>9, <2>10, <2>11, <2>12, <2>13, <2>14, PoolSettled
           DEF TypeOK, Monitor
<1>. QED BY <1>3, <1>4 DEF Shutdown

\* What is under the caller of a call.
LEMMA FrontOfFront ==
  ASSUME NEW B \in Seq(Frames), NEW f \in Frames, B # <<>>
  PROVE  LET s == Append(B, f) IN SubSeq(s, 1, Len(s) - 2) = SubSeq(B, 1, Len(B) - 1)
<1>. DEFINE s == Append(B, f)
            n == Len(B) - 1
<1>1. n \in Nat /\ Len(B) = n + 1 /\ \A i \in 1 .. n : B[i] \in Frames
  BY EmptySeq, LenProperties, ElementOfSeq
<1>2. Len(s) - 2 = n /\ \A i \in 1 .. n : s[i] = B[i]
  BY <1>1, AppendProperties
<1>. HIDE DEF s, n
<1>3. \A i \in 1 .. n : s[i] \in Frames
  BY <1>1, <1>2
<1>4. /\ SubSeq(s, 1, n) \in Seq(Frames) /\ Len(SubSeq(s, 1, n)) = n
      /\ \A i \in 1 .. n : SubSeq(s, 1, n)[i] = s[i]
  BY <1>1, <1>3, SubSeqProperties
<1>5. /\ SubSeq(B, 1, n) \in Seq(Frames) /\ Len(SubSeq(B, 1, n)) = n
      /\ \A i \in 1 .. n : SubSeq(B, 1, n)[i] = B[i]
  BY <1>1, SubSeqProperties
<1>6. SubSeq(s, 1, n) = SubSeq(B, 1, n)
  BY <1>2, <1>4, <1>5, SeqEqual
<1>. QED BY <1>2, <1>6 DEF s, n

\* The future is dropped while the monitor is held.
LEMMA ResetFutureStep ==
  ASSUME NEW rank \in [Buffers -> Nat], Shape(rank), Monitor, Owners, NEW t \in Threads,
         ResetFuture(t)
  PROVE  Settled(rank, t)
<1>. DEFINE B == Below(t)
            f == Top(t)
            C == SubSeq(B, 1, Len(B) - 1)
            e == B[Len(B)]
            g == Frame("final", None)
            S == Append(C, g)
<1>1. /\ stack[t] # <<>> /\ f.at = "reset" /\ At(t, "reset") /\ TypeOK /\ initFuture' = None
      /\ UNCHANGED <<bufferVars, jvmVars, singleton_, pool, ret, got>>
      /\ stack' = [stack EXCEPT ![t] = Append(SubSeq(@, 1, Len(@) - 2), g)]
  BY DEF ResetFuture, At, Shape
<1>2. /\ B \in Seq(Frames) /\ f \in Frames /\ stack[t] = Append(B, f)
      /\ Stacked(parent, origin, rank, t, B)
      /\ B = <<>> => Bottom(t, f)
      /\ B # <<>> => Above(parent, e, f) /\ e \in Frames
  BY <1>1, BelowFacts
<1>3. B # <<>> /\ e.at = "locked" /\ e \in Frames
  BY <1>1, <1>2 DEF Bottom, Above, PoolAt, Frame
<1>4. InClass(t) /\ singleton_ # None
  BY <1>1, InMonitor DEF Monitor, Steady
<1>5. g \in Frames /\ g.at = "final" /\ g.at \notin CloseAt /\ g.at \notin BufferAt /\ Known(parent, origin, g)
  BY FrameType DEF FrameAt, CloseAt, Known, BufferAt
<1>6. C \in Seq(Frames) /\ B = Append(C, e)
  BY <1>2, <1>3, FrontAndTop
<1>7. SubSeq(stack[t], 1, Len(stack[t]) - 2) = C
  BY <1>2, <1>3, FrontOfFront
<1>. HIDE DEF B, f, C, e, g
<1>8. S \in Seq(Frames) /\ Moved(t, S)
  <2>1. S \in Seq(Frames)
    BY <1>5, <1>6, AppendIn
  <2>2. stack' = [stack EXCEPT ![t] = S]
    BY <1>1, <1>7
  <2>. QED BY <1>1, <2>1, <2>2 DEF Moved, TypeOK
<1>9. Stacked(parent, origin, rank, t, S)
  <2>1. /\ ~Bottom(t, e)
        /\ \A x \in Frames : Above(parent, x, e) => Above(parent, x, g)
    BY <1>3, <1>5 DEF Bottom, Above, PoolAt, Frame
  <2>. QED BY <1>2, <1>3, <1>5, <1>6, <2>1, StackedReplace
<1>10. SameFrames(t, S)
  <2>1. ASSUME NEW at \in BufferAt, NEW b \in Buffers
        PROVE  In(S, Frame(at, b)) <=> InFrame(t, at, b)
    <3>1. Frame(at, b) # g /\ Frame(at, b) # e /\ Frame(at, b) # f
      BY <1>1, <1>3, <1>5 DEF Frame, BufferAt
    <3>2. /\ In(S, Frame(at, b)) <=> In(C, Frame(at, b))
          /\ In(B, Frame(at, b)) <=> In(C, Frame(at, b))
      BY <1>3, <1>5, <1>6, <3>1, AppendIn
    <3>3. In(stack[t], Frame(at, b)) <=> In(B, Frame(at, b))
      BY <1>2, <3>1, AppendIn
    <3>. QED BY <3>2, <3>3 DEF InFrame, In
  <2>. QED BY <2>1 DEF SameFrames
<1>11. Quiet(rank, t, S)
  BY <1>1, <1>8, <1>9, <1>10 DEF Quiet, jvmVars
<1>12. \A x : At(t, x)' <=> x = "final"
  <2>1. S # <<>> /\ S[Len(S)] = g
    BY <1>5, <1>6, AppendIn
  <2>2. \A x : At(t, x)' <=> S # <<>> /\ S[Len(S)].at = x
    BY <1>1, <1>8, AfterMove, ZenonT(40)
  <2>. QED BY <1>5, <2>1, <2>2
<1>13. Steady(t)'
  BY <1>1, <1>4, <1>12 DEF Steady
<1>14. Existing' \subseteq {singleton_', initFuture'}
  <2>1. Existing' = Existing /\ None \notin Existing
    BY <1>1, JavaAssumption DEF Existing
  <2>. QED BY <1>1, <1>4, <2>1 DEF Monitor
<1>15. /\ \A q \in Pools : Owner(q) => Owner(q)'
       /\ (singleton_ # None => Owner(singleton_))'
  BY <1>1 DEF Owner, Owners
<1>16. got'[t] = got[t] /\ ~At(t, "free")'
  BY <1>1, <1>12
<1>. QED BY <1>1, <1>4, <1>11, <1>13, <1>14, <1>15, <1>16, PoolSettled DEF TypeOK

\* A call of the application that begins with getSingleton.
LEMMA CallPoolStep ==
  ASSUME NEW rank \in [Buffers -> Nat], Shape(rank), Monitor, Owners, NEW t \in Threads,
         CallAllocate(t) \/ CallInitialize(t) \/ CallShutdown(t)
  PROVE  Settled(rank, t)
<1>1. PICK at \in {"allocate", "initialize", "shutdown"} :
        /\ stack' = [stack EXCEPT ![t] = <<Frame(at, None), Frame("single", None)>>]
        /\ at # "allocate" => ClassFree(t)
  BY DEF CallAllocate, CallInitialize, CallShutdown
<1>2. /\ Call(t) /\ UNCHANGED <<bufferVars, poolVars, ret, got>> /\ TypeOK
  BY DEF CallAllocate, CallInitialize, CallShutdown, Shape
<1>3. /\ t \in Users /\ stack[t] = <<>> /\ calls < MaxCalls /\ calls' = calls + 1
      /\ UNCHANGED <<jvm, visited>>
  BY <1>2 DEF Call
<1>. DEFINE f == Frame(at, None)
            g == Frame("single", None)
            S == Append(Append(<<>>, f), g)
<1>4. f \in Frames /\ f.at = at /\ g \in Frames /\ g.at = "single"
  BY FrameType DEF FrameAt
<1>. HIDE DEF f, g
<1>5. S \in Seq(Frames) /\ Append(<<>>, f) \in Seq(Frames) /\ stack' = [stack EXCEPT ![t] = S]
  BY <1>1, <1>4, TwoFrames DEF f, g
<1>6. Moved(t, S)
  BY <1>2, <1>5 DEF Moved, TypeOK
<1>7. Stacked(parent, origin, rank, t, S)
  <2>1. Known(parent, origin, f) /\ Bottom(t, f) /\ Known(parent, origin, g)
        /\ Above(parent, f, g) /\ g.at \notin CloseAt
    BY <1>3, <1>4 DEF Known, BufferAt, Bottom, Above, PoolAt, CloseAt
  <2>2. Stacked(parent, origin, rank, t, Append(<<>>, f)) /\ <<>> \in Seq(Frames)
    BY <1>4, <2>1, StackedFirst, EmptySeq
  <2>. QED BY <1>4, <2>1, <2>2, StackedPush
<1>8. SameFrames(t, S)
  <2>1. ASSUME NEW a \in BufferAt, NEW b \in Buffers
        PROVE  ~In(S, Frame(a, b)) /\ ~InFrame(t, a, b)
    <3>1. Frame(a, b) # f /\ Frame(a, b) # g
      BY <1>4 DEF Frame, BufferAt
    <3>2. <<>> \in Seq(Frames)
      BY EmptySeq
    <3>3. ~In(Append(<<>>, f), Frame(a, b))
      BY <1>4, <3>1, <3>2, AppendIn, EmptyIn
    <3>4. ~In(S, Frame(a, b))
      BY <1>4, <1>5, <3>1, <3>3, AppendIn
    <3>. QED BY <1>3, <3>4 DEF InFrame
  <2>. QED BY <2>1 DEF SameFrames
<1>9. Quiet(rank, t, S)
  BY <1>2, <1>3, <1>6, <1>7, <1>8 DEF Quiet
<1>10. S # <<>> /\ S[Len(S)].at = "single"
  BY <1>4, <1>5, AppendIn
<1>11. Shape(rank)'
  <2>1. calls' \in 0 .. MaxCalls /\ visited' \subseteq Buffers
    BY <1>2, <1>3, JavaAssumption DEF TypeOK
  <2>2. /\ singleton_' \in Pools \cup {None} /\ initFuture' \in Pools \cup {None}
        /\ pool' \in [Pools -> {"none", "pending", "live", "failed", "released"}]
    BY <1>2 DEF TypeOK, poolVars
  <2>. QED BY <1>9, <2>1, <2>2, QuietShape
<1>12. Monitor'
  <2>1. HasClass(S) => ClassFree(t)
    <3>1. ~HasClass(<<>>) /\ <<>> \in Seq(Frames)
      BY EmptyIn, EmptySeq DEF HasClass
    <3>2. HasClass(S) => f.at \in ClassAt
      BY <1>4, <1>5, <3>1, HasClassAppend DEF ClassAt
    <3>. QED BY <1>1, <1>4, <3>2 DEF ClassAt
  <2>. QED BY <1>2, <1>6, <1>10, <2>1, MonitorKept
<1>13. Owners'
  <2>1. ~At(t, "free")' /\ got'[t] = got[t]
    BY <1>2, <1>6, <1>10, AfterMove
  <2>. QED BY <1>2, <1>6, <1>7, <2>1, OwnersPoolKept DEF bufferVars
<1>. QED BY <1>9, <1>11, <1>12, <1>13 DEF Settled

\* The thread of the future, and the end of the JVM.
LEMMA PoolInitStep ==
  ASSUME NEW rank, Shape(rank), Monitor, Owners, NEW p \in Pools, PoolInit(p)
  PROVE  Shape(rank)' /\ Monitor' /\ Owners'
<1>1. /\ pool[p] = "pending" /\ TypeOK
      /\ UNCHANGED <<bufferVars, singleton_, initFuture, stack, ret, got, jvmVars>>
  BY DEF PoolInit, Shape
<1>2. PICK r \in {"live", "failed"} : pool' = [pool EXCEPT ![p] = r]
  BY DEF PoolInit
<1>3. pool' \in [Pools -> {"none", "pending", "live", "failed", "released"}]
  BY <1>1, <1>2 DEF TypeOK
<1>4. Shape(rank)'
  <2>1. TypeOK'
    BY <1>1, <1>3 DEF TypeOK, bufferVars, jvmVars
  <2>2. Traceless'
    BY <1>1, TracelessKept DEF Shape
  <2>3. Ancestry(rank)' /\ frees' \in [Buffers -> Seq(Pools)]
    BY <1>1 DEF Shape, Ancestry, Used, bufferVars
  <2>4. \A t \in Threads : Stacked(parent', origin', rank, t, stack'[t])
    BY <1>1 DEF Shape, bufferVars
  <2>. QED BY <2>1, <2>2, <2>3, <2>4 DEF Shape
<1>5. Existing' \subseteq Existing
  BY <1>1, <1>2 DEF Existing, TypeOK
<1>6. Monitor'
  <2>1. /\ \A t : InClass(t)' <=> InClass(t)
        /\ \A t, x : At(t, x)' <=> At(t, x)
    BY <1>1 DEF InClass, At, Top
  <2>2. ASSUME NEW t \in Threads PROVE Steady(t)'
    <3>1. Steady(t)
      BY DEF Monitor
    <3>. QED BY <1>1, <1>5, <2>1, <3>1 DEF Steady
  <2>. QED BY <1>1, <1>5, <2>1, <2>2 DEF Monitor
<1>7. Owners'
  <2>1. /\ \A q \in Pools : Owner(q) => Owner(q)'
        /\ \A q \in Pools : pool[q] = "released" => pool'[q] = "released"
    BY <1>1, <1>2 DEF Owner, TypeOK
  <2>2. UNCHANGED <<origin, frees>>
    BY <1>1 DEF bufferVars
  <2>3. /\ got \in [Threads -> Pools \cup {None}] /\ origin \in [Buffers -> Pools \cup {None}]
        /\ singleton_ \in Pools \cup {None}
    BY <1>1 DEF TypeOK
  <2>4. (singleton_ # None => Owner(singleton_))'
    BY <1>1, <2>1, <2>3 DEF Owners, Owner
  <2>5. ASSUME NEW t \in Threads PROVE (got[t] # None => Owner(got[t]))' /\ FreesOwn(t)'
    <3>1. (got[t] # None => Owner(got[t]))'
      <4>1. got[t] # None => got[t] \in Pools /\ Owner(got[t])
        BY <2>3 DEF Owners
      <4>. QED BY <1>1, <2>1, <4>1 DEF Owner
    <3>2. FreesOwn(t)'
      <4>1. FreesOwn(t) /\ (At(t, "free") => origin[Top(t).buf] \in Pools)
        BY FreeFacts DEF Owners
      <4>. QED BY <1>1, <2>1, <2>2, <4>1 DEF FreesOwn, At, Top
    <3>. QED BY <3>1, <3>2
  <2>6. ASSUME NEW b \in Buffers PROVE (origin[b] # None => Owner(origin[b]))'
    <3>1. origin[b] # None => origin[b] \in Pools /\ Owner(origin[b])
      BY <2>3 DEF Owners
    <3>. QED BY <2>1, <2>2, <3>1 DEF Owner
  <2>7. OwnUnlessReleased' /\ \A b \in Buffers : frees'[b] # <<>> => origin'[b] # None
    <3>1. \A b \in Buffers : frees[b] # <<>> => origin[b] \in Pools
      BY <2>3 DEF Owners
    <3>. QED BY <2>1, <2>2, <3>1 DEF Owners, OwnUnlessReleased
  <2>. QED BY <2>4, <2>5, <2>6, <2>7 DEF Owners
<1>. QED BY <1>4, <1>6, <1>7

----------------------------------------------------------------------------
(* Cleaning and counting.                                                  *)

\* The frames that name a buffer, after a step.
LEMMA FramesAfter ==
  ASSUME TypeOK, NEW t \in Threads, NEW S, Moved(t, S)
  PROVE  /\ \A u \in Threads : u # t => \A at, b : InFrame(u, at, b)' <=> InFrame(u, at, b)
         /\ \A at, b : InFrame(t, at, b)' <=> In(S, Frame(at, b))
<1>1. stack'[t] = S /\ \A u \in Threads : u # t => stack'[u] = stack[u]
  BY AfterMove
<1>. QED BY <1>1 DEF InFrame, In

\* Being in a call is to have its frame on the stack.
LEMMA InFrameIs == ASSUME NEW t, NEW at, NEW b
                   PROVE  InFrame(t, at, b) <=> In(stack[t], Frame(at, b))
BY DEF InFrame, In

\* Finitely many references.
LEMMA CountsFinite ==
  ASSUME NEW b
  PROVE  /\ IsFiniteSet(Closes(b)) /\ IsFiniteSet(Slices(b))
         /\ Cardinality(Closes(b)) \in Nat /\ Cardinality(Slices(b)) \in Nat
         /\ Cardinality(Closes(b)) = 0 <=> Closes(b) = {}
         /\ Cardinality(Slices(b)) = 0 <=> Slices(b) = {}
<1>1. IsFiniteSet(Threads)
  <2>1. IsFiniteSet({"cleaner", "hook"})
    <3>1. IsFiniteSet({}) /\ {"cleaner", "hook"} = ({} \cup {"cleaner"}) \cup {"hook"}
      BY FS_EmptySet
    <3>2. IsFiniteSet({} \cup {"cleaner"})
      BY <3>1, FS_AddElement
    <3>3. IsFiniteSet(({} \cup {"cleaner"}) \cup {"hook"})
      BY <3>2, FS_AddElement
    <3>. QED BY <3>1, <3>3
  <2>. QED BY <2>1, JavaAssumption, FS_Union DEF Threads
<1>2. Closes(b) \subseteq Threads /\ Slices(b) \subseteq Buffers
  BY DEF Closes, Slices
<1>3. IsFiniteSet(Closes(b)) /\ IsFiniteSet(Slices(b))
  BY <1>1, <1>2, JavaAssumption, FS_Subset
<1>. QED BY <1>3, FS_CardinalityType, FS_EmptySet

\* A buffer whose count is zero has no reference left.
LEMMA ZeroIsDead ==
  ASSUME TypeOK, Counts, NEW b \in Buffers, refCount[b] = 0
  PROVE  Dead(b)
<1>1. refCount[b] >= refs[b] + Cardinality(Closes(b)) + Cardinality(Slices(b))
  BY DEF Counts
<1>2. refs[b] \in Nat
  BY JavaAssumption DEF TypeOK
<1>3. refs[b] = 0 /\ Cardinality(Closes(b)) = 0 /\ Cardinality(Slices(b)) = 0
  BY <1>1, <1>2, CountsFinite
<1>. QED BY <1>3, CountsFinite DEF Dead

\* What nobody can reach, nobody holds.
LEMMA UnreachableIsDead ==
  ASSUME TypeOK, NEW b \in Buffers, ~Reachable(b)
  PROVE  Dead(b)
<1>1. refs[b] = 0
  BY JavaAssumption DEF TypeOK, Reachable
<1>2. Closes(b) = {} /\ Slices(b) = {}
  BY DEF Reachable, Closes, Slices
<1>. QED BY <1>1, <1>2 DEF Dead

\* Until the JVM ends, only what nothing refers to is cleaned.
LEMMA CleaningIsDead ==
  ASSUME NEW rank, Shape(rank), Counts, jvm = "running", NEW t \in Threads, NEW b \in Buffers,
         InFrame(t, "cleaning", b)
  PROVE  Dead(b)
<1>1. /\ TypeOK /\ stack[t] \in Seq(Frames) /\ Stacked(parent, origin, rank, t, stack[t])
      /\ stack["hook"] = <<>>
  BY DEF Shape, TypeOK, Frames, Counts
<1>. DEFINE g == Frame("cleaning", b)
<1>2. g \in Frames /\ g.at = "cleaning" /\ g.buf = b /\ In(stack[t], g)
  BY FrameType, InFrameIs DEF FrameAt
<1>. HIDE DEF g
<1>3. ~Bottom(t, g)
  <2>1. t # "hook"
    BY <1>1, <1>2, EmptyIn
  <2>. QED BY <1>2, <2>1 DEF Bottom
<1>4. PICK h \in Frames : In(stack[t], h) /\ Above(parent, h, g)
  BY <1>1, <1>2, <1>3, Beneath
<1>5. h.at \in {"closing", "reclaim"} /\ h.buf = b
  BY <1>2, <1>4 DEF Above, PoolAt, Frame
<1>6. InFrame(t, h.at, b)
  <2>1. h = Frame(h.at, b)
    BY <1>4, <1>5, FrameIs
  <2>. QED BY <1>4, <2>1, InFrameIs
<1>7. CASE h.at = "closing"
  BY <1>1, <1>6, <1>7, ZeroIsDead DEF Counts
<1>8. CASE h.at = "reclaim"
  <2>1. Bottom(t, h) \/ \E x \in Frames : In(stack[t], x) /\ Above(parent, x, h)
    BY <1>1, <1>4, Beneath
  <2>2. t = "cleaner"
    BY <1>8, <2>1 DEF Bottom, Above, PoolAt, Frame
  <2>3. b \in collected
    BY <1>6, <1>8, <2>2 DEF Counts
  <2>4. ~Reachable(b)
    BY <2>3 DEF Counts
  <2>. QED BY <1>1, <2>4, UnreachableIsDead
<1>. QED BY <1>5, <1>7, <1>8

\* What is said of the buffers depends on the frames that name them.
LEMMA SameCounts ==
  ASSUME TypeOK, Cleans, Counts, UNCHANGED bufferVars,
         \A u \in Threads : \A at \in BufferAt : \A b \in Buffers :
           InFrame(u, at, b)' <=> InFrame(u, at, b),
         jvm' = "running" => jvm = "running" /\ stack'["hook"] = <<>>
  PROVE  Cleans' /\ Counts'
<1>1. \A u \in Threads : \A b \in Buffers :
        /\ InFrame(u, "close", b)' <=> InFrame(u, "close", b)
        /\ InFrame(u, "closing", b)' <=> InFrame(u, "closing", b)
        /\ InFrame(u, "clean", b)' <=> InFrame(u, "clean", b)
        /\ InFrame(u, "cleaning", b)' <=> InFrame(u, "cleaning", b)
        /\ InFrame(u, "reclaim", b)' <=> InFrame(u, "reclaim", b)
        /\ InFrame(u, "free", b)' <=> InFrame(u, "free", b)
  BY DEF BufferAt
<1>2. "cleaner" \in Threads
  BY ThreadsAre
<1>3. UNCHANGED <<parent, origin, refCount, closed, resource, refs, all, collected, frees>>
  BY DEF bufferVars
<1>4. Cleans'
  BY <1>1, <1>2, <1>3 DEF Cleans, LeaksTracked
<1>5. \A b \in Buffers : Busy(b)' <=> Busy(b)
  BY <1>1 DEF Busy
<1>6. \A b \in Buffers : Closes(b)' = Closes(b) /\ Slices(b)' = Slices(b)
  BY <1>1, <1>3, <1>5 DEF Closes, Slices
<1>7. \A b \in Buffers : (Dead(b)' <=> Dead(b)) /\ (Reachable(b)' <=> Reachable(b))
  BY <1>1, <1>3, <1>6 DEF Dead, Reachable
<1>8. collected \subseteq Buffers
  BY DEF TypeOK
<1>9. Counts'
  <2>1. \A b \in Buffers : refCount'[b] >= refs'[b] + Cardinality(Closes(b)') + Cardinality(Slices(b)')
    BY <1>3, <1>6 DEF Counts
  <2>2. /\ \A t \in Threads : \A b \in Buffers : InFrame(t, "closing", b)' => refCount'[b] = 0
        /\ \A b \in Buffers : closed'[b] => refCount'[b] = 0
    BY <1>1, <1>3 DEF Counts
  <2>3. /\ \A b \in collected' : ~Reachable(b)'
        /\ \A b \in Buffers : InFrame("cleaner", "reclaim", b)' => b \in collected'
    BY <1>1, <1>2, <1>3, <1>7, <1>8 DEF Counts
  <2>4. \A b \in Buffers : Used(b)' <=> Used(b)
    BY <1>3 DEF Used
  <2>5. jvm' = "running" => /\ stack'["hook"] = <<>>
                            /\ \A b \in Buffers : Used(b)' /\ ~resource'[b] => Dead(b)'
    BY <1>3, <1>7, <2>4 DEF Counts
  <2>. QED BY <2>1, <2>2, <2>3, <2>5 DEF Counts
<1>. QED BY <1>4, <1>9

\* A step of the pool changes nothing about references and cleaning.
LEMMA QuietCounts ==
  ASSUME NEW rank, Shape(rank), Cleans, Counts, NEW t \in Threads, NEW S, Quiet(rank, t, S)
  PROVE  Cleans' /\ Counts'
<1>1. /\ TypeOK /\ Moved(t, S) /\ SameFrames(t, S) /\ UNCHANGED bufferVars /\ jvm' = jvm
      /\ t \in Users \/ stack[t] # <<>>
  BY DEF Quiet, Shape
<1>2. ASSUME NEW u \in Threads, NEW at \in BufferAt, NEW b \in Buffers
      PROVE  InFrame(u, at, b)' <=> InFrame(u, at, b)
  BY <1>1, FramesAfter DEF SameFrames
<1>3. ASSUME jvm' = "running" PROVE jvm = "running" /\ stack'["hook"] = <<>>
  <2>1. jvm = "running" /\ stack["hook"] = <<>> /\ "hook" \in Threads
    BY <1>1, <1>3, ThreadsAre DEF Counts
  <2>2. t # "hook"
    BY <1>1, <2>1, JavaAssumption
  <2>. QED BY <1>1, <2>1, <2>2, AfterMove
<1>. QED BY <1>1, <1>2, <1>3, SameCounts

----------------------------------------------------------------------------
(* Steps that leave the stacks alone.                                      *)

StacksKept == UNCHANGED <<stack, ret, got>>

\* Nobody calls and nobody returns.
LEMMA KeptFrames ==
  ASSUME StacksKept
  PROVE  /\ \A u, at, b : InFrame(u, at, b)' <=> InFrame(u, at, b)
         /\ \A u : InClass(u)' <=> InClass(u)
         /\ \A u, x : At(u, x)' <=> At(u, x)
         /\ \A u : Top(u)' = Top(u)
BY DEF StacksKept, InFrame, InClass, At, Top

\* Nothing about the pools changes when neither stacks nor pools do.
LEMMA KeptMonitor ==
  ASSUME Monitor, Owners, StacksKept, UNCHANGED <<poolVars, origin, frees>>
  PROVE  Monitor' /\ Owners'
<1>1. UNCHANGED <<singleton_, initFuture, pool, ret, got>>
  BY DEF poolVars, StacksKept
<1>2. Existing' = Existing /\ \A p : Owner(p)' <=> Owner(p)
  BY <1>1 DEF Existing, Owner
<1>3. /\ \A u : InClass(u)' <=> InClass(u)
      /\ \A u, x : At(u, x)' <=> At(u, x)
      /\ \A u : Top(u)' = Top(u)
  BY KeptFrames
<1>4. ASSUME NEW t \in Threads PROVE Steady(t)' /\ FreesOwn(t)'
  <2>1. Steady(t) /\ FreesOwn(t)
    BY DEF Monitor, Owners
  <2>2. Steady(t)'
    BY <1>1, <1>2, <1>3, <2>1 DEF Steady
  <2>3. FreesOwn(t)'
    BY <1>1, <1>3, <2>1 DEF FreesOwn
  <2>. QED BY <2>2, <2>3
<1>5. Monitor'
  BY <1>1, <1>2, <1>3, <1>4 DEF Monitor
<1>6. Owners'
  <2>1. \A t \in Threads : (got[t] # None => Owner(got[t]))'
    BY <1>1 DEF Owners, Owner
  <2>2. \A b \in Buffers : (origin[b] # None => Owner(origin[b]))'
    BY <1>1 DEF Owners, Owner
  <2>3. (singleton_ # None => Owner(singleton_))'
    BY <1>1 DEF Owners, Owner
  <2>4. OwnUnlessReleased' /\ \A b \in Buffers : frees'[b] # <<>> => origin'[b] # None
    BY <1>1 DEF Owners, OwnUnlessReleased
  <2>. QED BY <1>4, <2>1, <2>2, <2>3, <2>4 DEF Owners
<1>. QED BY <1>5, <1>6

\* incRefCount is called by a thread that holds a reference, so the buffer is not
\* being closed.
LEMMA IncRefCountStep ==
  ASSUME NEW rank \in [Buffers -> Nat], Good(rank), NEW t \in Users, NEW b \in Buffers,
         IncRefCount(t, b)
  PROVE  Good(rank)'
<1>1. /\ refs[b] \in 1 .. MaxRefs - 1 /\ refCount' = [refCount EXCEPT ![b] = @ + 1]
      /\ refs' = [refs EXCEPT ![b] = @ + 1] /\ calls < MaxCalls /\ calls' = calls + 1
      /\ UNCHANGED <<parent, origin, closed, resource, all, collected, frees, poolVars, stack,
                     ret, got, jvm, visited>>
  BY DEF IncRefCount, Call
<1>2. /\ Shape(rank) /\ Cleans /\ Counts /\ Monitor /\ Owners /\ TypeOK /\ Traceless
      /\ StacksKept
  BY <1>1 DEF Good, Shape, StacksKept
<1>3. /\ refCount \in [Buffers -> Nat] /\ refs \in [Buffers -> 0 .. MaxRefs] /\ MaxRefs \in Nat
      /\ MaxCalls \in Nat /\ calls \in 0 .. MaxCalls
  BY <1>2, JavaAssumption DEF TypeOK
<1>4. /\ refCount' \in [Buffers -> Nat] /\ refs' \in [Buffers -> 0 .. MaxRefs]
      /\ calls' \in 0 .. MaxCalls
  BY <1>1, <1>3
<1>5. Shape(rank)'
  <2>1. TypeOK'
    BY <1>1, <1>2, <1>4 DEF TypeOK, poolVars
  <2>2. Used(b)
    BY <1>1, <1>2 DEF Traceless
  <2>3. \A c \in Buffers : c # b => refs'[c] = refs[c]
    BY <1>1, <1>3
  <2>4. Traceless'
    BY <1>1, <1>2, <2>2, <2>3 DEF Traceless, Used
  <2>5. Ancestry(rank)' /\ frees' \in [Buffers -> Seq(Pools)]
    BY <1>1, <1>2 DEF Shape, Ancestry, Used
  <2>6. \A u \in Threads : Stacked(parent', origin', rank, u, stack'[u])
    BY <1>1, <1>2 DEF Shape
  <2>. QED BY <2>1, <2>4, <2>5, <2>6 DEF Shape
<1>6. \A u, at, c : InFrame(u, at, c)' <=> InFrame(u, at, c)
  BY <1>2, KeptFrames
<1>7. Cleans'
  BY <1>1, <1>2, <1>6 DEF Cleans, LeaksTracked
<1>8. Counts'
  <2>1. \A c \in Buffers : Closes(c)' = Closes(c) /\ Slices(c)' = Slices(c)
    BY <1>1, <1>6 DEF Closes, Slices, Busy
  <2>2. ~Dead(b) /\ Reachable(b)
    BY <1>1, <1>3 DEF Dead, Reachable
  <2>3. refCount[b] # 0
    BY <1>2, <2>2, ZeroIsDead
  <2>4. \A c \in Buffers : c # b => refCount'[c] = refCount[c] /\ refs'[c] = refs[c]
    BY <1>1, <1>3
  <2>5. \A c \in Buffers : c # b => (Dead(c)' <=> Dead(c)) /\ (Reachable(c)' <=> Reachable(c))
    BY <1>1, <1>6, <2>1, <2>4 DEF Dead, Reachable
  <2>6. ASSUME NEW c \in Buffers
        PROVE  refCount'[c] >= refs'[c] + Cardinality(Closes(c)') + Cardinality(Slices(c)')
    <3>1. /\ refCount[c] >= refs[c] + Cardinality(Closes(c)) + Cardinality(Slices(c))
          /\ Cardinality(Closes(c)) \in Nat /\ Cardinality(Slices(c)) \in Nat
      BY <1>2, CountsFinite DEF Counts
    <3>2. refCount[c] \in Nat /\ refs[c] \in Nat
      BY <1>3
    <3>3. CASE c = b
      <4>1. refCount'[c] = refCount[c] + 1 /\ refs'[c] = refs[c] + 1
        BY <1>1, <1>3, <3>3
      <4>. QED BY <2>1, <3>1, <3>2, <4>1
    <3>4. CASE c # b
      BY <2>1, <2>4, <3>1, <3>4
    <3>. QED BY <3>3, <3>4
  <2>7. /\ \A u \in Threads : \A c \in Buffers : InFrame(u, "closing", c)' => refCount'[c] = 0
        /\ \A c \in Buffers : closed'[c] => refCount'[c] = 0
    BY <1>1, <1>2, <1>6, <2>3, <2>4 DEF Counts
  <2>8. /\ \A c \in collected' : ~Reachable(c)'
        /\ \A c \in Buffers : InFrame("cleaner", "reclaim", c)' => c \in collected'
    BY <1>1, <1>2, <1>6, <2>2, <2>5 DEF Counts, TypeOK
  <2>9. jvm' = "running" => /\ stack'["hook"] = <<>>
                            /\ \A c \in Buffers : Used(c)' /\ ~resource'[c] => Dead(c)'
    BY <1>1, <1>2, <2>2, <2>5 DEF Counts, Used
  <2>. QED BY <2>6, <2>7, <2>8, <2>9 DEF Counts
<1>9. Monitor' /\ Owners'
  BY <1>1, <1>2, KeptMonitor
<1>. QED BY <1>5, <1>7, <1>8, <1>9 DEF Good

\* References are forgotten, found to be unreachable, or the JVM ends.
LEMMA KeptStep ==
  ASSUME NEW rank \in [Buffers -> Nat], Good(rank), StacksKept,
         UNCHANGED <<parent, origin, refCount, closed, resource, all, frees, poolVars,
                     visited, calls>>,
         refs' \in [Buffers -> 0 .. MaxRefs], \A c \in Buffers : refs'[c] <= refs[c],
         collected \subseteq collected', collected' \subseteq all \cup collected,
         \A c \in collected' : ~Reachable(c),
         jvm' \in {"running", "exiting"}, jvm' = "running" => jvm = "running"
  PROVE  Good(rank)'
<1>1. /\ Shape(rank) /\ Cleans /\ Counts /\ Monitor /\ Owners /\ TypeOK /\ Traceless
  BY DEF Good, Shape
<1>2. /\ refCount \in [Buffers -> Nat] /\ refs \in [Buffers -> 0 .. MaxRefs] /\ MaxRefs \in Nat
      /\ all \subseteq Buffers /\ collected \subseteq Buffers
  BY <1>1, JavaAssumption DEF TypeOK
<1>3. \A u, at, c : InFrame(u, at, c)' <=> InFrame(u, at, c)
  BY KeptFrames
<1>4. \A c \in Buffers : refs[c] = 0 => refs'[c] = 0
  BY <1>2
<1>5. Shape(rank)'
  <2>1. TypeOK'
    BY <1>1, <1>2 DEF TypeOK, poolVars, StacksKept
  <2>2. Traceless'
    BY <1>1, <1>4 DEF Traceless, Used
  <2>3. Ancestry(rank)' /\ frees' \in [Buffers -> Seq(Pools)]
    BY <1>1 DEF Shape, Ancestry, Used
  <2>4. \A u \in Threads : Stacked(parent', origin', rank, u, stack'[u])
    BY <1>1 DEF Shape, StacksKept
  <2>. QED BY <2>1, <2>2, <2>3, <2>4 DEF Shape
<1>6. Cleans'
  BY <1>1, <1>3 DEF Cleans, LeaksTracked
<1>7. Counts'
  <2>1. \A c \in Buffers : Closes(c)' = Closes(c) /\ Slices(c)' = Slices(c)
    BY <1>3 DEF Closes, Slices, Busy
  <2>2. \A c \in Buffers : Dead(c) => Dead(c)'
    BY <1>4, <2>1 DEF Dead
  <2>3. \A c \in Buffers : refs'[c] > 0 => refs[c] > 0
    BY <1>2
  <2>4. \A c \in Buffers : ~Reachable(c) => ~Reachable(c)'
    BY <1>3, <2>3 DEF Reachable
  <2>5. ASSUME NEW c \in Buffers
        PROVE  refCount'[c] >= refs'[c] + Cardinality(Closes(c)') + Cardinality(Slices(c)')
    <3>1. /\ refCount[c] >= refs[c] + Cardinality(Closes(c)) + Cardinality(Slices(c))
          /\ Cardinality(Closes(c)) \in Nat /\ Cardinality(Slices(c)) \in Nat
      BY <1>1, CountsFinite DEF Counts
    <3>2. refCount[c] \in Nat /\ refs[c] \in Nat /\ refs'[c] \in Nat /\ refs'[c] <= refs[c]
      BY <1>2
    <3>. QED BY <2>1, <3>1, <3>2
  <2>6. /\ \A u \in Threads : \A c \in Buffers : InFrame(u, "closing", c)' => refCount'[c] = 0
        /\ \A c \in Buffers : closed'[c] => refCount'[c] = 0
    BY <1>1, <1>3 DEF Counts
  <2>7. /\ \A c \in collected' : ~Reachable(c)'
        /\ \A c \in Buffers : InFrame("cleaner", "reclaim", c)' => c \in collected'
    BY <1>1, <1>2, <1>3, <2>4 DEF Counts
  <2>8. jvm' = "running" => /\ stack'["hook"] = <<>>
                            /\ \A c \in Buffers : Used(c)' /\ ~resource'[c] => Dead(c)'
    BY <1>1, <2>2 DEF Counts, Used, StacksKept
  <2>. QED BY <2>5, <2>6, <2>7, <2>8 DEF Counts
<1>8. Monitor' /\ Owners'
  BY <1>1, KeptMonitor
<1>. QED BY <1>5, <1>6, <1>7, <1>8 DEF Good

\* The application drops a reference, the collector finds a buffer, the JVM begins to end.
LEMMA KeptSteps ==
  ASSUME NEW rank \in [Buffers -> Nat], Good(rank),
         StartHook \/ \E b \in Buffers : Forget(b) \/ Collect(b)
  PROVE  Good(rank)'
<1>1. /\ TypeOK /\ Counts
  BY DEF Good, Shape
<1>2. /\ refs \in [Buffers -> 0 .. MaxRefs] /\ MaxRefs \in Nat
      /\ jvm \in {"running", "exiting"} /\ collected \subseteq Buffers
      /\ \A c \in collected : ~Reachable(c)
  BY <1>1, JavaAssumption DEF TypeOK, Counts
<1>3. CASE StartHook
  <2>1. /\ StacksKept /\ jvm' \in {"running", "exiting"} /\ jvm' # "running"
        /\ UNCHANGED <<parent, origin, refCount, closed, resource, all, frees, poolVars,
                       visited, calls, refs, collected>>
    BY <1>3 DEF StartHook, bufferVars, StacksKept
  <2>2. refs' \in [Buffers -> 0 .. MaxRefs] /\ \A c \in Buffers : refs'[c] <= refs[c]
    BY <1>2, <2>1
  <2>. QED BY <1>2, <2>1, <2>2, KeptStep
<1>4. ASSUME NEW b \in Buffers, Forget(b) PROVE Good(rank)'
  <2>1. /\ StacksKept /\ refs[b] > 0 /\ refs' = [refs EXCEPT ![b] = @ - 1]
        /\ UNCHANGED <<parent, origin, refCount, closed, resource, all, frees, poolVars,
                       visited, calls, jvm, collected>>
    BY <1>4 DEF Forget, jvmVars, StacksKept
  <2>2. refs' \in [Buffers -> 0 .. MaxRefs] /\ \A c \in Buffers : refs'[c] <= refs[c]
    BY <1>2, <2>1
  <2>. QED BY <1>2, <2>1, <2>2, KeptStep
<1>5. ASSUME NEW b \in Buffers, Collect(b) PROVE Good(rank)'
  <2>1. /\ StacksKept /\ b \in all /\ ~Reachable(b) /\ collected' = collected \cup {b}
        /\ UNCHANGED <<parent, origin, refCount, closed, resource, all, frees, poolVars,
                       visited, calls, jvm, refs>>
    BY <1>5 DEF Collect, jvmVars, StacksKept
  <2>2. refs' \in [Buffers -> 0 .. MaxRefs] /\ \A c \in Buffers : refs'[c] <= refs[c]
    BY <1>2, <2>1
  <2>. QED BY <1>2, <2>1, <2>2, KeptStep
<1>. QED BY <1>3, <1>4, <1>5

\* The thread that creates the pool ends, with a pool or without.
LEMMA PoolInitGood ==
  ASSUME NEW rank \in [Buffers -> Nat], Good(rank), NEW p \in Pools, PoolInit(p)
  PROVE  Good(rank)'
<1>1. Shape(rank) /\ Cleans /\ Counts /\ Monitor /\ Owners /\ TypeOK
  BY DEF Good, Shape
<1>2. UNCHANGED bufferVars /\ StacksKept /\ jvm' = jvm
  BY DEF PoolInit, StacksKept, jvmVars
<1>3. \A u, at, b : InFrame(u, at, b)' <=> InFrame(u, at, b)
  BY <1>2, KeptFrames
<1>4. jvm' = "running" => jvm = "running" /\ stack'["hook"] = <<>>
  BY <1>1, <1>2 DEF Counts, StacksKept
<1>5. Cleans' /\ Counts'
  BY <1>1, <1>2, <1>3, <1>4, SameCounts
<1>. QED BY <1>1, <1>5, PoolInitStep DEF Good

\* The steps of the pool.
LEMMA SettledGood ==
  ASSUME NEW rank \in [Buffers -> Nat], Good(rank), NEW t \in Threads, Settled(rank, t)
  PROVE  Good(rank)'
<1>1. Shape(rank) /\ Cleans /\ Counts
  BY DEF Good
<1>2. PICK S : Quiet(rank, t, S)
  BY DEF Settled
<1>3. Cleans' /\ Counts'
  BY <1>1, <1>2, QuietCounts
<1>. QED BY <1>3 DEF Settled, Good

----------------------------------------------------------------------------
(* Steps of a thread that is in a call about a buffer.                     *)

\* The frames of a thread are those below and the one at the top; one that calls
\* nothing is at the top.
LEMMA FramesBelow ==
  ASSUME NEW rank, Shape(rank), NEW t \in Threads, stack[t] # <<>>
  PROVE  /\ \A at, c : InFrame(t, at, c) <=>
              In(Below(t), Frame(at, c)) \/ (at = Top(t).at /\ c = Top(t).buf)
         /\ \A c \in Buffers : ~In(Below(t), Frame("close", c)) /\ ~In(Below(t), Frame("clean", c))
<1>1. /\ TypeOK /\ Below(t) \in Seq(Frames) /\ Top(t) \in Frames
      /\ stack[t] = Append(Below(t), Top(t))
      /\ Stacked(parent, origin, rank, t, Append(Below(t), Top(t)))
  BY BelowFacts
<1>2. ASSUME NEW at, NEW c
      PROVE  InFrame(t, at, c) <=> In(Below(t), Frame(at, c)) \/ (at = Top(t).at /\ c = Top(t).buf)
  <2>1. InFrame(t, at, c) <=> In(Below(t), Frame(at, c)) \/ Frame(at, c) = Top(t)
    <3>1. InFrame(t, at, c) <=> In(stack[t], Frame(at, c))
      BY InFrameIs
    <3>. DEFINE B == Below(t)
                f == Top(t)
                g == Frame(at, c)
    <3>2. B \in Seq(Frames) /\ f \in Frames /\ stack[t] = Append(B, f)
      BY <1>1
    <3>. HIDE DEF B, f, g
    <3>3. In(Append(B, f), g) <=> In(B, g) \/ g = f
      BY <3>2, AppendIn
    <3>. QED BY <3>1, <3>2, <3>3 DEF B, f, g
  <2>2. Frame(at, c) = Top(t) <=> (at = Top(t).at /\ c = Top(t).buf)
    BY <1>1, FrameIs, FrameSame
  <2>. QED BY <2>1, <2>2
<1>3. ASSUME NEW c \in Buffers, NEW at \in {"close", "clean"}
      PROVE  ~In(Below(t), Frame(at, c))
  <2>. SUFFICES ASSUME In(Below(t), Frame(at, c)) PROVE FALSE
    OBVIOUS
  <2>. DEFINE g == Frame(at, c)
  <2>1. g \in Frames /\ g.at = at /\ In(Below(t), g)
    BY FrameType DEF FrameAt
  <2>. HIDE DEF g
  <2>2. PICK h \in Frames : Above(parent, g, h)
    BY <1>1, <2>1, OnTop
  <2>. QED BY <2>1, <2>2 DEF Above
<1>. QED BY <1>2, <1>3

\* What is said of the pool after such a step.
LEMMA BufferMonitor ==
  ASSUME NEW rank, Shape(rank), Monitor, Owners, NEW t \in Threads, NEW S, Moved(t, S),
         UNCHANGED <<origin, frees, poolVars>>, Stacked(parent, origin, rank, t, S),
         HasClass(S) => InClass(t),
         S # <<>> => S[Len(S)].at \in BufferAt \cup {"single"},
         \/ got'[t] = None
         \/ got'[t] = got[t] /\ (S # <<>> => S[Len(S)].at # "free")
  PROVE  Monitor' /\ Owners'
<1>1. Monitor'
  BY MonitorKept DEF BufferAt
<1>2. At(t, "free")' <=> S # <<>> /\ S[Len(S)].at = "free"
  BY AfterMove DEF Shape
<1>. QED BY <1>1, <1>2, OwnersPoolKept

\* The call at the top returns.
LEMMA BufferReturn ==
  ASSUME NEW rank \in [Buffers -> Nat], Shape(rank), Monitor, NEW t \in Threads,
         stack[t] # <<>>, Top(t).at \in BufferAt, NEW r \in {"ok", "throw", "clean"}, Return(t, r)
  PROVE  /\ Moved(t, Below(t)) /\ Stacked(parent, origin, rank, t, Below(t)) /\ got'[t] = None
         /\ Owners /\ UNCHANGED <<origin, frees, poolVars>> => Monitor' /\ Owners'
         /\ UNCHANGED poolVars => Monitor'
         /\ \A u \in Threads : \A at, c : InFrame(u, at, c)' => InFrame(u, at, c)
         /\ \A u \in Threads : \A at, c : InFrame(u, at, c) =>
              InFrame(u, at, c)' \/ (u = t /\ at = Top(t).at /\ c = Top(t).buf)
         /\ \A at, c : InFrame(t, at, c)' <=> In(Below(t), Frame(at, c))
         /\ Counts /\ jvm = "running" => t # "hook" /\ stack'["hook"] = <<>>
<1>1. /\ TypeOK /\ Stacked(parent, origin, rank, t, Below(t))
      /\ Below(t) # <<>> => Above(parent, Below(t)[Len(Below(t))], Top(t))
      /\ HasClass(Below(t)) => InClass(t)
  BY BelowFacts
<1>2. Moved(t, Below(t)) /\ got'[t] = None
  BY <1>1, ReturnMoves DEF Return
<1>3. Below(t) # <<>> => Below(t)[Len(Below(t))].at \in {"closing", "reclaim", "cleaning"}
  BY <1>1 DEF Above, BufferAt, PoolAt, Frame
<1>4. Owners /\ UNCHANGED <<origin, frees, poolVars>> => Monitor' /\ Owners'
  <2>1. Below(t) # <<>> => Below(t)[Len(Below(t))].at \in BufferAt \cup {"single"}
    BY <1>3 DEF BufferAt
  <2>. QED BY <1>1, <1>2, <2>1, BufferMonitor
<1>5. UNCHANGED poolVars => Monitor'
  BY <1>1, <1>2, <1>3, MonitorKept
<1>6. /\ \A u \in Threads : u # t => \A at, c : InFrame(u, at, c)' <=> InFrame(u, at, c)
      /\ \A at, c : InFrame(t, at, c)' <=> In(Below(t), Frame(at, c))
  BY <1>1, <1>2, FramesAfter
<1>7. \A at, c : InFrame(t, at, c) <=>
        In(Below(t), Frame(at, c)) \/ (at = Top(t).at /\ c = Top(t).buf)
  BY FramesBelow
<1>8. ASSUME Counts, jvm = "running" PROVE t # "hook" /\ stack'["hook"] = <<>>
  <2>1. stack["hook"] = <<>> /\ "hook" \in Threads
    BY <1>8, ThreadsAre DEF Counts
  <2>. QED BY <1>1, <1>2, <2>1, AfterMove
<1>. QED BY <1>1, <1>2, <1>4, <1>5, <1>6, <1>7, <1>8

\* The call at the top makes a call.
LEMMA BufferPush ==
  ASSUME NEW rank \in [Buffers -> Nat], Shape(rank), NEW t \in Threads, NEW f \in Frames,
         Moved(t, Append(stack[t], f))
  PROVE  \A u \in Threads : \A at, c :
           InFrame(u, at, c)' <=> InFrame(u, at, c) \/ (u = t /\ at = f.at /\ c = f.buf)
<1>1. TypeOK /\ stack[t] \in Seq(Frames)
  BY DEF Shape, TypeOK, Frames
<1>2. /\ \A u \in Threads : u # t => \A at, c : InFrame(u, at, c)' <=> InFrame(u, at, c)
      /\ \A at, c : InFrame(t, at, c)' <=> In(Append(stack[t], f), Frame(at, c))
  BY <1>1, FramesAfter
<1>3. ASSUME NEW at, NEW c
      PROVE  InFrame(t, at, c)' <=> InFrame(t, at, c) \/ (at = f.at /\ c = f.buf)
  <2>1. In(Append(stack[t], f), Frame(at, c)) <=> In(stack[t], Frame(at, c)) \/ Frame(at, c) = f
    BY <1>1, AppendIn
  <2>2. Frame(at, c) = f <=> at = f.at /\ c = f.buf
    BY FrameIs, FrameSame
  <2>. QED BY <1>2, <2>1, <2>2, InFrameIs
<1>. QED BY <1>2, <1>3

\* A call about b may make the call h.
Descends(rank, at, b, h) ==
  \/ h.at \notin CloseAt
  \/ at = "closing" /\ h.buf = b
  \/ at = "cleaning" /\ h.buf \in Buffers /\ rank[h.buf] < rank[b]

GoesOn(t, f, g) ==
  /\ \A e \in Frames : Above(parent, e, f) => Above(parent, e, g)
  /\ Bottom(t, f) => Bottom(t, g)

Entered(t, at, h) == Append(Append(Below(t), Frame(at, Top(t).buf)), h)

\* The call at the top goes on, and makes one.
LEMMA EnterStack ==
  ASSUME NEW rank \in [Buffers -> Nat], Shape(rank), NEW t \in Threads, stack[t] # <<>>,
         Top(t).at \in BufferAt, NEW at \in {"closing", "cleaning"}, NEW h \in Frames,
         GoesOn(t, Top(t), Frame(at, Top(t).buf)), Top(t).at \in CloseAt,
         Above(parent, Frame(at, Top(t).buf), h), Known(parent, origin, h),
         Descends(rank, at, Top(t).buf, h),
         NEW S, S = Entered(t, at, h)
  PROVE  /\ S \in Seq(Frames) /\ Stacked(parent, origin, rank, t, S)
         /\ \A x, c : In(S, Frame(x, c)) <=> \/ In(Below(t), Frame(x, c))
                                             \/ x = at /\ c = Top(t).buf
                                             \/ x = h.at /\ c = h.buf
         /\ HasClass(S) => InClass(t) \/ h.at \in ClassAt
<1>1. /\ TypeOK /\ Below(t) \in Seq(Frames) /\ Top(t) \in Frames
      /\ Stacked(parent, origin, rank, t, Append(Below(t), Top(t)))
      /\ Known(parent, origin, Top(t)) /\ (HasClass(Below(t)) => InClass(t))
  BY BelowFacts
<1>. DEFINE B == Below(t)
            f == Top(t)
            g == Frame(at, Top(t).buf)
<1>2. /\ g \in Frames /\ g.at = at /\ g.buf = f.buf /\ f \in Frames /\ f.at \in CloseAt
      /\ f.buf \in Buffers
  BY <1>1, FrameType, FrameIs DEF FrameAt, Known, CloseAt, BufferAt
<1>3. /\ B \in Seq(Frames) /\ Known(parent, origin, g)
      /\ Stacked(parent, origin, rank, t, Append(B, f))
      /\ \A e \in Frames : Above(parent, e, f) => Above(parent, e, g)
      /\ Bottom(t, f) => Bottom(t, g)
      /\ Above(parent, g, h) /\ S = Append(Append(B, g), h)
  BY <1>1, <1>2 DEF Known, CloseAt, BufferAt, GoesOn, Entered
<1>4. /\ \A x, c : Frame(x, c) = g <=> x = at /\ c = f.buf
      /\ \A x, c : Frame(x, c) = h <=> x = h.at /\ c = h.buf
  BY FrameIs, FrameSame
<1>5. /\ HasClass(B) => InClass(t)
      /\ h.at \notin CloseAt \/ (at = "closing" /\ h.buf = f.buf)
         \/ (at = "cleaning" /\ h.buf \in Buffers /\ rank[h.buf] < rank[f.buf])
  BY <1>1 DEF Descends
<1>. HIDE DEF B, f, g
<1>6. Stacked(parent, origin, rank, t, Append(B, g))
  <2>1. g.at \in CloseAt => f.at \in CloseAt /\ f.buf = g.buf
    BY <1>2
  <2>2. g.at \in BufferAt => f.at \in BufferAt
    BY <1>2 DEF CloseAt, BufferAt
  <2>. QED BY <1>2, <1>3, <2>1, <2>2, StackedReplace
<1>7. Stacked(parent, origin, rank, t, Append(Append(B, g), h))
  <2>1. \/ h.at \notin CloseAt
        \/ g.at = "closing" /\ h.buf = g.buf
        \/ g.at = "cleaning" /\ h.buf \in Buffers /\ rank[h.buf] < rank[g.buf]
    BY <1>2, <1>5
  <2>. QED BY <1>2, <1>3, <1>6, <2>1, StackedPush
<1>8. Append(B, g) \in Seq(Frames)
  BY <1>2, <1>3, AppendIn
<1>9. ASSUME NEW x, NEW c
      PROVE  In(Append(Append(B, g), h), Frame(x, c)) <=>
               In(B, Frame(x, c)) \/ (x = at /\ c = f.buf) \/ (x = h.at /\ c = h.buf)
  <2>1. In(Append(Append(B, g), h), Frame(x, c)) <=> In(Append(B, g), Frame(x, c)) \/ Frame(x, c) = h
    BY <1>8, AppendIn
  <2>2. In(Append(B, g), Frame(x, c)) <=> In(B, Frame(x, c)) \/ Frame(x, c) = g
    BY <1>2, <1>3, AppendIn
  <2>. QED BY <1>4, <2>1, <2>2
<1>10. HasClass(Append(Append(B, g), h)) => InClass(t) \/ h.at \in ClassAt
  BY <1>2, <1>3, <1>5, <1>8, HasClassAppend DEF ClassAt
<1>11. Append(Append(B, g), h) \in Seq(Frames)
  BY <1>8, AppendIn
<1>. QED BY <1>3, <1>7, <1>9, <1>10, <1>11 DEF B, f, g

\* A close goes on to clean, or a clean to close the parent or to give memory back.
LEMMA BufferEnter ==
  ASSUME NEW rank \in [Buffers -> Nat], Shape(rank), NEW t \in Threads, stack[t] # <<>>,
         Top(t).at \in BufferAt, NEW at \in {"closing", "cleaning"}, NEW h \in Frames,
         GoesOn(t, Top(t), Frame(at, Top(t).buf)), Top(t).at \in CloseAt,
         Above(parent, Frame(at, Top(t).buf), h), Known(parent, origin, h),
         Descends(rank, at, Top(t).buf, h),
         NEW S, S = Entered(t, at, h), Moved(t, S)
  PROVE  /\ Stacked(parent, origin, rank, t, S)
         /\ \A u \in Threads : u # t => \A x, c : InFrame(u, x, c)' <=> InFrame(u, x, c)
         /\ \A x, c : InFrame(t, x, c)' <=> \/ In(Below(t), Frame(x, c))
                                            \/ x = at /\ c = Top(t).buf
                                            \/ x = h.at /\ c = h.buf
         /\ HasClass(S) => InClass(t) \/ h.at \in ClassAt
<1>1. /\ Stacked(parent, origin, rank, t, S)
      /\ \A x, c : In(S, Frame(x, c)) <=> \/ In(Below(t), Frame(x, c))
                                          \/ x = at /\ c = Top(t).buf
                                          \/ x = h.at /\ c = h.buf
      /\ HasClass(S) => InClass(t) \/ h.at \in ClassAt
  BY EnterStack
<1>2. /\ \A u \in Threads : u # t => \A x, c : InFrame(u, x, c)' <=> InFrame(u, x, c)
      /\ \A x, c : InFrame(t, x, c)' <=> In(S, Frame(x, c))
  BY FramesAfter DEF Shape
<1>. QED BY <1>1, <1>2

\* A buffer is not cleaned by a call that its own cleaning has made, and nothing that
\* names a buffer is called from where memory is freed.
LEMMA NotAgain ==
  ASSUME NEW rank \in [Buffers -> Nat], Shape(rank), NEW t \in Threads, stack[t] # <<>>,
         Top(t).at \in BufferAt
  PROVE  /\ Top(t).at \in CloseAt => ~In(Below(t), Frame("cleaning", Top(t).buf))
         /\ \A c \in Buffers : ~In(Below(t), Frame("free", c))
<1>. DEFINE B == Below(t)
            f == Top(t)
<1>1. /\ B \in Seq(Frames) /\ f \in Frames /\ Stacked(parent, origin, rank, t, Append(B, f))
      /\ f.at \in BufferAt /\ f.buf \in Buffers
  BY BelowFacts DEF Known
<1>. HIDE DEF B, f
<1>2. \A e \in Frames : In(B, e) => Lower(rank, e, f)
  BY <1>1, StackedAppend
<1>3. ASSUME f.at \in CloseAt, In(B, Frame("cleaning", f.buf)) PROVE FALSE
  <2>. DEFINE e == Frame("cleaning", f.buf)
  <2>1. e \in Frames /\ e.at = "cleaning" /\ e.buf = f.buf
    BY <1>1, FrameType DEF FrameAt
  <2>2. Lower(rank, e, f)
    BY <1>2, <1>3, <2>1
  <2>3. rank[f.buf] \in Nat
    BY <1>1
  <2>. HIDE DEF e
  <2>. QED BY <1>3, <2>1, <2>2, <2>3 DEF Lower
<1>4. ASSUME NEW c \in Buffers, In(B, Frame("free", c)) PROVE FALSE
  <2>. DEFINE e == Frame("free", c)
  <2>1. e \in Frames /\ e.at = "free"
    BY FrameType DEF FrameAt
  <2>2. Lower(rank, e, f)
    BY <1>2, <1>4, <2>1
  <2>. HIDE DEF e
  <2>. QED BY <1>1, <2>1, <2>2 DEF Lower
<1>. QED BY <1>3, <1>4 DEF B, f

\* The types after a step of a thread.
LEMMA MovedType ==
  ASSUME TypeOK, NEW t \in Threads, NEW S, Moved(t, S)
  PROVE  /\ stack' \in [Threads -> Seq([at : FrameAt, buf : Buffers \cup {None}])]
         /\ ret' \in [Threads -> {"ok", "throw", "clean"}] /\ got' \in [Threads -> Pools \cup {None}]
BY DEF TypeOK, Moved, Frames

\* The application gives up one of its references: the close it calls stands for it.
LEMMA CallCloseStep ==
  ASSUME NEW rank \in [Buffers -> Nat], Good(rank), NEW t \in Users, NEW b \in Buffers,
         CallClose(t, b)
  PROVE  Good(rank)'
<1>. DEFINE f == Frame("close", b)
<1>1. /\ stack[t] = <<>> /\ refs[b] > 0 /\ refs' = [refs EXCEPT ![b] = @ - 1] /\ Enter(t, f)
      /\ calls < MaxCalls /\ calls' = calls + 1
      /\ UNCHANGED <<parent, origin, refCount, closed, resource, all, collected, frees, poolVars,
                     jvm, visited>>
  BY DEF CallClose, Call
<1>2. /\ Shape(rank) /\ Cleans /\ Counts /\ Monitor /\ Owners /\ TypeOK /\ Traceless
      /\ t \in Threads /\ t # "hook" /\ "hook" \in Threads /\ "cleaner" \in Threads
  BY JavaAssumption DEF Good, Shape, Threads
<1>3. /\ refCount \in [Buffers -> Nat] /\ refs \in [Buffers -> 0 .. MaxRefs] /\ MaxRefs \in Nat
      /\ MaxCalls \in Nat /\ calls \in 0 .. MaxCalls /\ collected \subseteq Buffers
  BY <1>2, JavaAssumption DEF TypeOK
<1>4. /\ refs' \in [Buffers -> 0 .. MaxRefs] /\ calls' \in 0 .. MaxCalls
      /\ refs'[b] = refs[b] - 1 /\ \A c \in Buffers : c # b => refs'[c] = refs[c]
  BY <1>1, <1>3
<1>5. f \in Frames /\ f.at = "close" /\ f.buf = b
  BY FrameType DEF FrameAt
<1>. HIDE DEF f
<1>6. /\ Moved(t, Append(stack[t], f)) /\ UNCHANGED <<ret, got>>
  BY <1>1, <1>2, <1>5, EnterMoves
<1>7. Used(b)
  BY <1>1, <1>2 DEF Traceless
<1>. DEFINE S == Append(stack[t], f)
<1>8. /\ S \in Seq(Frames) /\ S # <<>> /\ S[Len(S)] = f /\ ~HasClass(S)
      /\ Stacked(parent, origin, rank, t, S)
  <2>1. Known(parent, origin, f) /\ Bottom(t, f)
    BY <1>5, <1>7 DEF Known, Used, Bottom
  <2>2. <<>> \in Seq(Frames) /\ ~HasClass(<<>>)
    BY EmptySeq, EmptyIn DEF HasClass
  <2>3. ~HasClass(Append(<<>>, f))
    BY <1>5, <2>2, HasClassAppend DEF ClassAt
  <2>. QED BY <1>1, <1>5, <2>1, <2>2, <2>3, StackedFirst, AppendIn
<1>9. Moved(t, S)
  BY <1>6
<1>. HIDE DEF S
<1>10. \A u \in Threads : \A at, c :
         InFrame(u, at, c)' <=> InFrame(u, at, c) \/ (u = t /\ at = "close" /\ c = b)
  BY <1>2, <1>5, <1>6, BufferPush
<1>11. Shape(rank)'
  <2>1. TypeOK'
    BY <1>1, <1>2, <1>4, <1>9, MovedType DEF TypeOK, poolVars
  <2>2. Traceless'
    BY <1>1, <1>2, <1>4, <1>7 DEF Traceless, Used
  <2>3. frees' \in [Buffers -> Seq(Pools)] /\ UNCHANGED <<parent, origin>>
    BY <1>1, <1>2 DEF Shape
  <2>. QED BY <1>2, <1>8, <1>9, <2>1, <2>2, <2>3, ShapeMoved
<1>12. Cleans'
  BY <1>1, <1>2, <1>10 DEF Cleans, LeaksTracked
<1>13. Monitor' /\ Owners'
  <2>1. S[Len(S)].at \in BufferAt \cup {"single"} /\ S[Len(S)].at # "free" /\ got'[t] = got[t]
    BY <1>5, <1>6, <1>8 DEF BufferAt
  <2>. QED BY <1>1, <1>2, <1>8, <1>9, <2>1, BufferMonitor
<1>14. Counts'
  <2>1. \A c \in Buffers : Slices(c)' = Slices(c)
    BY <1>1, <1>10 DEF Slices, Busy
  <2>2. Closes(b)' = Closes(b) \cup {t} /\ \A c \in Buffers : c # b => Closes(c)' = Closes(c)
    BY <1>2, <1>10 DEF Closes
  <2>3. ~Dead(b) /\ Reachable(b)
    BY <1>1, <1>3 DEF Dead, Reachable
  <2>4. \A c \in Buffers : c # b => (Dead(c)' <=> Dead(c)) /\ (Reachable(c)' <=> Reachable(c))
    BY <1>1, <1>4, <1>10, <2>1, <2>2 DEF Dead, Reachable
  <2>5. ASSUME NEW c \in Buffers
        PROVE  refCount'[c] >= refs'[c] + Cardinality(Closes(c)') + Cardinality(Slices(c)')
    <3>1. /\ refCount[c] >= refs[c] + Cardinality(Closes(c)) + Cardinality(Slices(c))
          /\ Cardinality(Closes(c)) \in Nat /\ Cardinality(Slices(c)) \in Nat
          /\ IsFiniteSet(Closes(c))
      BY <1>2, CountsFinite DEF Counts
    <3>2. refCount[c] \in Nat /\ refs[c] \in Nat /\ refCount'[c] = refCount[c]
      BY <1>1, <1>3
    <3>3. CASE c = b
      <4>1. Cardinality(Closes(c)') \in Nat /\ Cardinality(Closes(c)') <= Cardinality(Closes(c)) + 1
        BY <2>2, <3>1, <3>3, FS_AddElement
      <4>. QED BY <1>4, <2>1, <3>1, <3>2, <3>3, <4>1
    <3>4. CASE c # b
      BY <1>4, <2>1, <2>2, <3>1, <3>2, <3>4
    <3>. QED BY <3>3, <3>4
  <2>6. /\ \A u \in Threads : \A c \in Buffers : InFrame(u, "closing", c)' => refCount'[c] = 0
        /\ \A c \in Buffers : closed'[c] => refCount'[c] = 0
    BY <1>1, <1>2, <1>10 DEF Counts
  <2>7. /\ \A c \in collected' : ~Reachable(c)'
        /\ \A c \in Buffers : InFrame("cleaner", "reclaim", c)' => c \in collected'
    BY <1>1, <1>2, <1>3, <1>10, <2>3, <2>4 DEF Counts
  <2>8. jvm' = "running" => /\ stack'["hook"] = <<>>
                            /\ \A c \in Buffers : Used(c)' /\ ~resource'[c] => Dead(c)'
    <3>1. stack'["hook"] = stack["hook"]
      BY <1>2, <1>9, AfterMove
    <3>. QED BY <1>1, <1>2, <2>3, <2>4, <3>1 DEF Counts, Used
  <2>. QED BY <2>5, <2>6, <2>7, <2>8 DEF Counts
<1>. QED BY <1>11, <1>12, <1>13, <1>14 DEF Good

\* The shutdown hook cleans what is registered, referred to or not.
LEMMA HookCleanStep ==
  ASSUME NEW rank \in [Buffers -> Nat], Good(rank), NEW b \in Buffers, HookClean(b)
  PROVE  Good(rank)'
<1>. DEFINE f == Frame("clean", b)
            t == "hook"
<1>1. /\ stack[t] = <<>> /\ b \in all /\ Enter(t, f) /\ visited' = visited \cup {b}
      /\ jvm = "exiting" /\ UNCHANGED <<bufferVars, poolVars, jvm, calls>>
  BY DEF HookClean
<1>2. /\ Shape(rank) /\ Cleans /\ Counts /\ Monitor /\ Owners /\ TypeOK /\ Traceless
      /\ t \in Threads
  BY DEF Good, Shape, Threads
<1>3. UNCHANGED <<parent, origin, refCount, closed, resource, refs, all, collected, frees>>
  BY <1>1 DEF bufferVars
<1>4. f \in Frames /\ f.at = "clean" /\ f.buf = b
  BY FrameType DEF FrameAt
<1>5. t # "cleaner" /\ t = "hook"
  OBVIOUS
<1>. HIDE DEF f, t
<1>6. /\ Moved(t, Append(stack[t], f)) /\ UNCHANGED <<ret, got>>
  BY <1>1, <1>2, <1>4, EnterMoves
<1>7. Used(b)
  BY <1>1, <1>2 DEF Traceless
<1>. DEFINE S == Append(stack[t], f)
<1>8. /\ S \in Seq(Frames) /\ S # <<>> /\ S[Len(S)] = f /\ ~HasClass(S)
      /\ Stacked(parent, origin, rank, t, S)
  <2>1. Known(parent, origin, f) /\ Bottom(t, f)
    BY <1>4, <1>5, <1>7 DEF Known, Used, Bottom
  <2>2. <<>> \in Seq(Frames) /\ ~HasClass(<<>>)
    BY EmptySeq, EmptyIn DEF HasClass
  <2>3. ~HasClass(Append(<<>>, f))
    BY <1>4, <2>2, HasClassAppend DEF ClassAt
  <2>. QED BY <1>1, <1>4, <2>1, <2>2, <2>3, StackedFirst, AppendIn
<1>9. Moved(t, S)
  BY <1>6
<1>. HIDE DEF S
<1>10. \A u \in Threads : \A at, c :
         InFrame(u, at, c)' <=> InFrame(u, at, c) \/ (u = t /\ at = "clean" /\ c = b)
  BY <1>2, <1>4, <1>6, BufferPush
<1>11. Shape(rank)'
  <2>1. TypeOK'
    BY <1>1, <1>2, <1>3, <1>9, MovedType DEF TypeOK, poolVars
  <2>2. Traceless' /\ frees' \in [Buffers -> Seq(Pools)]
    BY <1>1, <1>2, <1>3, TracelessKept DEF Shape
  <2>. QED BY <1>2, <1>3, <1>8, <1>9, <2>1, <2>2, ShapeMoved
<1>12. Cleans'
  BY <1>2, <1>3, <1>5, <1>10, ThreadsAre DEF Cleans, LeaksTracked
<1>13. Monitor' /\ Owners'
  <2>1. S[Len(S)].at \in BufferAt \cup {"single"} /\ S[Len(S)].at # "free" /\ got'[t] = got[t]
    BY <1>4, <1>6, <1>8 DEF BufferAt
  <2>. QED BY <1>1, <1>2, <1>3, <1>8, <1>9, <2>1, BufferMonitor
<1>14. Counts'
  <2>1. \A c \in Buffers : Slices(c)' = Slices(c) /\ Closes(c)' = Closes(c)
    BY <1>3, <1>10 DEF Slices, Busy, Closes
  <2>2. \A c \in Buffers : Reachable(c)' <=> Reachable(c)
    BY <1>3, <1>10 DEF Reachable
  <2>3. \A c \in Buffers :
          refCount'[c] >= refs'[c] + Cardinality(Closes(c)') + Cardinality(Slices(c)')
    BY <1>2, <1>3, <2>1 DEF Counts
  <2>4. /\ \A u \in Threads : \A c \in Buffers : InFrame(u, "closing", c)' => refCount'[c] = 0
        /\ \A c \in Buffers : closed'[c] => refCount'[c] = 0
    BY <1>2, <1>3, <1>10 DEF Counts
  <2>5. /\ \A c \in collected' : ~Reachable(c)'
        /\ \A c \in Buffers : InFrame("cleaner", "reclaim", c)' => c \in collected'
    BY <1>2, <1>3, <1>10, <2>2, ThreadsAre DEF Counts, TypeOK
  <2>6. jvm' # "running"
    BY <1>1
  <2>. QED BY <2>3, <2>4, <2>5, <2>6 DEF Counts
<1>. QED BY <1>11, <1>12, <1>13, <1>14 DEF Good

\* The shape is kept by a step that creates nothing and gives nothing back.
LEMMA BufferShape ==
  ASSUME NEW rank \in [Buffers -> Nat], Shape(rank), NEW t \in Threads, NEW S, Moved(t, S),
         Stacked(parent, origin, rank, t, S),
         UNCHANGED <<parent, origin, refs, frees, poolVars, jvmVars>>,
         refCount' \in [Buffers -> Nat],
         closed' \in [Buffers -> BOOLEAN], \A b \in Buffers : closed'[b] => closed[b] \/ Used(b),
         resource' \in [Buffers -> BOOLEAN], \A b \in Buffers : resource'[b] => resource[b],
         all' \subseteq all, collected' \subseteq collected
  PROVE  Shape(rank)'
<1>1. TypeOK /\ Traceless /\ frees \in [Buffers -> Seq(Pools)]
  BY DEF Shape
<1>2. TypeOK'
  BY <1>1, MovedType DEF TypeOK, poolVars, jvmVars
<1>3. Traceless'
  BY <1>1 DEF Traceless, Used
<1>. QED BY <1>1, <1>2, <1>3, ShapeMoved

\* A thread that closes a buffer stands for a reference, so the count is not zero.
LEMMA CloseCounts ==
  ASSUME TypeOK, Counts, NEW t \in Threads, NEW b \in Buffers, InFrame(t, "close", b)
  PROVE  /\ refCount[b] \in Nat /\ refCount[b] >= 1 /\ t \in Closes(b) /\ Reachable(b) /\ ~Dead(b)
         /\ refCount[b] = 1 => refs[b] = 0 /\ Closes(b) = {t} /\ Slices(b) = {}
<1>1. /\ refCount[b] >= refs[b] + Cardinality(Closes(b)) + Cardinality(Slices(b))
      /\ refCount[b] \in Nat /\ refs[b] \in Nat
  BY JavaAssumption DEF Counts, TypeOK
<1>2. t \in Closes(b) /\ Reachable(b) /\ ~Dead(b)
  BY DEF Closes, Reachable, Dead
<1>3. /\ IsFiniteSet(Closes(b)) /\ Cardinality(Closes(b)) \in Nat /\ Cardinality(Slices(b)) \in Nat
      /\ Cardinality(Closes(b)) # 0 /\ (Cardinality(Slices(b)) = 0 <=> Slices(b) = {})
  BY <1>2, CountsFinite
<1>4. refCount[b] >= 1
  BY <1>1, <1>3
<1>5. ASSUME refCount[b] = 1 PROVE refs[b] = 0 /\ Closes(b) = {t} /\ Slices(b) = {}
  <2>1. refs[b] = 0 /\ Cardinality(Closes(b)) = 1 /\ Cardinality(Slices(b)) = 0
    BY <1>1, <1>3, <1>5
  <2>2. Closes(b) = {t}
    BY <1>2, <1>3, <2>1, FS_Singleton
  <2>. QED BY <1>3, <2>1, <2>2
<1>. QED BY <1>1, <1>2, <1>4, <1>5

\* close, whether or not it was the last reference.
LEMMA CloseStep ==
  ASSUME NEW rank \in [Buffers -> Nat], Good(rank), NEW t \in Threads, Close(t)
  PROVE  Good(rank)'
<1>. DEFINE b == Top(t).buf
<1>1. /\ stack[t] # <<>> /\ Top(t).at = "close" /\ refCount' = [refCount EXCEPT ![b] = @ - 1]
      /\ \/ refCount[b] > 1 /\ Return(t, "ok")
         \/ refCount[b] = 1 /\ BecomeAndEnter(t, "closing", <<Frame("clean", b)>>)
         \/ refCount[b] < 1 /\ Return(t, "throw")
      /\ UNCHANGED <<parent, origin, closed, resource, refs, all, collected, frees, poolVars,
                     jvmVars>>
  BY DEF Close, At
<1>2. /\ Shape(rank) /\ Cleans /\ Counts /\ Monitor /\ Owners /\ TypeOK
      /\ "hook" \in Threads /\ "cleaner" \in Threads
  BY ThreadsAre DEF Good, Shape
<1>3. /\ refCount \in [Buffers -> Nat] /\ refs \in [Buffers -> 0 .. MaxRefs] /\ MaxRefs \in Nat
      /\ collected \subseteq Buffers
  BY <1>2, JavaAssumption DEF TypeOK
<1>4. /\ Known(parent, origin, Top(t)) /\ b \in Buffers /\ Used(b) /\ InFrame(t, "close", b)
      /\ \A c \in Buffers : ~In(Below(t), Frame("close", c)) /\ ~In(Below(t), Frame("clean", c))
      /\ \A at, c : InFrame(t, at, c) <=>
           In(Below(t), Frame(at, c)) \/ (at = "close" /\ c = b)
  BY <1>1, <1>2, BelowFacts, FramesBelow DEF Known, BufferAt, Used
<1>5. /\ refCount[b] >= 1 /\ t \in Closes(b) /\ Reachable(b) /\ ~Dead(b)
      /\ refCount[b] = 1 => refs[b] = 0 /\ Closes(b) = {t} /\ Slices(b) = {}
  BY <1>2, <1>4, CloseCounts
<1>6. /\ refCount' \in [Buffers -> Nat] /\ refCount'[b] = refCount[b] - 1
      /\ \A c \in Buffers : c # b => refCount'[c] = refCount[c]
  BY <1>1, <1>3, <1>4, <1>5
<1>7. Top(t).at \in BufferAt /\ Top(t).at \in CloseAt
  BY <1>1 DEF BufferAt, CloseAt
\* What follows does not depend on whether the buffer is now to be cleaned.
<1>. DEFINE Closed == \E S :
       /\ Moved(t, S) /\ Stacked(parent, origin, rank, t, S) /\ Monitor' /\ Owners'
       /\ stack'["hook"] = <<>> \/ jvm # "running"
       /\ \A u \in Threads : \A at, c :
            at \notin {"close", "closing", "clean"} => (InFrame(u, at, c)' <=> InFrame(u, at, c))
       /\ \A u \in Threads : \A c \in Buffers :
            /\ InFrame(u, "close", c)' <=> InFrame(u, "close", c) /\ ~(u = t /\ c = b)
            /\ InFrame(u, "clean", c) => InFrame(u, "clean", c)'
            /\ InFrame(u, "closing", c)' => InFrame(u, "closing", c) \/ (c = b /\ refCount[b] = 1)
<1>8. Closed
  <2>1. CASE refCount[b] > 1
    <3>1. Return(t, "ok")
      BY <1>1, <1>3, <1>4, <2>1
    <3>2. /\ Moved(t, Below(t)) /\ Stacked(parent, origin, rank, t, Below(t)) /\ Monitor' /\ Owners'
          /\ \A u \in Threads : \A at, c : InFrame(u, at, c)' => InFrame(u, at, c)
          /\ \A u \in Threads : \A at, c : InFrame(u, at, c) =>
               InFrame(u, at, c)' \/ (u = t /\ at = "close" /\ c = b)
          /\ \A at, c : InFrame(t, at, c)' <=> In(Below(t), Frame(at, c))
          /\ jvm = "running" => stack'["hook"] = <<>>
      BY <1>1, <1>2, <1>7, <3>1, BufferReturn
    <3>3. \A c \in Buffers : ~InFrame(t, "close", c)'
      BY <1>4, <3>2
    <3>4. \A u \in Threads : \A at, c :
            at \notin {"close", "closing", "clean"} => (InFrame(u, at, c)' <=> InFrame(u, at, c))
      BY <3>2
    <3>5. ASSUME NEW u \in Threads, NEW c \in Buffers
          PROVE  /\ InFrame(u, "close", c)' <=> InFrame(u, "close", c) /\ ~(u = t /\ c = b)
                 /\ InFrame(u, "clean", c) => InFrame(u, "clean", c)'
                 /\ InFrame(u, "closing", c)' => InFrame(u, "closing", c)
      BY <3>2, <3>3
    <3>. QED BY <3>2, <3>4, <3>5
  <2>2. CASE refCount[b] = 1
    <3>. DEFINE h == Frame("clean", b)
                S == Append(Append(Below(t), Frame("closing", b)), h)
    <3>1. BecomeAndEnter(t, "closing", <<h>>)
      BY <1>1, <2>2
    <3>2. h \in Frames /\ h.at = "clean" /\ h.buf = b
      BY <1>4, FrameType DEF FrameAt
    <3>3. Moved(t, S) /\ UNCHANGED <<ret, got>>
      BY <1>1, <1>2, <3>1, <3>2, BecomeEnterMoves DEF FrameAt
    <3>4. /\ Frame("closing", b).at = "closing" /\ Frame("closing", b).buf = b
          /\ Frame("closing", b) \in Frames
      BY <1>4, FrameType DEF FrameAt
    <3>5. /\ GoesOn(t, Top(t), Frame("closing", b)) /\ S = Entered(t, "closing", h)
          /\ Above(parent, Frame("closing", b), h) /\ Known(parent, origin, h)
      <4>1. \A e \in Frames : Above(parent, e, Top(t)) => Above(parent, e, Frame("closing", b))
        BY <1>1, <3>4 DEF Above, Frame, PoolAt
      <4>2. Bottom(t, Top(t)) => Bottom(t, Frame("closing", b))
        BY <1>1, <3>4 DEF Bottom
      <4>3. Above(parent, Frame("closing", b), h)
        BY <3>2, <3>4 DEF Above
      <4>4. Known(parent, origin, h)
        BY <1>4, <3>2 DEF Known, Used
      <4>. QED BY <4>1, <4>2, <4>3, <4>4 DEF GoesOn, Entered
    <3>13. Descends(rank, "closing", b, h)
      BY <3>2 DEF Descends
    <3>. HIDE DEF h, S
    <3>6. /\ Stacked(parent, origin, rank, t, S)
          /\ \A u \in Threads : u # t => \A x, c : InFrame(u, x, c)' <=> InFrame(u, x, c)
          /\ \A x, c : InFrame(t, x, c)' <=> \/ In(Below(t), Frame(x, c))
                                             \/ x = "closing" /\ c = b
                                             \/ x = h.at /\ c = h.buf
          /\ HasClass(S) => InClass(t) \/ h.at \in ClassAt
      BY <1>1, <1>2, <1>7, <3>2, <3>3, <3>5, <3>13, BufferEnter
    <3>. USE DEF S
    <3>7. Append(Below(t), Frame("closing", b)) \in Seq(Frames)
      BY <1>1, <1>2, <3>4, BelowFacts, AppendIn
    <3>8. S[Len(S)] = h /\ S # <<>>
      BY <3>2, <3>7, AppendIn
    <3>9. Monitor' /\ Owners'
      <4>1. S[Len(S)].at \in BufferAt \cup {"single"} /\ S[Len(S)].at # "free" /\ got'[t] = got[t]
        BY <3>2, <3>3, <3>8 DEF BufferAt
      <4>2. HasClass(S) => InClass(t)
        BY <3>2, <3>6 DEF ClassAt
      <4>3. UNCHANGED <<origin, frees, poolVars>>
        BY <1>1
      <4>4. Moved(t, S) /\ Stacked(parent, origin, rank, t, S)
        BY <3>3, <3>6
      <4>. HIDE DEF S
      <4>. QED BY <1>2, <4>1, <4>2, <4>3, <4>4, BufferMonitor
    <3>10. \A u \in Threads : \A at, c :
             at \notin {"close", "closing", "clean"} => (InFrame(u, at, c)' <=> InFrame(u, at, c))
      BY <1>4, <3>2, <3>6
    <3>11. ASSUME NEW u \in Threads, NEW c \in Buffers
          PROVE  /\ InFrame(u, "close", c)' <=> InFrame(u, "close", c) /\ ~(u = t /\ c = b)
                 /\ InFrame(u, "clean", c) => InFrame(u, "clean", c)'
                 /\ InFrame(u, "closing", c)' => InFrame(u, "closing", c) \/ c = b
      BY <1>4, <3>2, <3>6
    <3>12. stack'["hook"] = <<>> \/ jvm # "running"
      <4>1. ASSUME jvm = "running" PROVE t # "hook" /\ stack["hook"] = <<>>
        BY <1>1, <1>2, <4>1 DEF Counts
      <4>. QED BY <1>2, <3>3, <4>1, AfterMove
    <3>. QED BY <2>2, <3>3, <3>6, <3>9, <3>10, <3>11, <3>12
  <2>3. refCount[b] \in Nat
    BY <1>3, <1>4
  <2>. QED BY <1>5, <2>1, <2>2, <2>3
<1>. HIDE DEF b, Closed
<1>9. PICK S :
       /\ Moved(t, S) /\ Stacked(parent, origin, rank, t, S) /\ Monitor' /\ Owners'
       /\ stack'["hook"] = <<>> \/ jvm # "running"
       /\ \A u \in Threads : \A at, c :
            at \notin {"close", "closing", "clean"} => (InFrame(u, at, c)' <=> InFrame(u, at, c))
       /\ \A u \in Threads : \A c \in Buffers :
            /\ InFrame(u, "close", c)' <=> InFrame(u, "close", c) /\ ~(u = t /\ c = b)
            /\ InFrame(u, "clean", c) => InFrame(u, "clean", c)'
            /\ InFrame(u, "closing", c)' => InFrame(u, "closing", c) \/ (c = b /\ refCount[b] = 1)
  BY <1>8 DEF Closed
<1>10. Shape(rank)'
  <2>1. /\ closed' \in [Buffers -> BOOLEAN] /\ resource' \in [Buffers -> BOOLEAN]
        /\ UNCHANGED <<closed, resource, all, collected>>
    BY <1>1, <1>2 DEF TypeOK
  <2>. QED BY <1>1, <1>2, <1>6, <1>9, <2>1, BufferShape
<1>11. /\ \A u \in Threads : \A c \in Buffers :
            /\ InFrame(u, "cleaning", c)' <=> InFrame(u, "cleaning", c)
            /\ InFrame(u, "free", c)' <=> InFrame(u, "free", c)
            /\ InFrame(u, "reclaim", c)' <=> InFrame(u, "reclaim", c)
            /\ InFrame(u, "clean", c) => InFrame(u, "clean", c)'
  BY <1>9
<1>12. Cleans'
  BY <1>1, <1>2, <1>11 DEF Cleans, LeaksTracked
<1>13. Counts'
  <2>1. \A c \in Buffers : Slices(c)' = Slices(c)
    BY <1>1, <1>11 DEF Slices, Busy
  <2>2. \A c \in Buffers : /\ c = b => Closes(c)' = Closes(c) \ {t}
                           /\ c # b => Closes(c)' = Closes(c)
    BY <1>4, <1>9 DEF Closes
  <2>3. \A c \in Buffers : Dead(c) => Dead(c)'
    BY <1>1, <2>1, <2>2, <1>5 DEF Dead
  <2>4. ASSUME NEW c \in Buffers, c # b, Reachable(c)' PROVE Reachable(c)
    BY <1>1, <1>9, <2>4 DEF Reachable
  <2>5. ASSUME NEW c \in Buffers
        PROVE  refCount'[c] >= refs'[c] + Cardinality(Closes(c)') + Cardinality(Slices(c)')
    <3>1. /\ refCount[c] >= refs[c] + Cardinality(Closes(c)) + Cardinality(Slices(c))
          /\ Cardinality(Closes(c)) \in Nat /\ Cardinality(Slices(c)) \in Nat
          /\ IsFiniteSet(Closes(c))
      BY <1>2, CountsFinite DEF Counts
    <3>2. refCount[c] \in Nat /\ refs[c] \in Nat /\ refs'[c] = refs[c]
      BY <1>1, <1>3
    <3>3. CASE c = b
      <4>1. Cardinality(Closes(c)') = Cardinality(Closes(c)) - 1
        BY <1>5, <2>2, <3>1, <3>3, FS_RemoveElement
      <4>. QED BY <1>6, <2>1, <3>1, <3>2, <3>3, <4>1
    <3>4. CASE c # b
      BY <1>6, <2>1, <2>2, <3>1, <3>2, <3>4
    <3>. QED BY <3>3, <3>4
  <2>6. ASSUME NEW c \in Buffers, \/ closed'[c]
                                  \/ \E u \in Threads : InFrame(u, "closing", c)'
        PROVE  refCount'[c] = 0
    <3>1. refCount[c] = 0 \/ (c = b /\ refCount[b] = 1)
      BY <1>1, <1>2, <1>9, <2>6 DEF Counts
    <3>2. c # b => refCount'[c] = refCount[c]
      BY <1>6
    <3>. QED BY <1>3, <1>4, <1>5, <1>6, <3>1, <3>2
  <2>7. /\ \A c \in collected' : ~Reachable(c)'
        /\ \A c \in Buffers : InFrame("cleaner", "reclaim", c)' => c \in collected'
    BY <1>1, <1>2, <1>3, <1>5, <1>11, <2>4 DEF Counts
  <2>8. jvm' = "running" => /\ stack'["hook"] = <<>>
                            /\ \A c \in Buffers : Used(c)' /\ ~resource'[c] => Dead(c)'
    BY <1>1, <1>2, <1>9, <2>3 DEF Counts, Used, jvmVars
  <2>. QED BY <2>5, <2>6, <2>7, <2>8 DEF Counts
<1>. QED BY <1>9, <1>10, <1>12, <1>13 DEF Good

\* The close of a buffer whose count has been taken: it is cleaned, or kept.
LEMMA ClosingStep ==
  ASSUME NEW rank \in [Buffers -> Nat], Good(rank), NEW t \in Threads, Closing(t)
  PROVE  Good(rank)'
<1>. DEFINE b == Top(t).buf
            r == IF ret[t] = "throw" THEN "throw" ELSE "ok"
<1>1. /\ stack[t] # <<>> /\ Top(t).at = "closing" /\ Return(t, r)
      /\ closed' = [closed EXCEPT ![b] = @ \/ ret[t] # "throw"]
      /\ UNCHANGED <<parent, origin, refCount, resource, refs, all, collected, frees, poolVars,
                     jvmVars>>
  BY DEF Closing, At
<1>2. /\ Shape(rank) /\ Cleans /\ Counts /\ Monitor /\ Owners /\ TypeOK
      /\ "cleaner" \in Threads /\ r \in {"ok", "throw", "clean"}
  BY ThreadsAre DEF Good, Shape
<1>3. /\ closed \in [Buffers -> BOOLEAN] /\ resource \in [Buffers -> BOOLEAN]
      /\ refCount \in [Buffers -> Nat] /\ collected \subseteq Buffers
  BY <1>2 DEF TypeOK
<1>4. /\ Known(parent, origin, Top(t)) /\ b \in Buffers /\ Used(b) /\ InFrame(t, "closing", b)
  BY <1>1, <1>2, BelowFacts, FramesBelow DEF Known, BufferAt, Used
<1>. HIDE DEF r
<1>5. /\ closed' \in [Buffers -> BOOLEAN] /\ \A c \in Buffers : c # b => closed'[c] = closed[c]
  BY <1>1, <1>3, <1>4
<1>6. /\ Moved(t, Below(t)) /\ Stacked(parent, origin, rank, t, Below(t)) /\ Monitor' /\ Owners'
      /\ \A u \in Threads : \A at, c : InFrame(u, at, c)' => InFrame(u, at, c)
      /\ \A u \in Threads : \A at, c : InFrame(u, at, c) =>
           InFrame(u, at, c)' \/ (u = t /\ at = "closing" /\ c = b)
      /\ jvm = "running" => stack'["hook"] = <<>>
  <2>1. Top(t).at \in BufferAt
    BY <1>1 DEF BufferAt
  <2>. QED BY <1>1, <1>2, <2>1, BufferReturn
<1>7. \A u \in Threads : \A at, c : at # "closing" => (InFrame(u, at, c)' <=> InFrame(u, at, c))
  BY <1>6
<1>. HIDE DEF b
<1>8. Shape(rank)'
  <2>1. \A c \in Buffers : closed'[c] => closed[c] \/ Used(c)
    BY <1>4, <1>5
  <2>. QED BY <1>1, <1>2, <1>3, <1>5, <1>6, <2>1, BufferShape
<1>9. /\ \A u \in Threads : \A c \in Buffers :
           /\ InFrame(u, "cleaning", c)' <=> InFrame(u, "cleaning", c)
           /\ InFrame(u, "close", c)' <=> InFrame(u, "close", c)
           /\ InFrame(u, "free", c)' <=> InFrame(u, "free", c)
           /\ InFrame(u, "reclaim", c)' <=> InFrame(u, "reclaim", c)
           /\ InFrame(u, "clean", c)' <=> InFrame(u, "clean", c)
           /\ InFrame(u, "closing", c)' => InFrame(u, "closing", c)
  BY <1>6, <1>7
<1>10. Cleans'
  BY <1>1, <1>2, <1>9 DEF Cleans, LeaksTracked
<1>11. Counts'
  <2>1. \A c \in Buffers : Slices(c)' = Slices(c) /\ Closes(c)' = Closes(c)
    BY <1>1, <1>9 DEF Slices, Busy, Closes
  <2>2. \A c \in Buffers : (Dead(c)' <=> Dead(c)) /\ (Reachable(c)' => Reachable(c))
    BY <1>1, <1>9, <2>1 DEF Dead, Reachable
  <2>3. \A c \in Buffers :
          refCount'[c] >= refs'[c] + Cardinality(Closes(c)') + Cardinality(Slices(c)')
    BY <1>1, <1>2, <2>1 DEF Counts
  <2>4. /\ \A u \in Threads : \A c \in Buffers : InFrame(u, "closing", c)' => refCount'[c] = 0
        /\ \A c \in Buffers : closed'[c] => refCount'[c] = 0
    BY <1>1, <1>2, <1>4, <1>5, <1>9 DEF Counts
  <2>5. /\ \A c \in collected' : ~Reachable(c)'
        /\ \A c \in Buffers : InFrame("cleaner", "reclaim", c)' => c \in collected'
    BY <1>1, <1>2, <1>3, <1>9, <2>2 DEF Counts
  <2>6. jvm' = "running" => /\ stack'["hook"] = <<>>
                            /\ \A c \in Buffers : Used(c)' /\ ~resource'[c] => Dead(c)'
    BY <1>1, <1>2, <1>6, <2>2 DEF Counts, Used, jvmVars
  <2>. QED BY <2>3, <2>4, <2>5, <2>6 DEF Counts
<1>. QED BY <1>6, <1>8, <1>10, <1>11 DEF Good

\* What is clean is not cleaned again.
LEMMA CleanNothing ==
  ASSUME NEW rank \in [Buffers -> Nat], Good(rank), NEW t \in Threads,
         At(t, "clean"), ~resource[Top(t).buf], Return(t, "clean"),
         UNCHANGED <<bufferVars, poolVars, jvmVars>>
  PROVE  Good(rank)'
<1>. DEFINE b == Top(t).buf
<1>1. /\ stack[t] # <<>> /\ Top(t).at = "clean" /\ Top(t).at \in BufferAt
  BY DEF At, BufferAt
<1>2. /\ Shape(rank) /\ Cleans /\ Counts /\ Monitor /\ Owners /\ TypeOK
      /\ "cleaner" \in Threads
      /\ UNCHANGED <<parent, origin, refCount, closed, resource, refs, all, collected, frees>>
  BY ThreadsAre DEF Good, Shape, bufferVars
<1>3. /\ Moved(t, Below(t)) /\ Stacked(parent, origin, rank, t, Below(t)) /\ Monitor' /\ Owners'
      /\ \A u \in Threads : \A at, c : InFrame(u, at, c)' => InFrame(u, at, c)
      /\ \A u \in Threads : \A at, c : InFrame(u, at, c) =>
           InFrame(u, at, c)' \/ (u = t /\ at = "clean" /\ c = b)
      /\ jvm = "running" => stack'["hook"] = <<>>
  BY <1>1, <1>2, BufferReturn
<1>. HIDE DEF b
<1>4. Shape(rank)'
  BY <1>2, <1>3, BufferShape DEF TypeOK
<1>5. /\ \A u \in Threads : \A c \in Buffers :
           /\ InFrame(u, "cleaning", c)' <=> InFrame(u, "cleaning", c)
           /\ InFrame(u, "close", c)' <=> InFrame(u, "close", c)
           /\ InFrame(u, "closing", c)' <=> InFrame(u, "closing", c)
           /\ InFrame(u, "free", c)' <=> InFrame(u, "free", c)
           /\ InFrame(u, "reclaim", c)' <=> InFrame(u, "reclaim", c)
           /\ InFrame(u, "clean", c) => InFrame(u, "clean", c)' \/ c = b
  BY <1>3
<1>6. ~resource[b]
  BY DEF b
<1>7. Cleans'
  BY <1>2, <1>5, <1>6 DEF Cleans, LeaksTracked
<1>8. Counts'
  <2>1. \A c \in Buffers : Slices(c)' = Slices(c) /\ Closes(c)' = Closes(c)
    BY <1>2, <1>5 DEF Slices, Busy, Closes
  <2>2. \A c \in Buffers : (Dead(c)' <=> Dead(c)) /\ (Reachable(c)' <=> Reachable(c))
    BY <1>2, <1>5, <2>1 DEF Dead, Reachable
  <2>3. \A c \in Buffers :
          refCount'[c] >= refs'[c] + Cardinality(Closes(c)') + Cardinality(Slices(c)')
    BY <1>2, <2>1 DEF Counts
  <2>4. /\ \A u \in Threads : \A c \in Buffers : InFrame(u, "closing", c)' => refCount'[c] = 0
        /\ \A c \in Buffers : closed'[c] => refCount'[c] = 0
    BY <1>2, <1>5 DEF Counts
  <2>5. /\ \A c \in collected' : ~Reachable(c)'
        /\ \A c \in Buffers : InFrame("cleaner", "reclaim", c)' => c \in collected'
    BY <1>2, <1>5, <2>2 DEF Counts, TypeOK
  <2>6. jvm' = "running" => /\ stack'["hook"] = <<>>
                            /\ \A c \in Buffers : Used(c)' /\ ~resource'[c] => Dead(c)'
    BY <1>2, <1>3, <2>2 DEF Counts, Used, jvmVars
  <2>. QED BY <2>3, <2>4, <2>5, <2>6 DEF Counts
<1>. QED BY <1>3, <1>4, <1>7, <1>8 DEF Good

\* A slice is cleaned by closing its parent: the reference it held becomes the close.
LEMMA CleanSlice ==
  ASSUME NEW rank \in [Buffers -> Nat], Good(rank), NEW t \in Threads,
         At(t, "clean"), CleanerFree(t, Top(t).buf), resource[Top(t).buf],
         parent[Top(t).buf] # None,
         BecomeAndEnter(t, "cleaning", <<Frame("close", parent[Top(t).buf])>>),
         UNCHANGED <<bufferVars, poolVars, jvmVars>>
  PROVE  Good(rank)'
<1>1. /\ stack[t] # <<>> /\ Top(t).at = "clean" /\ Top(t).at \in BufferAt /\ Top(t).at \in CloseAt
  BY DEF At, BufferAt, CloseAt
<1>2. /\ Shape(rank) /\ Cleans /\ Counts /\ Monitor /\ Owners /\ TypeOK /\ Ancestry(rank)
      /\ "cleaner" \in Threads
      /\ UNCHANGED <<parent, origin, refCount, closed, resource, refs, all, collected, frees>>
  BY ThreadsAre DEF Good, Shape, bufferVars
<1>3. /\ Known(parent, origin, Top(t)) /\ Top(t).buf \in Buffers
      /\ \A c \in Buffers : ~In(Below(t), Frame("close", c)) /\ ~In(Below(t), Frame("clean", c))
      /\ \A at, c : InFrame(t, at, c) <=>
           In(Below(t), Frame(at, c)) \/ (at = "clean" /\ c = Top(t).buf)
      /\ ~In(Below(t), Frame("cleaning", Top(t).buf))
  BY <1>1, <1>2, BelowFacts, FramesBelow, NotAgain DEF Known
<1>4. PICK b \in Buffers : b = Top(t).buf
  BY <1>3
<1>5. PICK p \in Buffers : p = parent[b] /\ p # None /\ Used(p) /\ rank[p] < rank[b]
  BY <1>2, <1>4 DEF Ancestry, TypeOK
<1>6. Used(b) /\ resource[b] /\ ~Busy(b) /\ b \in Slices(p)
  <2>1. ~Busy(b)
    BY <1>3, <1>4 DEF CleanerFree, Busy
  <2>. QED BY <1>3, <1>4, <1>5, <2>1 DEF Known, BufferAt, Used, Slices
<1>. DEFINE h == Frame("close", p)
            S == Append(Append(Below(t), Frame("cleaning", b)), h)
<1>7. h \in Frames /\ h.at = "close" /\ h.buf = p
  BY FrameType DEF FrameAt
<1>8. Moved(t, S) /\ UNCHANGED <<ret, got>>
  BY <1>1, <1>2, <1>4, <1>5, <1>7, BecomeEnterMoves DEF FrameAt
<1>9. /\ Stacked(parent, origin, rank, t, S)
      /\ \A u \in Threads : u # t => \A x, c : InFrame(u, x, c)' <=> InFrame(u, x, c)
      /\ \A x, c : InFrame(t, x, c)' <=> \/ In(Below(t), Frame(x, c))
                                         \/ x = "cleaning" /\ c = b
                                         \/ x = "close" /\ c = p
      /\ HasClass(S) => InClass(t) \/ h.at \in ClassAt
  <2>1. /\ Frame("cleaning", b).at = "cleaning" /\ Frame("cleaning", b).buf = b
        /\ Frame("cleaning", b) \in Frames
    BY FrameType DEF FrameAt
  <2>2. \A e \in Frames : Above(parent, e, Top(t)) => Above(parent, e, Frame("cleaning", b))
    BY <1>1, <1>4, <2>1 DEF Above, Frame, PoolAt
  <2>3. Bottom(t, Top(t)) => Bottom(t, Frame("cleaning", b))
    BY <1>1, <2>1 DEF Bottom
  <2>4. Above(parent, Frame("cleaning", b), h)
    BY <1>5, <1>7, <2>1 DEF Above
  <2>5. Known(parent, origin, h)
    BY <1>5, <1>7 DEF Known, Used
  <2>6. /\ Descends(rank, "cleaning", Top(t).buf, h) /\ S = Entered(t, "cleaning", h)
        /\ GoesOn(t, Top(t), Frame("cleaning", Top(t).buf))
        /\ Above(parent, Frame("cleaning", Top(t).buf), h)
    BY <1>4, <1>5, <1>7, <2>2, <2>3, <2>4 DEF Descends, Entered, GoesOn
  <2>7. Moved(t, S)
    BY <1>8
  <2>. HIDE DEF h, S
  <2>8. /\ Stacked(parent, origin, rank, t, S)
        /\ \A u \in Threads : u # t => \A x, c : InFrame(u, x, c)' <=> InFrame(u, x, c)
        /\ \A x, c : InFrame(t, x, c)' <=> \/ In(Below(t), Frame(x, c))
                                           \/ x = "cleaning" /\ c = Top(t).buf
                                           \/ x = h.at /\ c = h.buf
        /\ HasClass(S) => InClass(t) \/ h.at \in ClassAt
    BY <1>1, <1>2, <1>7, <2>5, <2>6, <2>7, BufferEnter
  <2>. QED BY <1>4, <1>7, <2>8
<1>10. Monitor' /\ Owners'
  <2>1. Append(Below(t), Frame("cleaning", b)) \in Seq(Frames)
    BY <1>1, <1>2, BelowFacts, AppendIn, FrameType DEF FrameAt
  <2>2. S[Len(S)] = h
    BY <1>7, <2>1, AppendIn
  <2>3. S[Len(S)].at \in BufferAt \cup {"single"} /\ S[Len(S)].at # "free" /\ got'[t] = got[t]
        /\ (HasClass(S) => InClass(t))
    BY <1>7, <1>8, <1>9, <2>2 DEF BufferAt, ClassAt
  <2>4. Moved(t, S) /\ Stacked(parent, origin, rank, t, S)
    BY <1>8, <1>9
  <2>. HIDE DEF S
  <2>. QED BY <1>2, <2>3, <2>4, BufferMonitor
<1>. HIDE DEF S, h
<1>11. Shape(rank)'
  BY <1>2, <1>8, <1>9, BufferShape DEF TypeOK
<1>12. \A u \in Threads : \A c \in Buffers :
         /\ InFrame(u, "cleaning", c)' <=> InFrame(u, "cleaning", c) \/ (u = t /\ c = b)
         /\ InFrame(u, "close", c)' <=> InFrame(u, "close", c) \/ (u = t /\ c = p)
         /\ InFrame(u, "closing", c)' <=> InFrame(u, "closing", c)
         /\ InFrame(u, "free", c)' <=> InFrame(u, "free", c)
         /\ InFrame(u, "reclaim", c)' <=> InFrame(u, "reclaim", c)
         /\ InFrame(u, "clean", c) => InFrame(u, "clean", c)' \/ (u = t /\ c = b)
  BY <1>3, <1>4, <1>9
<1>13. Cleans'
  <2>1. \A u, v \in Threads : \A c \in Buffers :
          InFrame(u, "cleaning", c)' /\ InFrame(v, "cleaning", c)' => u = v
    BY <1>2, <1>6, <1>12 DEF Cleans, Busy
  <2>2. \A u \in Threads : \A c \in Buffers : InFrame(u, "cleaning", c)' => resource'[c]
    BY <1>2, <1>6, <1>12 DEF Cleans
  <2>3. ASSUME NEW c \in Buffers, frees'[c] # <<>>
        PROVE  /\ Len(frees'[c]) = 1
               /\ ~resource'[c] \/ \E u \in Threads : /\ InFrame(u, "cleaning", c)'
                                                      /\ ~InFrame(u, "free", c)'
    BY <1>2, <1>12, <2>3 DEF Cleans
  <2>4. \A c \in Buffers : InFrame("cleaner", "reclaim", c)' =>
          ~resource'[c] \/ InFrame("cleaner", "clean", c)' \/ InFrame("cleaner", "cleaning", c)'
    BY <1>2, <1>12 DEF Cleans
  <2>5. LeaksTracked'
    BY <1>2 DEF Cleans, LeaksTracked
  <2>. QED BY <2>1, <2>2, <2>3, <2>4, <2>5 DEF Cleans
<1>14. Counts'
  <2>1. \A c \in Buffers : Busy(c)' <=> Busy(c) \/ c = b
    BY <1>12 DEF Busy
  <2>2. Slices(p)' = Slices(p) \ {b} /\ \A c \in Buffers : c # p => Slices(c)' = Slices(c)
    BY <1>2, <1>5, <2>1 DEF Slices
  <2>3. Closes(p)' = Closes(p) \cup {t} /\ \A c \in Buffers : c # p => Closes(c)' = Closes(c)
    BY <1>12 DEF Closes
  <2>4. ~Dead(p) /\ Reachable(p)
    BY <1>5, <1>6 DEF Dead, Reachable
  <2>5. \A c \in Buffers : c # p => (Dead(c)' <=> Dead(c)) /\ (Reachable(c)' <=> Reachable(c))
    BY <1>2, <1>12, <2>2, <2>3 DEF Dead, Reachable
  <2>6. ASSUME NEW c \in Buffers
        PROVE  refCount'[c] >= refs'[c] + Cardinality(Closes(c)') + Cardinality(Slices(c)')
    <3>1. /\ refCount[c] >= refs[c] + Cardinality(Closes(c)) + Cardinality(Slices(c))
          /\ Cardinality(Closes(c)) \in Nat /\ Cardinality(Slices(c)) \in Nat
          /\ IsFiniteSet(Closes(c)) /\ IsFiniteSet(Slices(c))
      BY <1>2, CountsFinite DEF Counts
    <3>2. /\ refCount[c] \in Nat /\ refs[c] \in Nat
          /\ refs'[c] = refs[c] /\ refCount'[c] = refCount[c]
      BY <1>2, JavaAssumption DEF TypeOK
    <3>3. CASE c = p
      <4>. DEFINE C == Closes(c)
                  D == Closes(c)'
      <4>0. D = C \cup {t} /\ IsFiniteSet(C) /\ Cardinality(C) \in Nat
        BY <2>3, <3>1, <3>3
      <4>. HIDE DEF C, D
      <4>1. Cardinality(D) \in Nat /\ Cardinality(D) <= Cardinality(C) + 1
        <5>1. IsFiniteSet(D) /\ Cardinality(D) \in Nat
          BY <4>0, FS_AddElement, FS_CardinalityType
        <5>2. Cardinality(C \cup {t}) = IF t \in C THEN Cardinality(C) ELSE Cardinality(C) + 1
          BY <4>0, FS_AddElement
        <5>. QED BY <4>0, <5>1, <5>2
      <4>. USE DEF C, D
      <4>2. Cardinality(Slices(c)') = Cardinality(Slices(c)) - 1
        BY <1>6, <2>2, <3>1, <3>3, FS_RemoveElement
      <4>. QED BY <3>1, <3>2, <4>1, <4>2
    <3>4. CASE c # p
      BY <2>2, <2>3, <3>1, <3>2, <3>4
    <3>. QED BY <3>3, <3>4
  <2>7. /\ \A u \in Threads : \A c \in Buffers : InFrame(u, "closing", c)' => refCount'[c] = 0
        /\ \A c \in Buffers : closed'[c] => refCount'[c] = 0
    BY <1>2, <1>12 DEF Counts
  <2>8. /\ \A c \in collected' : ~Reachable(c)'
        /\ \A c \in Buffers : InFrame("cleaner", "reclaim", c)' => c \in collected'
    BY <1>2, <1>12, <2>4, <2>5 DEF Counts, TypeOK
  <2>9. jvm' = "running" => /\ stack'["hook"] = <<>>
                            /\ \A c \in Buffers : Used(c)' /\ ~resource'[c] => Dead(c)'
    <3>1. jvm = "running" => stack'["hook"] = <<>>
      <4>1. jvm = "running" => stack["hook"] = <<>> /\ t # "hook" /\ "hook" \in Threads
        BY <1>1, <1>2, ThreadsAre DEF Counts
      <4>. QED BY <1>2, <1>8, <4>1, AfterMove
    <3>. QED BY <1>2, <2>4, <2>5, <3>1 DEF Counts, Used, jvmVars
  <2>. QED BY <2>6, <2>7, <2>8, <2>9 DEF Counts
<1>. QED BY <1>10, <1>11, <1>13, <1>14 DEF Good

\* A root is cleaned by giving its memory back, which was not done before.
LEMMA CleanRoot ==
  ASSUME NEW rank \in [Buffers -> Nat], Good(rank), NEW t \in Threads,
         At(t, "clean"), CleanerFree(t, Top(t).buf), resource[Top(t).buf],
         parent[Top(t).buf] = None,
         BecomeAndEnter(t, "cleaning", <<Frame("free", Top(t).buf), Frame("single", None)>>),
         UNCHANGED <<bufferVars, poolVars, jvmVars>>
  PROVE  Good(rank)'
<1>1. /\ stack[t] # <<>> /\ Top(t).at = "clean" /\ Top(t).at \in BufferAt /\ Top(t).at \in CloseAt
  BY DEF At, BufferAt, CloseAt
<1>2. /\ Shape(rank) /\ Cleans /\ Counts /\ Monitor /\ Owners /\ TypeOK
      /\ "cleaner" \in Threads
      /\ UNCHANGED <<parent, origin, refCount, closed, resource, refs, all, collected, frees>>
  BY ThreadsAre DEF Good, Shape, bufferVars
<1>3. /\ Known(parent, origin, Top(t)) /\ Top(t).buf \in Buffers
      /\ \A c \in Buffers : ~In(Below(t), Frame("free", c))
      /\ \A at, c : InFrame(t, at, c) <=>
           In(Below(t), Frame(at, c)) \/ (at = "clean" /\ c = Top(t).buf)
      /\ ~In(Below(t), Frame("cleaning", Top(t).buf))
  BY <1>1, <1>2, BelowFacts, FramesBelow, NotAgain DEF Known
<1>4. PICK b \in Buffers : b = Top(t).buf
  BY <1>3
<1>5. resource[b] /\ ~Busy(b) /\ parent[b] = None
  <2>1. ~Busy(b)
    BY <1>3, <1>4 DEF CleanerFree, Busy
  <2>. QED BY <1>4, <2>1
<1>6. frees[b] = <<>>
  BY <1>2, <1>5 DEF Cleans, Busy
<1>. DEFINE h == Frame("free", b)
            k == Frame("single", None)
            T == Append(Below(t), Frame("cleaning", b))
            S == Append(Append(T, h), k)
<1>7. /\ h \in Frames /\ h.at = "free" /\ h.buf = b /\ k \in Frames /\ k.at = "single"
      /\ k.buf = None
  BY FrameType DEF FrameAt
<1>8. Moved(t, S) /\ UNCHANGED <<ret, got>>
  BY <1>1, <1>2, <1>4, <1>7, BecomeEnterMoves DEF FrameAt
<1>9. /\ Append(T, h) \in Seq(Frames) /\ Stacked(parent, origin, rank, t, Append(T, h))
      /\ \A x, c : In(Append(T, h), Frame(x, c)) <=> \/ In(Below(t), Frame(x, c))
                                                     \/ x = "cleaning" /\ c = b
                                                     \/ x = "free" /\ c = b
      /\ HasClass(Append(T, h)) => InClass(t)
  <2>1. /\ Frame("cleaning", b).at = "cleaning" /\ Frame("cleaning", b).buf = b
        /\ Frame("cleaning", b) \in Frames
    BY FrameType DEF FrameAt
  <2>2. \A e \in Frames : Above(parent, e, Top(t)) => Above(parent, e, Frame("cleaning", b))
    BY <1>1, <1>4, <2>1 DEF Above, Frame, PoolAt
  <2>3. Bottom(t, Top(t)) => Bottom(t, Frame("cleaning", b))
    BY <1>1, <2>1 DEF Bottom
  <2>4. Above(parent, Frame("cleaning", b), h)
    BY <1>5, <1>7, <2>1 DEF Above
  <2>5. Known(parent, origin, h)
    BY <1>1, <1>3, <1>4, <1>7 DEF Known
  <2>6. /\ Descends(rank, "cleaning", Top(t).buf, h) /\ Append(T, h) = Entered(t, "cleaning", h)
        /\ GoesOn(t, Top(t), Frame("cleaning", Top(t).buf))
        /\ Above(parent, Frame("cleaning", Top(t).buf), h)
    BY <1>4, <1>7, <2>2, <2>3, <2>4 DEF Descends, Entered, GoesOn, CloseAt
  <2>. DEFINE R == Append(T, h)
  <2>7. R = Entered(t, "cleaning", h)
    BY <2>6
  <2>. HIDE DEF h, R
  <2>8. /\ R \in Seq(Frames) /\ Stacked(parent, origin, rank, t, R)
        /\ \A x, c : In(R, Frame(x, c)) <=> \/ In(Below(t), Frame(x, c))
                                            \/ x = "cleaning" /\ c = Top(t).buf
                                            \/ x = h.at /\ c = h.buf
        /\ HasClass(R) => InClass(t) \/ h.at \in ClassAt
    BY <1>1, <1>2, <1>7, <2>5, <2>6, <2>7, EnterStack
  <2>9. h.at \notin ClassAt
    BY <1>7 DEF ClassAt
  <2>. QED BY <1>4, <1>7, <2>8, <2>9 DEF R
<1>10. T \in Seq(Frames)
  BY <1>1, <1>2, BelowFacts, AppendIn, FrameType DEF FrameAt
<1>11. /\ S \in Seq(Frames) /\ S # <<>> /\ S[Len(S)] = k /\ Stacked(parent, origin, rank, t, S)
       /\ \A x, c : In(S, Frame(x, c)) <=> \/ In(Below(t), Frame(x, c))
                                           \/ x = "cleaning" /\ c = b
                                           \/ x = "free" /\ c = b
                                           \/ x = "single" /\ c = None
       /\ HasClass(S) => InClass(t)
  <2>1. Known(parent, origin, k) /\ Above(parent, h, k) /\ k.at \notin CloseAt /\ k.at \notin ClassAt
    BY <1>7 DEF Known, BufferAt, Above, PoolAt, CloseAt, ClassAt
  <2>2. \A x, c : k = Frame(x, c) <=> x = "single" /\ c = None
    BY FrameSame
  <2>. HIDE DEF h, k, T
  <2>3. Stacked(parent, origin, rank, t, S)
    BY <1>7, <1>9, <1>10, <2>1, StackedPush
  <2>4. S \in Seq(Frames) /\ S # <<>> /\ S[Len(S)] = k
    BY <1>7, <1>9, AppendIn
  <2>5. \A f : In(S, f) <=> In(Append(T, h), f) \/ f = k
    BY <1>7, <1>9, AppendIn
  <2>6. HasClass(S) => InClass(t)
    BY <1>7, <1>9, <2>1, HasClassAppend
  <2>. QED BY <1>9, <2>2, <2>3, <2>4, <2>5, <2>6
<1>. HIDE DEF S, T, h
<1>12. /\ \A u \in Threads : u # t => \A at, c : InFrame(u, at, c)' <=> InFrame(u, at, c)
       /\ \A at, c : InFrame(t, at, c)' <=> In(S, Frame(at, c))
  BY <1>2, <1>8, FramesAfter
<1>13. \A u \in Threads : \A c \in Buffers :
         /\ InFrame(u, "cleaning", c)' <=> InFrame(u, "cleaning", c) \/ (u = t /\ c = b)
         /\ InFrame(u, "close", c)' <=> InFrame(u, "close", c)
         /\ InFrame(u, "closing", c)' <=> InFrame(u, "closing", c)
         /\ InFrame(u, "free", c)' <=> InFrame(u, "free", c) \/ (u = t /\ c = b)
         /\ InFrame(u, "reclaim", c)' <=> InFrame(u, "reclaim", c)
         /\ InFrame(u, "clean", c) => InFrame(u, "clean", c)' \/ (u = t /\ c = b)
  BY <1>3, <1>4, <1>11, <1>12
<1>14. Monitor' /\ Owners'
  <2>1. S[Len(S)].at \in BufferAt \cup {"single"} /\ S[Len(S)].at # "free" /\ got'[t] = got[t]
    BY <1>7, <1>8, <1>11
  <2>. QED BY <1>2, <1>8, <1>11, <2>1, BufferMonitor
<1>15. Shape(rank)'
  BY <1>2, <1>8, <1>11, BufferShape DEF TypeOK
<1>16. Cleans'
  <2>1. \A u, v \in Threads : \A c \in Buffers :
          InFrame(u, "cleaning", c)' /\ InFrame(v, "cleaning", c)' => u = v
    BY <1>2, <1>5, <1>13 DEF Cleans, Busy
  <2>2. \A u \in Threads : \A c \in Buffers : InFrame(u, "cleaning", c)' => resource'[c]
    BY <1>2, <1>5, <1>13 DEF Cleans
  <2>3. ASSUME NEW c \in Buffers, frees'[c] # <<>>
        PROVE  /\ Len(frees'[c]) = 1
               /\ ~resource'[c] \/ \E u \in Threads : /\ InFrame(u, "cleaning", c)'
                                                      /\ ~InFrame(u, "free", c)'
    <3>1. c # b /\ frees[c] # <<>>
      BY <1>2, <1>6, <2>3
    <3>. QED BY <1>2, <1>13, <3>1 DEF Cleans
  <2>4. \A c \in Buffers : InFrame("cleaner", "reclaim", c)' =>
          ~resource'[c] \/ InFrame("cleaner", "clean", c)' \/ InFrame("cleaner", "cleaning", c)'
    BY <1>2, <1>13 DEF Cleans
  <2>5. LeaksTracked'
    BY <1>2 DEF Cleans, LeaksTracked
  <2>. QED BY <2>1, <2>2, <2>3, <2>4, <2>5 DEF Cleans
<1>17. Counts'
  <2>1. \A c \in Buffers : Busy(c)' <=> Busy(c) \/ c = b
    BY <1>13 DEF Busy
  <2>2. \A c \in Buffers : Slices(c)' = Slices(c) /\ Closes(c)' = Closes(c)
    <3>1. \A c \in Buffers : parent[b] # c
      BY <1>5, JavaAssumption
    <3>. QED BY <1>2, <1>13, <2>1, <3>1 DEF Slices, Closes
  <2>3. \A c \in Buffers : (Dead(c)' <=> Dead(c)) /\ (Reachable(c)' <=> Reachable(c))
    BY <1>2, <1>13, <2>2 DEF Dead, Reachable
  <2>4. \A c \in Buffers :
          refCount'[c] >= refs'[c] + Cardinality(Closes(c)') + Cardinality(Slices(c)')
    BY <1>2, <2>2 DEF Counts
  <2>5. /\ \A u \in Threads : \A c \in Buffers : InFrame(u, "closing", c)' => refCount'[c] = 0
        /\ \A c \in Buffers : closed'[c] => refCount'[c] = 0
    BY <1>2, <1>13 DEF Counts
  <2>6. /\ \A c \in collected' : ~Reachable(c)'
        /\ \A c \in Buffers : InFrame("cleaner", "reclaim", c)' => c \in collected'
    BY <1>2, <1>13, <2>3 DEF Counts, TypeOK
  <2>7. jvm' = "running" => /\ stack'["hook"] = <<>>
                            /\ \A c \in Buffers : Used(c)' /\ ~resource'[c] => Dead(c)'
    <3>1. jvm = "running" => stack'["hook"] = <<>>
      <4>1. jvm = "running" => stack["hook"] = <<>> /\ t # "hook" /\ "hook" \in Threads
        BY <1>1, <1>2, ThreadsAre DEF Counts
      <4>. QED BY <1>2, <1>8, <4>1, AfterMove
    <3>. QED BY <1>2, <2>3, <3>1 DEF Counts, Used, jvmVars
  <2>. QED BY <2>4, <2>5, <2>6, <2>7 DEF Counts
<1>. QED BY <1>14, <1>15, <1>16, <1>17 DEF Good

\* Any clean: of nothing, of a slice, of a buffer with memory.
LEMMA CleanStep ==
  ASSUME NEW rank \in [Buffers -> Nat], Good(rank), NEW t \in Threads, Clean(t)
  PROVE  Good(rank)'
<1>. USE DEF Clean
<1>1. CASE ~resource[Top(t).buf]
  BY <1>1, CleanNothing
<1>2. CASE resource[Top(t).buf] /\ parent[Top(t).buf] # None
  BY <1>2, CleanSlice
<1>3. CASE resource[Top(t).buf] /\ parent[Top(t).buf] = None
  BY <1>3, CleanRoot
<1>. QED BY <1>1, <1>2, <1>3

\* The cleaner is marked as clean whatever happened.
LEMMA CleaningStep ==
  ASSUME NEW rank \in [Buffers -> Nat], Good(rank), NEW t \in Threads, Cleaning(t)
  PROVE  Good(rank)'
<1>1. /\ stack[t] # <<>> /\ Top(t).at = "cleaning" /\ Return(t, ret[t])
      /\ resource' = [resource EXCEPT ![Top(t).buf] = FALSE]
      /\ all' = IF ret[t] = "throw" THEN all ELSE all \ {Top(t).buf}
      /\ UNCHANGED <<parent, origin, refCount, closed, refs, collected, frees, poolVars, jvmVars>>
  BY DEF Cleaning, At
<1>2. /\ Shape(rank) /\ Cleans /\ Counts /\ Monitor /\ Owners /\ TypeOK
      /\ "cleaner" \in Threads /\ Top(t).at \in BufferAt /\ Top(t).at \in CloseAt
      /\ ret[t] \in {"ok", "throw", "clean"}
  BY <1>1, ThreadsAre DEF Good, Shape, TypeOK, BufferAt, CloseAt
<1>3. /\ Known(parent, origin, Top(t)) /\ Top(t).buf \in Buffers
      /\ \A at, c : InFrame(t, at, c) <=>
           In(Below(t), Frame(at, c)) \/ (at = "cleaning" /\ c = Top(t).buf)
      /\ ~In(Below(t), Frame("cleaning", Top(t).buf))
  BY <1>1, <1>2, BelowFacts, FramesBelow, NotAgain DEF Known
<1>4. PICK b \in Buffers : b = Top(t).buf
  BY <1>3
<1>5. /\ Moved(t, Below(t)) /\ Stacked(parent, origin, rank, t, Below(t)) /\ Monitor' /\ Owners'
      /\ \A u \in Threads : \A at, c : InFrame(u, at, c)' => InFrame(u, at, c)
      /\ \A u \in Threads : \A at, c : InFrame(u, at, c) =>
           InFrame(u, at, c)' \/ (u = t /\ at = "cleaning" /\ c = b)
      /\ \A at, c : InFrame(t, at, c)' <=> In(Below(t), Frame(at, c))
      /\ jvm = "running" => stack'["hook"] = <<>>
  BY <1>1, <1>2, <1>4, BufferReturn
<1>6. /\ resource' \in [Buffers -> BOOLEAN] /\ ~resource'[b]
      /\ \A c \in Buffers : c # b => resource'[c] = resource[c]
      /\ all' \subseteq all /\ \A c \in all : c \in all' \/ c = b
  BY <1>1, <1>2, <1>4 DEF TypeOK
<1>7. Shape(rank)'
  <2>1. \A c \in Buffers : resource'[c] => resource[c]
    BY <1>6
  <2>2. /\ refCount' \in [Buffers -> Nat] /\ closed' \in [Buffers -> BOOLEAN] /\ closed' = closed
    BY <1>1, <1>2 DEF TypeOK
  <2>. QED BY <1>1, <1>2, <1>5, <1>6, <2>1, <2>2, BufferShape
<1>8. /\ \A u \in Threads : \A c \in Buffers :
           /\ InFrame(u, "cleaning", c)' <=> InFrame(u, "cleaning", c) /\ ~(u = t /\ c = b)
           /\ InFrame(u, "close", c)' <=> InFrame(u, "close", c)
           /\ InFrame(u, "closing", c)' <=> InFrame(u, "closing", c)
           /\ InFrame(u, "free", c)' <=> InFrame(u, "free", c)
           /\ InFrame(u, "reclaim", c)' <=> InFrame(u, "reclaim", c)
           /\ InFrame(u, "clean", c) => InFrame(u, "clean", c)'
  BY <1>3, <1>4, <1>5
<1>9. InFrame(t, "cleaning", b) /\ \A u \in Threads : InFrame(u, "cleaning", b) => u = t
  <2>1. InFrame(t, "cleaning", b)
    BY <1>3, <1>4
  <2>. QED BY <1>2, <2>1 DEF Cleans
<1>10. Cleans'
  <2>1. \A u, v \in Threads : \A c \in Buffers :
          InFrame(u, "cleaning", c)' /\ InFrame(v, "cleaning", c)' => u = v
    BY <1>2, <1>8 DEF Cleans
  <2>2. \A u \in Threads : \A c \in Buffers : InFrame(u, "cleaning", c)' => resource'[c]
    BY <1>2, <1>6, <1>8, <1>9 DEF Cleans
  <2>3. ASSUME NEW c \in Buffers, frees'[c] # <<>>
        PROVE  /\ Len(frees'[c]) = 1
               /\ ~resource'[c] \/ \E u \in Threads : /\ InFrame(u, "cleaning", c)'
                                                      /\ ~InFrame(u, "free", c)'
    <3>1. /\ Len(frees[c]) = 1 /\ frees' = frees
          /\ ~resource[c] \/ \E u \in Threads : /\ InFrame(u, "cleaning", c)
                                                /\ ~InFrame(u, "free", c)
      BY <1>1, <1>2, <2>3 DEF Cleans
    <3>2. CASE c = b
      BY <1>6, <3>1, <3>2
    <3>3. CASE c # b
      BY <1>6, <1>8, <3>1, <3>3
    <3>. QED BY <3>2, <3>3
  <2>4. \A c \in Buffers : InFrame("cleaner", "reclaim", c)' =>
          ~resource'[c] \/ InFrame("cleaner", "clean", c)' \/ InFrame("cleaner", "cleaning", c)'
    BY <1>2, <1>6, <1>8 DEF Cleans
  <2>5. LeaksTracked'
    BY <1>2, <1>6 DEF Cleans, LeaksTracked
  <2>. QED BY <2>1, <2>2, <2>3, <2>4, <2>5 DEF Cleans
<1>11. Counts'
  <2>1. \A c \in Buffers : c # b => (Busy(c)' <=> Busy(c))
    BY <1>8 DEF Busy
  <2>2. Busy(b)
    BY <1>9 DEF Busy
  <2>3. \A c \in Buffers : Slices(c)' = Slices(c) /\ Closes(c)' = Closes(c)
    BY <1>1, <1>6, <1>8, <2>1, <2>2 DEF Slices, Closes
  <2>4. \A c \in Buffers : Dead(c)' <=> Dead(c)
    BY <1>1, <2>3 DEF Dead
  <2>5. \A s \in Buffers : resource'[s] => resource[s]
    BY <1>6
  <2>6. \A c \in Buffers : Reachable(c)' => Reachable(c)
    BY <1>1, <1>8, <2>5 DEF Reachable
  <2>7. \A c \in Buffers :
          refCount'[c] >= refs'[c] + Cardinality(Closes(c)') + Cardinality(Slices(c)')
    BY <1>1, <1>2, <2>3 DEF Counts
  <2>8. /\ \A u \in Threads : \A c \in Buffers : InFrame(u, "closing", c)' => refCount'[c] = 0
        /\ \A c \in Buffers : closed'[c] => refCount'[c] = 0
    BY <1>1, <1>2, <1>8 DEF Counts
  <2>9. /\ \A c \in collected' : ~Reachable(c)'
        /\ \A c \in Buffers : InFrame("cleaner", "reclaim", c)' => c \in collected'
    BY <1>1, <1>2, <1>8, <2>6 DEF Counts, TypeOK
  <2>10. jvm' = "running" => /\ stack'["hook"] = <<>>
                             /\ \A c \in Buffers : Used(c)' /\ ~resource'[c] => Dead(c)'
    <3>1. jvm = "running" => Dead(b)
      BY <1>2, <1>9, CleaningIsDead
    <3>. QED BY <1>1, <1>2, <1>5, <1>6, <2>4, <3>1 DEF Counts, Used, jvmVars
  <2>. QED BY <2>7, <2>8, <2>9, <2>10 DEF Counts
<1>. QED BY <1>5, <1>7, <1>10, <1>11 DEF Good

----------------------------------------------------------------------------
(* The cleaner thread.                                                     *)

\* What the garbage collector has found is cleaned ...
LEMMA DequeueStep ==
  ASSUME NEW rank \in [Buffers -> Nat], Good(rank), NEW b \in Buffers, Dequeue(b)
  PROVE  Good(rank)'
<1>. DEFINE f == Frame("reclaim", b)
            h == Frame("clean", b)
            S == <<f, h>>
            t == "cleaner"
<1>1. /\ stack[t] = <<>> /\ b \in collected /\ stack' = [stack EXCEPT ![t] = S]
      /\ UNCHANGED <<bufferVars, poolVars, ret, got, jvmVars>>
  BY DEF Dequeue
<1>2. /\ Shape(rank) /\ Cleans /\ Counts /\ Monitor /\ Owners /\ TypeOK /\ Traceless
      /\ t \in Threads /\ "hook" \in Threads /\ t # "hook"
      /\ UNCHANGED <<parent, origin, refCount, closed, resource, refs, all, collected, frees>>
  BY <1>1, ThreadsAre DEF Good, Shape, bufferVars
<1>3. /\ f \in Frames /\ f.at = "reclaim" /\ f.buf = b
      /\ h \in Frames /\ h.at = "clean" /\ h.buf = b
  BY FrameType DEF FrameAt
<1>4. t = "cleaner"
  OBVIOUS
<1>5. /\ \A x, c : Frame(x, c) = f <=> x = "reclaim" /\ c = b
      /\ \A x, c : Frame(x, c) = h <=> x = "clean" /\ c = b
  BY FrameSame
<1>. HIDE DEF f, h, t
<1>6. S \in Seq(Frames) /\ Append(<<>>, f) \in Seq(Frames) /\ S = Append(Append(<<>>, f), h)
      /\ <<>> \in Seq(Frames)
  BY <1>3, TwoFrames, EmptySeq
<1>. HIDE DEF S
<1>7. \A x, c : In(S, Frame(x, c)) <=> (x = "reclaim" /\ c = b) \/ (x = "clean" /\ c = b)
  <2>1. \A g : In(S, g) <=> In(Append(<<>>, f), g) \/ g = h
    BY <1>3, <1>6, AppendIn
  <2>2. \A g : In(Append(<<>>, f), g) <=> In(<<>>, g) \/ g = f
    BY <1>3, <1>6, AppendIn
  <2>. QED BY <1>5, <2>1, <2>2, EmptyIn
<1>8. Used(b)
  BY <1>1, <1>2 DEF Traceless
<1>9. Stacked(parent, origin, rank, t, S) /\ ~HasClass(S) /\ S # <<>> /\ S[Len(S)] = h
  <2>1. /\ Known(parent, origin, f) /\ Known(parent, origin, h) /\ Bottom(t, f)
        /\ Above(parent, f, h)
    BY <1>3, <1>4, <1>8 DEF Known, Used, Bottom, Above
  <2>2. Stacked(parent, origin, rank, t, Append(<<>>, f))
    BY <1>3, <2>1, StackedFirst
  <2>3. \A g \in Frames : In(Append(<<>>, f), g) => g = f
    BY <1>3, <1>6, AppendIn, EmptyIn
  <2>4. Lower(rank, f, h)
    BY <1>3 DEF Lower
  <2>5. Append(<<>>, f) # <<>> /\ Append(<<>>, f)[Len(Append(<<>>, f))] = f
    BY <1>3, <1>6, AppendIn
  <2>6. Stacked(parent, origin, rank, t, S)
    <3>. DEFINE a == Append(<<>>, f)
    <3>1. /\ a \in Seq(Frames) /\ S = Append(a, h) /\ Stacked(parent, origin, rank, t, a)
          /\ a # <<>> /\ Above(parent, a[Len(a)], h) /\ Known(parent, origin, h)
          /\ \A g \in Frames : In(a, g) => Lower(rank, g, h)
      BY <1>6, <2>1, <2>2, <2>3, <2>4, <2>5
    <3>. HIDE DEF a
    <3>. QED BY <1>3, <3>1, StackedAppend
  <2>7. ~HasClass(<<>>)
    BY EmptyIn DEF HasClass
  <2>8. ~HasClass(S)
    BY <1>3, <1>6, <2>7, HasClassAppend DEF ClassAt
  <2>. QED BY <1>3, <1>6, <2>6, <2>8, AppendIn
<1>10. Moved(t, S)
  BY <1>1, <1>2, <1>6 DEF Moved, TypeOK
<1>11. /\ \A u \in Threads : u # t => \A at, c : InFrame(u, at, c)' <=> InFrame(u, at, c)
       /\ \A at, c : InFrame(t, at, c)' <=> In(S, Frame(at, c))
  BY <1>2, <1>10, FramesAfter
<1>12. \A at, c : ~InFrame(t, at, c)
  BY <1>1, InFrameIs, EmptyIn
<1>13. \A u \in Threads : \A c \in Buffers :
         /\ InFrame(u, "cleaning", c)' <=> InFrame(u, "cleaning", c)
         /\ InFrame(u, "close", c)' <=> InFrame(u, "close", c)
         /\ InFrame(u, "closing", c)' <=> InFrame(u, "closing", c)
         /\ InFrame(u, "free", c)' <=> InFrame(u, "free", c)
  BY <1>7, <1>11, <1>12
<1>14. \A c \in Buffers : /\ InFrame("cleaner", "reclaim", c)' <=> c = b
                          /\ InFrame("cleaner", "clean", c)' <=> c = b
  BY <1>4, <1>7, <1>11
<1>15. Shape(rank)'
  BY <1>1, <1>2, <1>9, <1>10, BufferShape DEF TypeOK
<1>16. Cleans'
  BY <1>2, <1>13, <1>14 DEF Cleans, LeaksTracked
<1>17. Monitor' /\ Owners'
  <2>1. S[Len(S)].at \in BufferAt \cup {"single"} /\ S[Len(S)].at # "free" /\ got'[t] = got[t]
    BY <1>1, <1>3, <1>9 DEF BufferAt
  <2>. QED BY <1>1, <1>2, <1>9, <1>10, <2>1, BufferMonitor
<1>18. Counts'
  <2>1. \A c \in Buffers : Slices(c)' = Slices(c) /\ Closes(c)' = Closes(c)
    BY <1>2, <1>13 DEF Slices, Busy, Closes
  <2>2. \A c \in Buffers : (Dead(c)' <=> Dead(c)) /\ (Reachable(c)' <=> Reachable(c))
    BY <1>2, <1>13, <2>1 DEF Dead, Reachable
  <2>3. \A c \in Buffers :
          refCount'[c] >= refs'[c] + Cardinality(Closes(c)') + Cardinality(Slices(c)')
    BY <1>2, <2>1 DEF Counts
  <2>4. /\ \A u \in Threads : \A c \in Buffers : InFrame(u, "closing", c)' => refCount'[c] = 0
        /\ \A c \in Buffers : closed'[c] => refCount'[c] = 0
    BY <1>2, <1>13 DEF Counts
  <2>5. /\ \A c \in collected' : ~Reachable(c)'
        /\ \A c \in Buffers : InFrame("cleaner", "reclaim", c)' => c \in collected'
    BY <1>1, <1>2, <1>14, <2>2 DEF Counts, TypeOK
  <2>6. stack'["hook"] = stack["hook"]
    BY <1>2, <1>10, AfterMove
  <2>7. jvm' = "running" => /\ stack'["hook"] = <<>>
                            /\ \A c \in Buffers : Used(c)' /\ ~resource'[c] => Dead(c)'
    BY <1>1, <1>2, <2>2, <2>6 DEF Counts, Used, jvmVars
  <2>. QED BY <2>3, <2>4, <2>5, <2>7 DEF Counts
<1>. QED BY <1>15, <1>16, <1>17, <1>18 DEF Good

\* ... and forgotten, being clean by then.
LEMMA ReclaimedStep ==
  ASSUME NEW rank \in [Buffers -> Nat], Good(rank), Reclaimed
  PROVE  Good(rank)'
<1>. DEFINE t == "cleaner"
            r == IF ret[t] = "throw" THEN "throw" ELSE "ok"
<1>1. /\ stack[t] # <<>> /\ Top(t).at = "reclaim" /\ Return(t, r)
      /\ all' = all \ {Top(t).buf} /\ collected' = collected \ {Top(t).buf}
      /\ UNCHANGED <<parent, origin, refCount, closed, resource, refs, frees, poolVars, jvmVars>>
  BY DEF Reclaimed, At
<1>2. /\ Shape(rank) /\ Cleans /\ Counts /\ Monitor /\ Owners /\ TypeOK
      /\ t \in Threads /\ Top(t).at \in BufferAt /\ r \in {"ok", "throw", "clean"}
  BY <1>1, ThreadsAre DEF Good, Shape, BufferAt
<1>3. t = "cleaner"
  OBVIOUS
<1>. HIDE DEF t, r
<1>4. /\ Top(t).buf \in Buffers /\ Below(t) = <<>>
      /\ \A at, c : InFrame(t, at, c) <=>
           In(Below(t), Frame(at, c)) \/ (at = "reclaim" /\ c = Top(t).buf)
  BY <1>1, <1>2, BelowFacts, FramesBelow, AloneBelow DEF Known
<1>5. PICK b \in Buffers : b = Top(t).buf
  BY <1>4
<1>6. \A at, c : InFrame(t, at, c) <=> at = "reclaim" /\ c = b
  BY <1>4, <1>5, EmptyIn
<1>7. ~resource[b]
  BY <1>2, <1>3, <1>6 DEF Cleans
<1>8. /\ Moved(t, Below(t)) /\ Stacked(parent, origin, rank, t, Below(t)) /\ Monitor' /\ Owners'
      /\ \A u \in Threads : \A at, c : InFrame(u, at, c)' => InFrame(u, at, c)
      /\ \A u \in Threads : \A at, c : InFrame(u, at, c) =>
           InFrame(u, at, c)' \/ (u = t /\ at = "reclaim" /\ c = b)
      /\ \A at, c : InFrame(t, at, c)' <=> In(Below(t), Frame(at, c))
      /\ jvm = "running" => stack'["hook"] = <<>>
  BY <1>1, <1>2, <1>5, BufferReturn
<1>9. \A u \in Threads : \A c \in Buffers :
        /\ InFrame(u, "cleaning", c)' <=> InFrame(u, "cleaning", c)
        /\ InFrame(u, "close", c)' <=> InFrame(u, "close", c)
        /\ InFrame(u, "closing", c)' <=> InFrame(u, "closing", c)
        /\ InFrame(u, "free", c)' <=> InFrame(u, "free", c)
  BY <1>8
<1>10. \A c \in Buffers : ~InFrame("cleaner", "reclaim", c)'
  BY <1>3, <1>4, <1>8, EmptyIn
<1>11. Shape(rank)'
  BY <1>1, <1>2, <1>8, BufferShape DEF TypeOK
<1>12. Cleans'
  <2>1. \A u, v \in Threads : \A c \in Buffers :
          InFrame(u, "cleaning", c)' /\ InFrame(v, "cleaning", c)' => u = v
    BY <1>2, <1>9 DEF Cleans
  <2>2. \A u \in Threads : \A c \in Buffers : InFrame(u, "cleaning", c)' => resource'[c]
    BY <1>1, <1>2, <1>9 DEF Cleans
  <2>3. \A c \in Buffers : frees'[c] # <<>> =>
          /\ Len(frees'[c]) = 1
          /\ ~resource'[c] \/ \E u \in Threads : /\ InFrame(u, "cleaning", c)'
                                                 /\ ~InFrame(u, "free", c)'
    BY <1>1, <1>2, <1>9 DEF Cleans
  <2>4. LeaksTracked'
    BY <1>1, <1>2, <1>5, <1>7 DEF Cleans, LeaksTracked
  <2>. QED BY <1>10, <2>1, <2>2, <2>3, <2>4 DEF Cleans
<1>13. Counts'
  <2>1. \A c \in Buffers : Slices(c)' = Slices(c) /\ Closes(c)' = Closes(c)
    BY <1>1, <1>9 DEF Slices, Busy, Closes
  <2>2. \A c \in Buffers : (Dead(c)' <=> Dead(c)) /\ (Reachable(c)' <=> Reachable(c))
    BY <1>1, <1>9, <2>1 DEF Dead, Reachable
  <2>3. \A c \in Buffers :
          refCount'[c] >= refs'[c] + Cardinality(Closes(c)') + Cardinality(Slices(c)')
    BY <1>1, <1>2, <2>1 DEF Counts
  <2>4. /\ \A u \in Threads : \A c \in Buffers : InFrame(u, "closing", c)' => refCount'[c] = 0
        /\ \A c \in Buffers : closed'[c] => refCount'[c] = 0
    BY <1>1, <1>2, <1>9 DEF Counts
  <2>5. \A c \in collected' : ~Reachable(c)'
    BY <1>1, <1>2, <2>2 DEF Counts, TypeOK
  <2>6. jvm' = "running" => /\ stack'["hook"] = <<>>
                            /\ \A c \in Buffers : Used(c)' /\ ~resource'[c] => Dead(c)'
    BY <1>1, <1>2, <1>8, <2>2 DEF Counts, Used, jvmVars
  <2>. QED BY <1>10, <2>3, <2>4, <2>5, <2>6 DEF Counts
<1>. QED BY <1>8, <1>11, <1>12, <1>13 DEF Good

----------------------------------------------------------------------------
(* Freeing.                                                                *)

\* The memory goes to the pool that was looked up, and to none if there is none.
LEMMA FreeStep ==
  ASSUME NEW rank \in [Buffers -> Nat], Good(rank), NEW t \in Threads, Free(t)
  PROVE  Good(rank)'
<1>1. /\ stack[t] # <<>> /\ Top(t).at = "free" /\ At(t, "free")
      /\ \/ /\ got[t] # None /\ frees' = [frees EXCEPT ![Top(t).buf] = Append(@, got[t])]
            /\ Return(t, "ok")
         \/ Return(t, "throw") /\ UNCHANGED frees
      /\ UNCHANGED <<parent, origin, refCount, closed, resource, refs, all, collected, poolVars,
                     jvmVars>>
  BY DEF Free, At
<1>2. /\ Shape(rank) /\ Cleans /\ Counts /\ Monitor /\ Owners /\ TypeOK /\ Traceless
      /\ frees \in [Buffers -> Seq(Pools)]
      /\ "cleaner" \in Threads /\ Top(t).at \in BufferAt /\ got[t] \in Pools \cup {None}
  BY <1>1, ThreadsAre DEF Good, Shape, BufferAt, TypeOK
<1>3. /\ Top(t).buf \in Buffers /\ origin[Top(t).buf] \in Pools
      /\ Below(t) # <<>> /\ Below(t)[Len(Below(t))] = Frame("cleaning", Top(t).buf)
      /\ \A c \in Buffers : ~In(Below(t), Frame("free", c))
      /\ \A at, c : InFrame(t, at, c) <=>
           In(Below(t), Frame(at, c)) \/ (at = "free" /\ c = Top(t).buf)
      /\ Below(t) \in Seq(Frames)
  BY <1>1, <1>2, FreeFacts, BelowFacts, FramesBelow, NotAgain
<1>4. PICK b \in Buffers : b = Top(t).buf
  BY <1>3
<1>5. InFrame(t, "cleaning", b) /\ InFrame(t, "free", b)
  <2>1. In(Below(t), Frame("cleaning", b))
    BY <1>3, <1>4, LastIs
  <2>. QED BY <1>3, <1>4, <2>1
<1>6. resource[b] /\ \A u \in Threads : InFrame(u, "cleaning", b) => u = t
  BY <1>2, <1>5 DEF Cleans
<1>7. frees[b] = <<>>
  BY <1>2, <1>5, <1>6 DEF Cleans
<1>8. /\ Moved(t, Below(t)) /\ Stacked(parent, origin, rank, t, Below(t)) /\ Monitor'
      /\ got'[t] = None
      /\ Owners /\ UNCHANGED <<origin, frees, poolVars>> => Monitor' /\ Owners'
      /\ \A u \in Threads : \A at, c : InFrame(u, at, c)' => InFrame(u, at, c)
      /\ \A u \in Threads : \A at, c : InFrame(u, at, c) =>
           InFrame(u, at, c)' \/ (u = t /\ at = "free" /\ c = b)
      /\ \A at, c : InFrame(t, at, c)' <=> In(Below(t), Frame(at, c))
      /\ jvm = "running" => stack'["hook"] = <<>>
  BY <1>1, <1>2, <1>4, BufferReturn
<1>9. \A u \in Threads : \A c \in Buffers :
        /\ InFrame(u, "cleaning", c)' <=> InFrame(u, "cleaning", c)
        /\ InFrame(u, "close", c)' <=> InFrame(u, "close", c)
        /\ InFrame(u, "closing", c)' <=> InFrame(u, "closing", c)
        /\ InFrame(u, "clean", c)' <=> InFrame(u, "clean", c)
        /\ InFrame(u, "reclaim", c)' <=> InFrame(u, "reclaim", c)
        /\ InFrame(u, "free", c)' => InFrame(u, "free", c)
  BY <1>8
<1>10. /\ frees' \in [Buffers -> Seq(Pools)] /\ \A c \in Buffers : c # b => frees'[c] = frees[c]
       /\ frees'[b] = <<>> \/ (got[t] # None /\ frees'[b] = <<got[t]>>)
  <2>1. CASE UNCHANGED frees
    BY <1>2, <1>7, <2>1
  <2>2. CASE got[t] # None /\ frees' = [frees EXCEPT ![Top(t).buf] = Append(@, got[t])]
    <3>1. got[t] \in Pools /\ frees[b] \in Seq(Pools)
      BY <1>2, <2>2
    <3>2. Append(frees[b], got[t]) = <<got[t]>> /\ <<got[t]>> \in Seq(Pools)
      BY <1>7, <3>1
    <3>3. frees' = [frees EXCEPT ![b] = <<got[t]>>]
      BY <1>4, <2>2, <3>2
    <3>. QED BY <1>2, <2>2, <3>2, <3>3
  <2>. QED BY <1>1, <2>1, <2>2
<1>11. Used(b)
  BY <1>3, <1>4, JavaAssumption DEF Used
<1>12. Shape(rank)'
  <2>1. TypeOK'
    BY <1>1, <1>2, <1>8, MovedType DEF TypeOK, poolVars, jvmVars
  <2>2. Traceless'
    BY <1>1, <1>2, <1>10, <1>11 DEF Traceless, Used
  <2>. QED BY <1>1, <1>2, <1>8, <1>10, <2>1, <2>2, ShapeMoved
<1>13. Cleans'
  <2>1. \A u, v \in Threads : \A c \in Buffers :
          InFrame(u, "cleaning", c)' /\ InFrame(v, "cleaning", c)' => u = v
    BY <1>2, <1>9 DEF Cleans
  <2>2. \A u \in Threads : \A c \in Buffers : InFrame(u, "cleaning", c)' => resource'[c]
    BY <1>1, <1>2, <1>9 DEF Cleans
  <2>3. ASSUME NEW c \in Buffers, frees'[c] # <<>>
        PROVE  /\ Len(frees'[c]) = 1
               /\ ~resource'[c] \/ \E u \in Threads : /\ InFrame(u, "cleaning", c)'
                                                      /\ ~InFrame(u, "free", c)'
    <3>1. CASE c = b
      <4>1. Len(frees'[c]) = 1
        BY <1>10, <2>3, <3>1
      <4>2. InFrame(t, "cleaning", c)' /\ ~InFrame(t, "free", c)'
        BY <1>3, <1>5, <1>8, <1>9, <3>1
      <4>. QED BY <4>1, <4>2
    <3>2. CASE c # b
      <4>1. frees[c] # <<>> /\ frees'[c] = frees[c]
        BY <1>10, <2>3, <3>2
      <4>. QED BY <1>1, <1>2, <1>9, <4>1 DEF Cleans
    <3>. QED BY <3>1, <3>2
  <2>4. \A c \in Buffers : InFrame("cleaner", "reclaim", c)' =>
          ~resource'[c] \/ InFrame("cleaner", "clean", c)' \/ InFrame("cleaner", "cleaning", c)'
    BY <1>1, <1>2, <1>9 DEF Cleans
  <2>5. LeaksTracked'
    BY <1>1, <1>2 DEF Cleans, LeaksTracked
  <2>. QED BY <2>1, <2>2, <2>3, <2>4, <2>5 DEF Cleans
<1>14. Owners'
  <2>1. /\ \A p : Owner(p)' <=> Owner(p)
        /\ UNCHANGED <<singleton_, pool, origin>>
    BY <1>1 DEF Owner, poolVars
  <2>2. \A u \in Threads : u # t => got'[u] = got[u] /\ stack'[u] = stack[u]
    BY <1>2, <1>8, AfterMove
  <2>3. (singleton_ # None => Owner(singleton_))'
    BY <1>2, <2>1 DEF Owners, Owner
  <2>4. \A u \in Threads : (got[u] # None => Owner(got[u]))'
    BY <1>2, <1>8, <2>1, <2>2 DEF Owners, Owner
  <2>5. \A c \in Buffers : (origin[c] # None => Owner(origin[c]))'
    BY <1>2, <2>1 DEF Owners, Owner
  <2>6. ASSUME NEW u \in Threads PROVE FreesOwn(u)'
    <3>1. CASE u = t
      BY <1>8, <3>1 DEF FreesOwn
    <3>2. CASE u # t
      <4>1. FreesOwn(u)
        BY <1>2 DEF Owners
      <4>. QED BY <2>1, <2>2, <3>2, <4>1 DEF FreesOwn, At, Top
    <3>. QED BY <3>1, <3>2
  <2>7. ASSUME NEW c \in Buffers, frees'[c] # <<>>
        PROVE  /\ frees'[c][1] = origin'[c] \/ pool'[origin'[c]] = "released"
               /\ origin'[c] # None
    <3>1. CASE c = b
      <4>1. got[t] # None /\ frees'[c] = <<got[t]>>
        BY <1>10, <2>7, <3>1
      <4>2. FreesOwn(t)
        BY <1>2 DEF Owners
      <4>3. got[t] = origin[b] \/ pool[origin[b]] = "released"
        BY <1>1, <1>4, <4>1, <4>2 DEF FreesOwn
      <4>4. frees'[c][1] = got[t]
        BY <4>1
      <4>. QED BY <1>3, <1>4, <2>1, <3>1, <4>3, <4>4, JavaAssumption
    <3>2. CASE c # b
      <4>1. frees[c] # <<>> /\ frees'[c] = frees[c]
        BY <1>10, <2>7, <3>2
      <4>. QED BY <1>2, <2>1, <4>1 DEF Owners, OwnUnlessReleased
    <3>. QED BY <3>1, <3>2
  <2>8. OwnUnlessReleased' /\ \A c \in Buffers : frees'[c] # <<>> => origin'[c] # None
    BY <2>7 DEF OwnUnlessReleased
  <2>. QED BY <2>3, <2>4, <2>5, <2>6, <2>8 DEF Owners
<1>15. Counts'
  <2>1. \A c \in Buffers : Slices(c)' = Slices(c) /\ Closes(c)' = Closes(c)
    BY <1>1, <1>9 DEF Slices, Busy, Closes
  <2>2. \A c \in Buffers : (Dead(c)' <=> Dead(c)) /\ (Reachable(c)' <=> Reachable(c))
    BY <1>1, <1>9, <2>1 DEF Dead, Reachable
  <2>3. \A c \in Buffers :
          refCount'[c] >= refs'[c] + Cardinality(Closes(c)') + Cardinality(Slices(c)')
    BY <1>1, <1>2, <2>1 DEF Counts
  <2>4. /\ \A u \in Threads : \A c \in Buffers : InFrame(u, "closing", c)' => refCount'[c] = 0
        /\ \A c \in Buffers : closed'[c] => refCount'[c] = 0
    BY <1>1, <1>2, <1>9 DEF Counts
  <2>5. /\ \A c \in collected' : ~Reachable(c)'
        /\ \A c \in Buffers : InFrame("cleaner", "reclaim", c)' => c \in collected'
    BY <1>1, <1>2, <1>9, <2>2 DEF Counts, TypeOK
  <2>6. jvm' = "running" => /\ stack'["hook"] = <<>>
                            /\ \A c \in Buffers : Used(c)' /\ ~resource'[c] => Dead(c)'
    BY <1>1, <1>2, <1>8, <2>2 DEF Counts, Used, jvmVars
  <2>. QED BY <2>3, <2>4, <2>5, <2>6 DEF Counts
<1>. QED BY <1>8, <1>12, <1>13, <1>14, <1>15 DEF Good

----------------------------------------------------------------------------
(* New buffers.                                                            *)

\* A stack says nothing of a buffer that is not used yet.
Agree(par, org, rank, par2, org2, rank2) ==
  \A b \in Buffers : par[b] # None \/ org[b] # None =>
                       par2[b] = par[b] /\ org2[b] = org[b] /\ rank2[b] = rank[b]

\* What is known of a stack does not depend on buffers it does not name.
LEMMA StackedFresh ==
  ASSUME NEW par, NEW org, NEW rank, NEW par2, NEW org2, NEW rank2, NEW t, NEW s \in Seq(Frames),
         Stacked(par, org, rank, t, s),
         Agree(par, org, rank, par2, org2, rank2)
  PROVE  Stacked(par2, org2, rank2, t, s)
<1>1. /\ \A i \in 1 .. Len(s) - 1 : Above(par, s[i], s[i + 1])
      /\ s # <<>> => Bottom(t, s[1])
      /\ \A i \in 1 .. Len(s) : Known(par, org, s[i])
      /\ \A i, j \in 1 .. Len(s) : i < j => Lower(rank, s[i], s[j])
  BY DEF Stacked
<1>2. Len(s) \in Nat
  BY LenProperties
<1>3. ASSUME NEW f, Known(par, org, f) PROVE Known(par2, org2, f)
  BY <1>3 DEF Known, Agree
<1>4. ASSUME NEW f, NEW g, Known(par, org, f), Above(par, f, g) PROVE Above(par2, f, g)
  <2>1. f.at = "cleaning" => par2[f.buf] = par[f.buf]
    BY <1>4 DEF Known, BufferAt, Agree
  <2>. QED BY <1>4, <2>1 DEF Above
<1>5. ASSUME NEW f, NEW g, Known(par, org, f), Known(par, org, g), Lower(rank, f, g)
      PROVE  Lower(rank2, f, g)
  <2>1. ASSUME f.at = "cleaning", g.at \in CloseAt
        PROVE  rank2[f.buf] = rank[f.buf] /\ rank2[g.buf] = rank[g.buf]
    BY <1>5, <2>1 DEF Known, BufferAt, CloseAt, Agree
  <2>. QED BY <1>5, <2>1 DEF Lower
<1>6. \A i \in 1 .. Len(s) - 1 : Above(par2, s[i], s[i + 1])
  <2>1. \A i \in 1 .. Len(s) - 1 : i \in 1 .. Len(s)
    BY <1>2
  <2>. QED BY <1>1, <1>4, <2>1
<1>7. \A i \in 1 .. Len(s) : Known(par2, org2, s[i])
  BY <1>1, <1>3
<1>8. \A i, j \in 1 .. Len(s) : i < j => Lower(rank2, s[i], s[j])
  <2>. SUFFICES ASSUME NEW i \in 1 .. Len(s), NEW j \in 1 .. Len(s), i < j
                PROVE  Lower(rank2, s[i], s[j])
    OBVIOUS
  <2>1. Known(par, org, s[i]) /\ Known(par, org, s[j]) /\ Lower(rank, s[i], s[j])
    BY <1>1
  <2>. QED BY <1>5, <2>1
<1>. QED BY <1>1, <1>6, <1>7, <1>8 DEF Stacked

\* Buffer s begins to exist, as a slice of p or as a root that comes from the pool o.
Created(s, p, o) ==
  /\ parent'[s] = p /\ origin'[s] = o /\ refCount'[s] = 1 /\ refs'[s] = 1 /\ resource'[s]
  /\ all' = all \cup {s} /\ UNCHANGED <<closed, collected, frees, jvm, visited>>
  /\ \A c \in Buffers : c # s =>
       /\ parent'[c] = parent[c] /\ origin'[c] = origin[c] /\ refs'[c] = refs[c]
       /\ resource'[c] = resource[c]
       /\ refCount'[c] = IF c = p THEN refCount[c] + 1 ELSE refCount[c]

\* A new buffer, of a pool or a slice of another one, breaks nothing.
LEMMA CreatedGood ==
  ASSUME NEW rank \in [Buffers -> Nat], Shape(rank), Cleans, Counts,
         NEW s \in Buffers, ~Used(s), NEW p \in Buffers \cup {None}, NEW o \in Pools \cup {None},
         p # None \/ o # None, p # None => refs[p] > 0,
         Created(s, p, o), TypeOK', jvm = "running" => stack'["hook"] = <<>>,
         \A u \in Threads : \A at \in BufferAt : \A c \in Buffers :
           InFrame(u, at, c)' <=> InFrame(u, at, c),
         NEW rank2, rank2 = [rank EXCEPT ![s] = IF p = None THEN 0 ELSE rank[p] + 1],
         \A u \in Threads : stack'[u] \in Seq(Frames) /\ Stacked(parent, origin, rank, u, stack'[u])
  PROVE  rank2 \in [Buffers -> Nat] /\ Shape(rank2)' /\ Cleans' /\ Counts'
<1>1. /\ TypeOK /\ Ancestry(rank) /\ Traceless /\ frees \in [Buffers -> Seq(Pools)]
      /\ "cleaner" \in Threads
      /\ refs \in [Buffers -> 0 .. MaxRefs] /\ MaxRefs \in Nat /\ refCount \in [Buffers -> Nat]
  BY JavaAssumption, ThreadsAre DEF Shape, TypeOK
<1>2. /\ parent'[s] = p /\ origin'[s] = o /\ refCount'[s] = 1 /\ refs'[s] = 1 /\ resource'[s]
      /\ all' = all \cup {s} /\ UNCHANGED <<closed, collected, frees, jvm, visited>>
      /\ \A c \in Buffers : c # s =>
           /\ parent'[c] = parent[c] /\ origin'[c] = origin[c] /\ refs'[c] = refs[c]
           /\ resource'[c] = resource[c]
           /\ refCount'[c] = IF c = p THEN refCount[c] + 1 ELSE refCount[c]
  BY DEF Created
<1>3. /\ rank2 \in [Buffers -> Nat] /\ \A c \in Buffers : c # s => rank2[c] = rank[c]
      /\ p # None => p \in Buffers /\ p # s /\ Used(p) /\ rank2[p] < rank2[s]
  <2>1. p # None => p \in Buffers /\ Used(p)
    BY <1>1 DEF Traceless
  <2>2. p # None => p # s
    BY <2>1
  <2>3. CASE p = None
    <3>1. rank2 = [rank EXCEPT ![s] = 0]
      BY <2>3
    <3>. QED BY <2>3, <3>1
  <2>4. CASE p # None
    <3>1. rank2 = [rank EXCEPT ![s] = rank[p] + 1] /\ rank[p] \in Nat
      BY <2>1, <2>4
    <3>2. rank2[s] = rank[p] + 1 /\ rank2[p] = rank[p]
      BY <2>1, <2>2, <2>4, <3>1
    <3>. QED BY <2>1, <2>2, <2>4, <3>1, <3>2
  <2>. QED BY <2>3, <2>4
<1>4. /\ parent[s] = None /\ refs[s] = 0 /\ ~resource[s] /\ ~closed[s] /\ frees[s] = <<>>
      /\ s \notin all /\ s \notin collected
  BY <1>1 DEF Traceless, Used
<1>14. \A c \in Buffers : c # None
  BY JavaAssumption
<1>5. \A c \in Buffers : /\ parent[c] # s
                         /\ c # s => (Used(c)' <=> Used(c))
  <2>1. \A c \in Buffers : parent[c] # s
    BY <1>1, <1>14 DEF Ancestry
  <2>2. \A c \in Buffers : c # s => (Used(c)' <=> Used(c))
    BY <1>2 DEF Used
  <2>. QED BY <2>1, <2>2
<1>6. Used(s)'
  BY <1>2 DEF Used
<1>7. \A u \in Threads : \A at \in BufferAt : ~InFrame(u, at, s)
  <2>. SUFFICES ASSUME NEW u \in Threads, NEW at \in BufferAt, InFrame(u, at, s) PROVE FALSE
    OBVIOUS
  <2>1. stack[u] \in Seq(Frames) /\ Stacked(parent, origin, rank, u, stack[u])
    BY <1>1 DEF TypeOK, Frames, Shape
  <2>2. Frame(at, s) \in Frames /\ Frame(at, s).at = at /\ Frame(at, s).buf = s
        /\ In(stack[u], Frame(at, s))
    BY FrameType, InFrameIs DEF BufferAt, FrameAt
  <2>3. Known(parent, origin, Frame(at, s))
    BY <2>1, <2>2, StackedFrames
  <2>. QED BY <2>2, <2>3 DEF Known, Used
<1>8. Shape(rank2)'
  <2>1. Ancestry(rank2)'
    <3>1. ASSUME NEW c \in Buffers, parent'[c] # None
          PROVE  Used(parent[c])' /\ rank2[parent'[c]] < rank2[c]
      <4>1. CASE c = s
        <5>1. parent'[c] = p /\ p \in Buffers /\ p # s /\ Used(p) /\ rank2[p] < rank2[s]
          BY <1>2, <1>3, <3>1, <4>1
        <5>2. parent'[p] = parent[p] /\ origin'[p] = origin[p]
          BY <1>2, <5>1
        <5>. QED BY <4>1, <5>1, <5>2 DEF Used
      <4>2. CASE c # s
        <5>1. /\ parent'[c] = parent[c] /\ parent[c] \in Buffers /\ parent[c] # s
              /\ Used(parent[c]) /\ rank[parent[c]] < rank[c]
          BY <1>1, <1>2, <1>5, <3>1, <4>2 DEF Ancestry, TypeOK
        <5>2. parent'[parent[c]] = parent[parent[c]] /\ origin'[parent[c]] = origin[parent[c]]
          BY <1>2, <5>1
        <5>. QED BY <1>3, <4>2, <5>1, <5>2 DEF Used
      <4>. QED BY <4>1, <4>2
    <3>. QED BY <1>3, <3>1 DEF Ancestry
  <2>2. Traceless'
    <3>1. \A c \in Buffers : ~Used(c)' => refs'[c] = 0 /\ ~resource'[c] /\ ~closed'[c]
                                          /\ frees'[c] = <<>>
      BY <1>1, <1>2, <1>5, <1>6 DEF Traceless
    <3>2. \A c \in all' \cup collected' : Used(c)'
      BY <1>1, <1>2, <1>5, <1>6 DEF Traceless, TypeOK
    <3>. QED BY <3>1, <3>2 DEF Traceless
  <2>3. ASSUME NEW u \in Threads PROVE Stacked(parent', origin', rank2, u, stack'[u])
    <3>1. Agree(parent, origin, rank, parent', origin', rank2)
      BY <1>2, <1>3 DEF Used, Agree
    <3>2. stack'[u] \in Seq(Frames) /\ Stacked(parent, origin, rank, u, stack'[u])
      OBVIOUS
    <3>. QED BY <3>1, <3>2, StackedFresh
  <2>. QED BY <1>1, <1>2, <2>1, <2>2, <2>3 DEF Shape
<1>9. \A u \in Threads : \A c \in Buffers :
        /\ InFrame(u, "cleaning", c)' <=> InFrame(u, "cleaning", c)
        /\ InFrame(u, "close", c)' <=> InFrame(u, "close", c)
        /\ InFrame(u, "closing", c)' <=> InFrame(u, "closing", c)
        /\ InFrame(u, "free", c)' <=> InFrame(u, "free", c)
        /\ InFrame(u, "clean", c)' <=> InFrame(u, "clean", c)
        /\ InFrame(u, "reclaim", c)' <=> InFrame(u, "reclaim", c)
  BY DEF BufferAt
<1>10. \A u \in Threads : /\ ~InFrame(u, "cleaning", s) /\ ~InFrame(u, "close", s)
                          /\ ~InFrame(u, "closing", s) /\ ~InFrame(u, "reclaim", s)
  BY <1>7 DEF BufferAt
<1>11. Cleans'
  <2>1. \A u, v \in Threads : \A c \in Buffers :
          InFrame(u, "cleaning", c)' /\ InFrame(v, "cleaning", c)' => u = v
    BY <1>9 DEF Cleans
  <2>2. \A u \in Threads : \A c \in Buffers : InFrame(u, "cleaning", c)' => resource'[c]
    BY <1>2, <1>9 DEF Cleans
  <2>3. ASSUME NEW c \in Buffers, frees'[c] # <<>>
        PROVE  /\ Len(frees'[c]) = 1
               /\ ~resource'[c] \/ \E u \in Threads : /\ InFrame(u, "cleaning", c)'
                                                      /\ ~InFrame(u, "free", c)'
    <3>1. c # s /\ frees[c] # <<>> /\ frees'[c] = frees[c] /\ resource'[c] = resource[c]
      BY <1>2, <1>4, <2>3
    <3>. QED BY <1>9, <3>1 DEF Cleans
  <2>4. ASSUME NEW c \in Buffers, InFrame("cleaner", "reclaim", c)'
        PROVE  ~resource'[c] \/ InFrame("cleaner", "clean", c)' \/ InFrame("cleaner", "cleaning", c)'
    <3>1. c # s /\ InFrame("cleaner", "reclaim", c) /\ resource'[c] = resource[c]
      BY <1>1, <1>2, <1>9, <1>10, <2>4
    <3>. QED BY <1>1, <1>9, <3>1 DEF Cleans
  <2>5. LeaksTracked'
    BY <1>2 DEF Cleans, LeaksTracked
  <2>. QED BY <2>1, <2>2, <2>3, <2>4, <2>5 DEF Cleans
<1>12. Counts'
  <2>1. \A c \in Buffers : /\ Busy(c)' <=> Busy(c)
                           /\ Closes(c)' = Closes(c)
    BY <1>9 DEF Busy, Closes
  <2>2. Slices(s)' = {} /\ Closes(s) = {} /\ ~Busy(s)
    <3>1. \A c \in Buffers : parent'[c] # s
      BY <1>2, <1>3, <1>5, <1>14
    <3>. QED BY <1>10, <3>1 DEF Slices, Closes, Busy
  <2>3. ASSUME NEW c \in Buffers, c # s
        PROVE  Slices(c)' = IF c = p THEN Slices(c) \cup {s} ELSE Slices(c)
    BY <1>2, <1>4, <2>1, <2>2, <2>3 DEF Slices
  <2>4. p # None => ~Dead(p) /\ Reachable(p)
    BY <1>1, <1>3 DEF Dead, Reachable
  <2>5. ASSUME NEW c \in Buffers, c # s, c # p
        PROVE  (Dead(c) => Dead(c)') /\ (Reachable(c)' => Reachable(c))
    <3>1. Dead(c) => Dead(c)'
      BY <1>2, <2>1, <2>3, <2>5 DEF Dead
    <3>2. Reachable(c)' => Reachable(c)
      BY <1>2, <1>9, <2>5 DEF Reachable
    <3>. QED BY <3>1, <3>2
  <2>6. ASSUME NEW c \in Buffers
        PROVE  refCount'[c] >= refs'[c] + Cardinality(Closes(c)') + Cardinality(Slices(c)')
    <3>1. /\ refCount[c] >= refs[c] + Cardinality(Closes(c)) + Cardinality(Slices(c))
          /\ Cardinality(Closes(c)) \in Nat /\ Cardinality(Slices(c)) \in Nat
          /\ IsFiniteSet(Slices(c))
      BY CountsFinite DEF Counts
    <3>2. refCount[c] \in Nat /\ refs[c] \in Nat
      BY JavaAssumption DEF Shape, TypeOK
    <3>3. CASE c = s
      <4>1. Cardinality(Closes(c)') = 0 /\ Cardinality(Slices(c)') = 0
        BY <2>1, <2>2, <3>3, FS_EmptySet
      <4>. QED BY <1>2, <3>3, <4>1
    <3>4. CASE c # s /\ c = p
      <4>. DEFINE C == Slices(c)
                  D == Slices(c)'
      <4>1. D = C \cup {s} /\ IsFiniteSet(C) /\ Cardinality(C) \in Nat
        BY <2>3, <3>1, <3>4
      <4>. HIDE DEF C, D
      <4>2. IsFiniteSet(D) /\ Cardinality(D) \in Nat
        BY <4>1, FS_AddElement, FS_CardinalityType
      <4>3. Cardinality(C \cup {s}) = IF s \in C THEN Cardinality(C) ELSE Cardinality(C) + 1
        BY <4>1, FS_AddElement
      <4>4. Cardinality(D) <= Cardinality(C) + 1
        BY <4>1, <4>2, <4>3
      <4>5. refCount'[c] = refCount[c] + 1 /\ refs'[c] = refs[c] /\ Closes(c)' = Closes(c)
        BY <1>2, <2>1, <3>4
      <4>. QED BY <3>1, <3>2, <4>2, <4>4, <4>5 DEF C, D
    <3>5. CASE c # s /\ c # p
      <4>1. refCount'[c] = refCount[c] /\ refs'[c] = refs[c] /\ Closes(c)' = Closes(c)
            /\ Slices(c)' = Slices(c)
        BY <1>2, <2>1, <2>3, <3>5
      <4>. QED BY <3>1, <4>1
    <3>. QED BY <3>3, <3>4, <3>5
  <2>7. ASSUME NEW c \in Buffers, closed'[c] \/ \E u \in Threads : InFrame(u, "closing", c)'
        PROVE  refCount'[c] = 0
    <3>1. refCount[c] = 0 /\ c # s
      BY <1>2, <1>4, <1>9, <1>10, <2>7 DEF Counts
    <3>2. c # p
      BY <1>1, <1>14, <2>4, <3>1, ZeroIsDead
    <3>. QED BY <1>2, <3>1, <3>2
  <2>8. /\ \A c \in collected' : ~Reachable(c)'
        /\ \A c \in Buffers : InFrame("cleaner", "reclaim", c)' => c \in collected'
    <3>1. ASSUME NEW c \in collected PROVE ~Reachable(c)'
      <4>1. c \in Buffers /\ c # s /\ ~Reachable(c)
        BY <1>1, <1>2, <1>4, <3>1 DEF TypeOK, Counts
      <4>2. c # p
        BY <1>14, <2>4, <4>1
      <4>. QED BY <2>5, <4>1, <4>2
    <3>. QED BY <1>1, <1>2, <1>9, <3>1 DEF Counts
  <2>9. ASSUME jvm' = "running"
        PROVE  stack'["hook"] = <<>> /\ \A c \in Buffers : Used(c)' /\ ~resource'[c] => Dead(c)'
    <3>1. ASSUME NEW c \in Buffers, Used(c)', ~resource'[c] PROVE Dead(c)'
      <4>1. c # s
        BY <1>2, <3>1
      <4>2. Dead(c)
        BY <1>2, <1>5, <2>9, <3>1, <4>1 DEF Counts
      <4>3. c # p
        BY <1>14, <2>4, <4>1, <4>2
      <4>. QED BY <2>5, <4>1, <4>2, <4>3
    <3>. QED BY <1>2, <2>9, <3>1
  <2>. QED BY <2>6, <2>7, <2>8, <2>9 DEF Counts
<1>. QED BY <1>3, <1>8, <1>11, <1>12

\* slice: the new buffer holds a reference to the one it is a slice of.
LEMMA SliceStep ==
  ASSUME NEW rank \in [Buffers -> Nat], Good(rank), NEW t \in Users, NEW b \in Buffers,
         NEW s \in Buffers, Slice(t, b, s)
  PROVE  Inv'
<1>1. /\ refs[b] > 0 /\ s \in Fresh /\ calls < MaxCalls /\ calls' = calls + 1
      /\ refCount' = [refCount EXCEPT ![b] = @ + 1, ![s] = 1]
      /\ parent' = [parent EXCEPT ![s] = b] /\ resource' = [resource EXCEPT ![s] = TRUE]
      /\ refs' = [refs EXCEPT ![s] = 1] /\ all' = all \cup {s}
      /\ UNCHANGED <<origin, closed, collected, frees, poolVars, stack, ret, got, jvm, visited>>
  BY DEF Slice, Call
<1>2. /\ Shape(rank) /\ Cleans /\ Counts /\ Monitor /\ Owners /\ TypeOK /\ StacksKept
      /\ Traceless
  BY <1>1 DEF Good, Shape, StacksKept
<1>3. /\ ~Used(s) /\ s # b /\ parent[s] = None /\ origin[s] = None
  <2>1. ~Used(s) /\ parent[s] = None /\ origin[s] = None
    BY <1>1 DEF Fresh, Unused, Used
  <2>2. Used(b)
    BY <1>1, <1>2 DEF Traceless
  <2>. QED BY <2>1, <2>2
<1>4. /\ refCount \in [Buffers -> Nat] /\ refs \in [Buffers -> 0 .. MaxRefs]
      /\ MaxRefs \in Nat /\ MaxRefs # 0 /\ MaxCalls \in Nat /\ calls \in 0 .. MaxCalls
      /\ parent \in [Buffers -> Buffers \cup {None}] /\ resource \in [Buffers -> BOOLEAN]
      /\ all \subseteq Buffers
  BY <1>2, JavaAssumption DEF TypeOK
<1>5. TypeOK'
  <2>1. /\ refCount' \in [Buffers -> Nat] /\ refs' \in [Buffers -> 0 .. MaxRefs]
        /\ calls' \in 0 .. MaxCalls /\ parent' \in [Buffers -> Buffers \cup {None}]
        /\ resource' \in [Buffers -> BOOLEAN] /\ all' \subseteq Buffers
    <3>1. 1 \in 0 .. MaxRefs /\ calls + 1 \in 0 .. MaxCalls
      BY <1>1, <1>4
    <3>2. refCount[b] + 1 \in Nat
      BY <1>4
    <3>. QED BY <1>1, <1>4, <3>1, <3>2
  <2>. QED BY <1>1, <1>2, <2>1 DEF TypeOK, poolVars
<1>6. Created(s, b, None)
  <2>1. ASSUME NEW c \in Buffers, c # s
        PROVE  /\ parent'[c] = parent[c] /\ origin'[c] = origin[c] /\ refs'[c] = refs[c]
               /\ resource'[c] = resource[c]
               /\ refCount'[c] = IF c = b THEN refCount[c] + 1 ELSE refCount[c]
    BY <1>1, <1>4, <2>1
  <2>2. /\ parent'[s] = b /\ origin'[s] = None /\ refCount'[s] = 1 /\ refs'[s] = 1 /\ resource'[s]
    BY <1>1, <1>3, <1>4
  <2>. QED BY <1>1, <2>1, <2>2 DEF Created
<1>7. \A u, at, c : InFrame(u, at, c)' <=> InFrame(u, at, c)
  BY <1>2, KeptFrames
<1>8. b # None /\ (jvm = "running" => stack'["hook"] = <<>>)
  BY <1>1, <1>2, JavaAssumption DEF Counts
<1>9. \A u \in Threads : stack'[u] \in Seq(Frames) /\ Stacked(parent, origin, rank, u, stack'[u])
  BY <1>1, <1>2 DEF Shape, TypeOK, Frames
<1>. DEFINE rank2 == [rank EXCEPT ![s] = IF b = None THEN 0 ELSE rank[b] + 1]
<1>10. rank2 = [rank EXCEPT ![s] = IF b = None THEN 0 ELSE rank[b] + 1]
  OBVIOUS
<1>. HIDE DEF rank2
<1>11. rank2 \in [Buffers -> Nat] /\ Shape(rank2)' /\ Cleans' /\ Counts'
  BY <1>1, <1>2, <1>3, <1>5, <1>6, <1>7, <1>8, <1>9, <1>10, CreatedGood
<1>12. Monitor' /\ Owners'
  BY <1>1, <1>2, KeptMonitor
<1>. QED BY <1>11, <1>12 DEF Inv, Good

\* A buffer made in a pool.
LEMMA AllocateStep ==
  ASSUME NEW rank \in [Buffers -> Nat], Good(rank), NEW t \in Threads, NEW b \in Buffers,
         Allocate(t, b)
  PROVE  Inv'
<1>1. /\ stack[t] # <<>> /\ Top(t).at = "allocate" /\ got[t] # None /\ b \in Fresh
      /\ origin' = [origin EXCEPT ![b] = got[t]] /\ refCount' = [refCount EXCEPT ![b] = 1]
      /\ resource' = [resource EXCEPT ![b] = TRUE] /\ refs' = [refs EXCEPT ![b] = 1]
      /\ all' = all \cup {b} /\ Return(t, "ok")
      /\ UNCHANGED <<parent, closed, collected, frees, poolVars, jvmVars>>
  BY DEF Allocate, At
<1>2. /\ Shape(rank) /\ Cleans /\ Counts /\ Monitor /\ Owners /\ TypeOK /\ Traceless
      /\ got[t] \in Pools
  BY <1>1 DEF Good, Shape, TypeOK
<1>3. ~Used(b) /\ parent[b] = None /\ origin[b] = None
  BY <1>1 DEF Fresh, Unused, Used
<1>4. /\ refCount \in [Buffers -> Nat] /\ refs \in [Buffers -> 0 .. MaxRefs]
      /\ MaxRefs \in Nat /\ MaxRefs # 0
      /\ origin \in [Buffers -> Pools \cup {None}] /\ resource \in [Buffers -> BOOLEAN]
      /\ parent \in [Buffers -> Buffers \cup {None}] /\ all \subseteq Buffers
  BY <1>2, JavaAssumption DEF TypeOK
<1>5. Below(t) = <<>> /\ Moved(t, <<>>) /\ got'[t] = None
  <2>1. Below(t) = <<>>
    BY <1>1, <1>2, AloneBelow
  <2>2. Moved(t, Below(t)) /\ got'[t] = None
    BY <1>1, <1>2, ReturnMoves DEF Return
  <2>. QED BY <2>1, <2>2
<1>6. TypeOK'
  <2>1. /\ refCount' \in [Buffers -> Nat] /\ refs' \in [Buffers -> 0 .. MaxRefs]
        /\ origin' \in [Buffers -> Pools \cup {None}]
        /\ resource' \in [Buffers -> BOOLEAN] /\ all' \subseteq Buffers
    <3>1. 1 \in 0 .. MaxRefs
      BY <1>4
    <3>. QED BY <1>1, <1>2, <1>4, <3>1
  <2>. QED BY <1>1, <1>2, <1>5, <2>1, MovedType DEF TypeOK, poolVars, jvmVars
<1>7. Created(b, None, got[t])
  <2>1. ASSUME NEW c \in Buffers, c # b
        PROVE  /\ parent'[c] = parent[c] /\ origin'[c] = origin[c] /\ refs'[c] = refs[c]
               /\ resource'[c] = resource[c]
               /\ refCount'[c] = IF c = None THEN refCount[c] + 1 ELSE refCount[c]
    BY <1>1, <1>4, <2>1, JavaAssumption
  <2>2. /\ parent'[b] = None /\ origin'[b] = got[t] /\ refCount'[b] = 1 /\ refs'[b] = 1
        /\ resource'[b]
    BY <1>1, <1>3, <1>4
  <2>. QED BY <1>1, <2>1, <2>2 DEF Created, jvmVars
<1>8. \A u \in Threads : u # t => /\ stack'[u] = stack[u] /\ got'[u] = got[u]
                                  /\ \A at, c : InFrame(u, at, c)' <=> InFrame(u, at, c)
  BY <1>2, <1>5, AfterMove, FramesAfter
<1>9. stack'[t] = <<>>
  BY <1>2, <1>5, AfterMove
<1>10. \A u \in Threads : \A at \in BufferAt : \A c \in Buffers :
         InFrame(u, at, c)' <=> InFrame(u, at, c)
  <2>1. \A at \in BufferAt : \A c \in Buffers : ~InFrame(t, at, c)
    <3>1. \A at, c : InFrame(t, at, c) <=>
            In(Below(t), Frame(at, c)) \/ (at = "allocate" /\ c = Top(t).buf)
      BY <1>1, <1>2, FramesBelow
    <3>. QED BY <1>5, <3>1, EmptyIn DEF BufferAt
  <2>2. \A at, c : ~InFrame(t, at, c)'
    BY <1>9 DEF InFrame
  <2>. QED BY <1>8, <2>1, <2>2
<1>11. jvm = "running" => stack'["hook"] = <<>>
  <2>1. ASSUME jvm = "running" PROVE stack["hook"] = <<>> /\ "hook" \in Threads
    BY <1>2, <2>1, ThreadsAre DEF Counts
  <2>. QED BY <1>8, <1>9, <2>1
<1>12. \A u \in Threads : stack'[u] \in Seq(Frames) /\ Stacked(parent, origin, rank, u, stack'[u])
  <2>1. \A u \in Threads : stack[u] \in Seq(Frames) /\ Stacked(parent, origin, rank, u, stack[u])
    BY <1>2 DEF Shape, TypeOK, Frames
  <2>. QED BY <1>8, <1>9, <2>1, StackedEmpty, EmptySeq
<1>. DEFINE rank2 == [rank EXCEPT ![b] = IF None = None THEN 0 ELSE rank[None] + 1]
<1>13. rank2 = [rank EXCEPT ![b] = IF None = None THEN 0 ELSE rank[None] + 1]
  OBVIOUS
<1>. HIDE DEF rank2
<1>14. got[t] # None /\ got[t] \in Pools \cup {None} /\ None \in Buffers \cup {None}
  BY <1>1, <1>2
<1>15. rank2 \in [Buffers -> Nat] /\ Shape(rank2)' /\ Cleans' /\ Counts'
  BY <1>2, <1>3, <1>6, <1>7, <1>10, <1>11, <1>12, <1>13, <1>14, CreatedGood
<1>16. Monitor'
  <2>1. ~HasClass(<<>>)
    BY EmptyIn DEF HasClass
  <2>. QED BY <1>1, <1>2, <1>5, <2>1, MonitorKept
<1>17. Owners'
  <2>1. /\ \A p : Owner(p)' <=> Owner(p)
        /\ UNCHANGED <<singleton_, pool, frees>>
    BY <1>1 DEF Owner, poolVars
  <2>2. (singleton_ # None => Owner(singleton_))'
    BY <1>2, <2>1 DEF Owners, Owner
  <2>3. \A u \in Threads : (got[u] # None => Owner(got[u]))'
    BY <1>2, <1>5, <1>8, <2>1 DEF Owners, Owner
  <2>4. ASSUME NEW c \in Buffers PROVE (origin[c] # None => Owner(origin[c]))'
    <3>1. CASE c = b
      <4>1. Owner(got[t]) /\ origin'[c] = got[t]
        BY <1>1, <1>2, <1>4, <3>1 DEF Owners
      <4>. QED BY <2>1, <4>1 DEF Owner
    <3>2. CASE c # b
      <4>1. origin'[c] = origin[c] /\ (origin[c] # None => Owner(origin[c]))
        BY <1>1, <1>2, <1>4, <3>2 DEF Owners
      <4>. QED BY <2>1, <4>1 DEF Owner
    <3>. QED BY <3>1, <3>2
  <2>5. ASSUME NEW u \in Threads PROVE FreesOwn(u)'
    <3>1. CASE u = t
      BY <1>5, <3>1 DEF FreesOwn
    <3>2. CASE u # t
      <4>1. SUFFICES ASSUME At(u, "free")', got'[u] # None
                     PROVE  got'[u] = origin'[Top(u).buf'] \/ pool'[origin'[Top(u).buf']] = "released"
        BY DEF FreesOwn
      <4>2. At(u, "free") /\ Top(u)' = Top(u) /\ got'[u] = got[u]
        BY <1>8, <3>2, <4>1 DEF At, Top
      <4>3. FreesOwn(u) /\ Top(u).buf \in Buffers /\ origin[Top(u).buf] \in Pools
        BY <1>2, <4>2, FreeFacts DEF Owners
      <4>4. Top(u).buf # b
        BY <1>3, <4>3, JavaAssumption
      <4>5. origin'[Top(u).buf] = origin[Top(u).buf]
        BY <1>1, <1>4, <4>3, <4>4
      <4>. QED BY <2>1, <4>1, <4>2, <4>3, <4>5 DEF FreesOwn
    <3>. QED BY <3>1, <3>2
  <2>6. ASSUME NEW c \in Buffers, frees'[c] # <<>>
        PROVE  /\ frees'[c][1] = origin'[c] \/ pool'[origin'[c]] = "released"
               /\ origin'[c] # None
    <3>1. frees[c] # <<>> /\ frees' = frees
      BY <2>1, <2>6
    <3>2. c # b
      BY <1>2, <1>3, <3>1 DEF Traceless
    <3>3. origin'[c] = origin[c]
      BY <1>1, <1>4, <3>2
    <3>. QED BY <1>2, <2>1, <3>1, <3>3 DEF Owners, OwnUnlessReleased
  <2>7. OwnUnlessReleased' /\ \A c \in Buffers : frees'[c] # <<>> => origin'[c] # None
    BY <2>6 DEF OwnUnlessReleased
  <2>. QED BY <2>2, <2>3, <2>4, <2>5, <2>7 DEF Owners
<1>. QED BY <1>15, <1>16, <1>17 DEF Inv, Good

----------------------------------------------------------------------------
(* The invariant.                                                          *)

\* At first there are no buffers, no calls and no pool.
LEMMA InvInit == Init => Inv
<1>. SUFFICES ASSUME Init PROVE Inv
  OBVIOUS
<1>. DEFINE rank == [b \in Buffers |-> 0]
<1>1. rank \in [Buffers -> Nat]
  OBVIOUS
<1>2. /\ \A t \in Threads : stack[t] = <<>>
      /\ \A b \in Buffers : /\ parent[b] = None /\ origin[b] = None /\ refCount[b] = 0
                            /\ refs[b] = 0 /\ ~closed[b] /\ ~resource[b] /\ frees[b] = <<>>
      /\ all = {} /\ collected = {} /\ singleton_ = None /\ initFuture = None
      /\ \A p \in Pools : pool[p] = "none"
      /\ \A t \in Threads : got[t] = None
  BY DEF Init
<1>3. \A t \in Threads : /\ \A at, b : ~InFrame(t, at, b)
                         /\ ~InClass(t) /\ \A x : ~At(t, x)
  BY <1>2 DEF InFrame, InClass, At
<1>4. TypeOK
  <2>1. 0 \in 0 .. MaxRefs /\ 0 \in 0 .. MaxCalls
    BY JavaAssumption
  <2>2. <<>> \in Seq([at : FrameAt, buf : Buffers \cup {None}])
    BY EmptySeq
  <2>. QED BY <2>1, <2>2 DEF Init, TypeOK
<1>. HIDE DEF rank
<1>5. Shape(rank)
  <2>1. frees \in [Buffers -> Seq(Pools)]
    <3>1. <<>> \in Seq(Pools)
      BY EmptySeq
    <3>. QED BY <3>1 DEF Init
  <2>2. Ancestry(rank) /\ Traceless
    BY <1>1, <1>2 DEF Ancestry, Traceless
  <2>3. \A t \in Threads : Stacked(parent, origin, rank, t, stack[t])
    BY <1>2, StackedEmpty
  <2>. QED BY <1>4, <2>1, <2>2, <2>3 DEF Shape
<1>6. Cleans
  <2>1. "cleaner" \in Threads
    BY ThreadsAre
  <2>. QED BY <1>2, <1>3, <2>1 DEF Cleans, LeaksTracked
<1>7. Counts
  <2>1. \A b \in Buffers : Closes(b) = {} /\ Slices(b) = {}
    BY <1>2, <1>3 DEF Closes, Slices
  <2>2. \A b \in Buffers : refCount[b] >= refs[b] + Cardinality(Closes(b)) + Cardinality(Slices(b))
    <3>. SUFFICES ASSUME NEW b \in Buffers
                  PROVE  refCount[b] >= refs[b] + Cardinality(Closes(b)) + Cardinality(Slices(b))
      OBVIOUS
    <3>1. Cardinality(Closes(b)) = 0
      BY <2>1, FS_EmptySet
    <3>2. Cardinality(Slices(b)) = 0
      BY <2>1, FS_EmptySet
    <3>3. refCount[b] = 0 /\ refs[b] = 0
      BY <1>2
    <3>. QED BY <3>1, <3>2, <3>3
  <2>3. "cleaner" \in Threads /\ "hook" \in Threads
    BY ThreadsAre
  <2>. QED BY <1>2, <1>3, <2>2, <2>3 DEF Counts, Used
<1>8. Monitor
  BY <1>2, <1>3 DEF Monitor, Steady, Existing
<1>9. Owners
  BY <1>2, <1>3 DEF Owners, FreesOwn, OwnUnlessReleased
<1>. QED BY <1>1, <1>5, <1>6, <1>7, <1>8, <1>9 DEF Inv, Good

\* The next step of the calls a thread is in.
LEMMA StepKeeps ==
  ASSUME NEW rank \in [Buffers -> Nat], Good(rank), NEW t \in Threads, Step(t)
  PROVE  Inv'
<1>1. Shape(rank) /\ Monitor /\ Owners
  BY DEF Good
<1>2. CASE Close(t)
  BY <1>2, CloseStep DEF Inv
<1>3. CASE Closing(t)
  BY <1>3, ClosingStep DEF Inv
<1>4. CASE Clean(t)
  BY <1>4, CleanStep DEF Inv
<1>5. CASE Cleaning(t)
  BY <1>5, CleaningStep DEF Inv
<1>6. CASE \/ Single(t) \/ Future(t) \/ Locked(t) \/ ResetFuture(t) \/ Final(t)
           \/ AllocateNothing(t) \/ Initialize(t) \/ Shutdown(t) \/ Unset(t)
  <2>1. Settled(rank, t)
    BY <1>1, <1>6, SingleStep, FutureStep, LockedStep, ResetFutureStep, FinalStep,
       AllocateNothingStep, InitializeStep, ShutdownStep, UnsetStep
  <2>. QED BY <2>1, SettledGood DEF Inv
<1>7. CASE \E b \in Buffers : Allocate(t, b)
  BY <1>7, AllocateStep
<1>8. CASE Free(t)
  BY <1>8, FreeStep DEF Inv
<1>. QED BY <1>2, <1>3, <1>4, <1>5, <1>6, <1>7, <1>8 DEF Step

\* One lemma for each action of Next.
LEMMA InvNext == Inv /\ [Next]_vars => Inv'
<1>. SUFFICES ASSUME Inv, [Next]_vars PROVE Inv'
  OBVIOUS
<1>1. PICK rank \in [Buffers -> Nat] : Good(rank)
  BY DEF Inv
<1>2. ASSUME NEW t \in Users, Application(t) PROVE Inv'
  <2>1. CASE \E b \in Buffers : IncRefCount(t, b) \/ CallClose(t, b)
    BY <1>1, <2>1, IncRefCountStep, CallCloseStep DEF Inv
  <2>2. CASE \E b, s \in Buffers : Slice(t, b, s)
    BY <1>1, <2>2, SliceStep
  <2>3. CASE CallAllocate(t) \/ CallInitialize(t) \/ CallShutdown(t)
    <3>1. Shape(rank) /\ Monitor /\ Owners /\ t \in Threads
      BY <1>1 DEF Good, Threads
    <3>2. Settled(rank, t)
      BY <2>3, <3>1, CallPoolStep
    <3>. QED BY <1>1, <3>1, <3>2, SettledGood DEF Inv
  <2>. QED BY <1>2, <2>1, <2>2, <2>3 DEF Application
<1>3. ASSUME NEW t \in Threads, Step(t) PROVE Inv'
  BY <1>1, <1>3, StepKeeps
<1>4. CASE Step("cleaner") \/ Reclaimed \/ \E b \in Buffers : Dequeue(b)
  <2>1. "cleaner" \in Threads
    BY ThreadsAre
  <2>2. ASSUME Reclaimed \/ \E b \in Buffers : Dequeue(b) PROVE Inv'
    BY <1>1, <2>2, ReclaimedStep, DequeueStep DEF Inv
  <2>. QED BY <1>3, <1>4, <2>1, <2>2
<1>5. ASSUME NEW b \in Buffers, HookClean(b) PROVE Inv'
  BY <1>1, <1>5, HookCleanStep DEF Inv
<1>6. CASE StartHook \/ \E b \in Buffers : Forget(b) \/ Collect(b)
  BY <1>1, <1>6, KeptSteps DEF Inv
<1>7. ASSUME NEW p \in Pools, PoolInit(p) PROVE Inv'
  BY <1>1, <1>7, PoolInitGood DEF Inv
<1>8. CASE UNCHANGED vars
  <2>1. /\ UNCHANGED <<parent, origin, refCount, closed, resource, all, frees, poolVars,
                       visited, calls, refs, collected, jvm>>
        /\ StacksKept
    BY <1>8 DEF vars, bufferVars, jvmVars, StacksKept
  <2>2. /\ refs' \in [Buffers -> 0 .. MaxRefs] /\ \A c \in Buffers : refs'[c] <= refs[c]
        /\ collected' \subseteq all \cup collected /\ \A c \in collected' : ~Reachable(c)
        /\ jvm' \in {"running", "exiting"}
    <3>1. /\ refs \in [Buffers -> 0 .. MaxRefs] /\ MaxRefs \in Nat
          /\ jvm \in {"running", "exiting"} /\ \A c \in collected : ~Reachable(c)
      BY <1>1, JavaAssumption DEF Good, Shape, TypeOK, Counts
    <3>. QED BY <2>1, <3>1
  <2>3. Good(rank)'
    BY <1>1, <2>1, <2>2, KeptStep
  <2>. QED BY <1>1, <2>3 DEF Inv
<1>9. ASSUME NEW t \in Users PROVE t \in Threads
  BY DEF Threads
<1>10. "hook" \in Threads
  BY ThreadsAre
<1>. QED BY <1>2, <1>3, <1>4, <1>5, <1>6, <1>7, <1>8, <1>9, <1>10 DEF Next

\* Every state of every behaviour.
LEMMA InvAlways == Spec => []Inv
<1>1. Init /\ [][Next]_vars => []Inv
  BY InvInit, InvNext, PTL
<1>. QED BY <1>1, PTL DEF Spec

----------------------------------------------------------------------------
(* What it means.                                                          *)

\* The types; in particular no reference count is ever negative, so that an
\* application that closes each reference once never gets the exception of close.
THEOREM TypeCorrect == Spec => []TypeOK
<1>1. Inv => TypeOK
  BY DEF Inv, Good, Shape
<1>. QED BY <1>1, InvAlways, PTL

\* The memory of a buffer is given back at most once, whoever cleans it: the last
\* close, the cleaner thread, the shutdown hook, and whatever fails on the way.
THEOREM MemoryFreedOnce == Spec => []FreedOnce
<1>1. Inv => FreedOnce
  <2>. SUFFICES ASSUME Inv, NEW b \in Buffers PROVE Len(frees[b]) <= 1
    BY DEF FreedOnce
  <2>1. frees[b] # <<>> => Len(frees[b]) = 1
    BY DEF Inv, Good, Cleans
  <2>2. CASE frees[b] = <<>>
    <3>1. Len(frees[b]) = 0
      BY <2>2, EmptySeq
    <3>. QED BY <3>1
  <2>3. CASE Len(frees[b]) = 1
    BY <2>3
  <2>. QED BY <2>1, <2>2, <2>3
<1>. QED BY <1>1, InvAlways, PTL

\* Until the JVM ends, a buffer the application holds a reference to, or a slice of
\* which it does, is open and its memory has not been given back.
THEOREM HeldMemoryStays == Spec => []RefsKeepMemory
<1>1. Inv => RefsKeepMemory
  <2>. SUFFICES ASSUME Inv, jvm = "running", NEW b \in Buffers, Held(b)
                PROVE  resource[b] /\ ~closed[b] /\ frees[b] = <<>>
    BY DEF RefsKeepMemory
  <2>1. PICK rank \in [Buffers -> Nat] : Good(rank)
    BY DEF Inv
  <2>2. Shape(rank) /\ Cleans /\ Counts /\ TypeOK /\ Traceless /\ Ancestry(rank)
    BY <2>1 DEF Good, Shape
  <2>3. ASSUME NEW c \in Buffers, Used(c), ~Dead(c)
        PROVE  resource[c] /\ ~closed[c] /\ frees[c] = <<>> /\ ~Busy(c)
    <3>1. resource[c]
      BY <2>2, <2>3 DEF Counts
    <3>2. ~closed[c]
      BY <2>2, <2>3, ZeroIsDead DEF Counts
    <3>3. ~Busy(c)
      BY <2>2, <2>3, CleaningIsDead DEF Busy
    <3>. QED BY <2>2, <3>1, <3>2, <3>3 DEF Cleans, Busy
  <2>4. ASSUME NEW c \in Buffers, refs[c] > 0 PROVE Used(c) /\ ~Dead(c)
    BY <2>2, <2>4 DEF Traceless, Dead
  <2>5. CASE refs[b] > 0
    BY <2>3, <2>4, <2>5
  <2>6. ASSUME NEW s \in Buffers, parent[s] = b, refs[s] > 0
        PROVE  resource[b] /\ ~closed[b] /\ frees[b] = <<>>
    <3>1. resource[s] /\ ~Busy(s)
      BY <2>3, <2>4, <2>6
    <3>2. ~Dead(b)
      BY <2>6, <3>1 DEF Slices, Dead
    <3>3. Used(b)
      BY <2>2, <2>6, JavaAssumption DEF Ancestry
    <3>. QED BY <2>3, <3>2, <3>3
  <2>. QED BY <2>5, <2>6 DEF Held
<1>. QED BY <1>1, InvAlways, PTL

\* What was not cleaned is registered with the cleaner, even when a clean has thrown:
\* a leak can always be found.
THEOREM LeaksStayTracked == Spec => []LeaksTracked
<1>1. Inv => LeaksTracked
  BY DEF Inv, Good, Cleans
<1>. QED BY <1>1, InvAlways, PTL

\* No two pinned pools exist at a time.
THEOREM AtMostOnePool == Spec => []OnePool
<1>1. Inv => OnePool
  <2>. SUFFICES ASSUME Inv PROVE Cardinality(Existing) <= 1
    BY DEF OnePool, Existing
  <2>1. /\ Existing \subseteq {singleton_, initFuture}
        /\ singleton_ # None /\ initFuture # None => singleton_ = initFuture
    BY DEF Inv, Good, Monitor
  <2>2. None \notin Existing
    BY JavaAssumption DEF Existing
  <2>3. Existing = {} \/ Existing = {singleton_} \/ Existing = {initFuture}
    BY <2>1, <2>2
  <2>4. CASE Existing = {}
    <3>1. Cardinality(Existing) = 0
      BY <2>4, FS_EmptySet
    <3>. QED BY <3>1
  <2>5. ASSUME NEW x, Existing = {x} PROVE Cardinality(Existing) <= 1
    <3>1. Cardinality(Existing) = 1
      BY <2>5, FS_Singleton
    <3>. QED BY <3>1
  <2>. QED BY <2>3, <2>4, <2>5
<1>. QED BY <1>1, InvAlways, PTL

\* No interleaving misplaces memory but those with a shutdown between the
\* allocation and the free.
LEMMA MisplacedAfterRelease == Spec => []OwnUnlessReleased
<1>1. Inv => OwnUnlessReleased
  BY DEF Inv, Good, Owners
<1>. QED BY <1>1, InvAlways, PTL

----------------------------------------------------------------------------
(* Waiting for monitors.                                                   *)

\* One of some threads has the least number.
LEMMA Lowest ==
  ASSUME NEW S, S # {}, NEW m, \A t \in S : m[t] \in Nat
  PROVE  \E t \in S : \A u \in S : ~(m[u] < m[t])
<1>. DEFINE T == {m[t] : t \in S}
            R == {ss \in Nat \X Nat : ss[1] < ss[2]}
<1>1. T \subseteq Nat /\ T # {}
  OBVIOUS
<1>2. IsWellFoundedOn(R, Nat)
  BY NatLessThanWellFounded, Zenon DEF OpToRel
<1>3. PICK x \in T : \A y \in T : ~ (<<y, x>> \in R)
  <2>. HIDE DEF T, R
  <2>. QED BY <1>1, <1>2, WFMin
<1>4. \A y \in T : ~(y < x)
  BY <1>1, <1>3
<1>5. PICK t \in S : x = m[t]
  BY <1>3
<1>6. \A u \in S : m[u] \in T
  OBVIOUS
<1>. HIDE DEF T
<1>. QED BY <1>4, <1>5, <1>6

\* What nothing lies on is the top.
LEMMA NothingAbove ==
  ASSUME NEW rank, Shape(rank), NEW t \in Threads, NEW g \in Frames, In(stack[t], g),
         \A h \in Frames : ~Above(parent, g, h)
  PROVE  stack[t] # <<>> /\ g = Top(t)
<1>1. TypeOK /\ Stacked(parent, origin, rank, t, stack[t])
  BY DEF Shape
<1>2. stack[t] # <<>>
  BY EmptyIn
<1>3. /\ Below(t) \in Seq(Frames) /\ Top(t) \in Frames /\ stack[t] = Append(Below(t), Top(t))
  BY <1>1, <1>2, TopFacts
<1>4. In(Below(t), g) \/ g = Top(t)
  BY <1>3, AppendIn
<1>5. ~In(Below(t), g)
  BY <1>1, <1>3, OnTop
<1>. QED BY <1>2, <1>4, <1>5

\* A frame is the top or has another one on it.
LEMMA TopOrUnder ==
  ASSUME NEW rank, Shape(rank), NEW t \in Threads, NEW g \in Frames, In(stack[t], g), g # Top(t)
  PROVE  /\ \E h \in Frames : In(stack[t], h) /\ Above(parent, g, h)
         /\ Lower(rank, g, Top(t))
<1>1. TypeOK /\ Stacked(parent, origin, rank, t, stack[t])
  BY DEF Shape
<1>2. stack[t] # <<>>
  BY EmptyIn
<1>3. /\ Below(t) \in Seq(Frames) /\ Top(t) \in Frames /\ stack[t] = Append(Below(t), Top(t))
  BY <1>1, <1>2, TopFacts
<1>4. In(Below(t), g)
  BY <1>3, AppendIn
<1>5. \E h \in Frames : In(stack[t], h) /\ Above(parent, g, h)
  BY <1>1, <1>3, <1>4, OnTop
<1>6. Lower(rank, g, Top(t))
  <2>1. Stacked(parent, origin, rank, t, Append(Below(t), Top(t)))
    BY <1>1, <1>3
  <2>2. \A e \in Frames : In(Below(t), e) => Lower(rank, e, Top(t))
    BY <1>3, <2>1, StackedAppend
  <2>. QED BY <1>4, <2>2
<1>. QED BY <1>5, <1>6

\* A thread in the class's monitor is about to do something with the pool.
LEMMA ClassTop ==
  ASSUME NEW rank, Shape(rank), NEW t \in Threads, InClass(t)
  PROVE  ~At(t, "close") /\ ~At(t, "clean")
<1>1. TypeOK /\ HasClass(stack[t])
  BY InClassIs DEF Shape
<1>2. PICK g \in Frames : In(stack[t], g) /\ g.at \in ClassAt
  BY <1>1 DEF HasClass
<1>3. CASE g = Top(t)
  BY <1>2, <1>3 DEF At, ClassAt
<1>4. CASE g # Top(t)
  <2>1. PICK h \in Frames : In(stack[t], h) /\ Above(parent, g, h)
    BY <1>2, <1>4, TopOrUnder
  <2>2. h.at \in PoolAt \/ h.at = "reset"
    BY <1>2, <2>1 DEF Above, ClassAt
  <2>3. CASE h.at # "locked"
    <3>1. \A f \in Frames : ~Above(parent, h, f)
      BY <2>2, <2>3 DEF Above, PoolAt
    <3>2. h = Top(t)
      BY <2>1, <3>1, NothingAbove
    <3>. QED BY <2>2, <3>2 DEF At, PoolAt
  <2>4. CASE h.at = "locked"
    <3>1. CASE h = Top(t)
      BY <2>4, <3>1 DEF At
    <3>2. CASE h # Top(t)
      <4>1. PICK f \in Frames : In(stack[t], f) /\ Above(parent, h, f)
        BY <2>1, <3>2, TopOrUnder
      <4>2. f.at = "reset"
        BY <2>4, <4>1 DEF Above
      <4>3. \A e \in Frames : ~Above(parent, f, e)
        BY <4>2 DEF Above
      <4>4. f = Top(t)
        BY <4>1, <4>3, NothingAbove
      <4>. QED BY <4>2, <4>4 DEF At
    <3>. QED BY <3>1, <3>2
  <2>. QED BY <2>3, <2>4
<1>. QED BY <1>3, <1>4

\* A thread that closes or cleans is further from the buffers whose monitors it is in.
LEMMA HeldAbove ==
  ASSUME NEW rank, Shape(rank), NEW t \in Threads, NEW b \in Buffers,
         At(t, "close") \/ At(t, "clean")
  PROVE  /\ InFrame(t, "cleaning", b) => rank[Top(t).buf] < rank[b]
         /\ InFrame(t, "closing", b) =>
              rank[Top(t).buf] < rank[b] \/ (At(t, "clean") /\ Top(t).buf = b)
<1>. DEFINE f == Top(t)
<1>1. /\ f \in Frames /\ f.at \in {"close", "clean"}
      /\ At(t, "close") => f.at = "close"
      /\ f.at = "clean" => At(t, "clean")
  BY TopFacts DEF At, Shape
<1>2. ASSUME NEW g \in Frames, In(stack[t], g), g.at = "cleaning", g.buf = b
      PROVE  rank[f.buf] < rank[b]
  <2>1. g # Top(t)
    BY <1>1, <1>2
  <2>2. Lower(rank, g, Top(t))
    BY <1>2, <2>1, TopOrUnder
  <2>. QED BY <1>1, <1>2, <2>2 DEF Lower, CloseAt
<1>3. InFrame(t, "cleaning", b) => rank[f.buf] < rank[b]
  <2>1. Frame("cleaning", b) \in Frames /\ Frame("cleaning", b).at = "cleaning"
        /\ Frame("cleaning", b).buf = b
    BY FrameType DEF FrameAt
  <2>. QED BY <1>2, <2>1, InFrameIs
<1>4. ASSUME InFrame(t, "closing", b) PROVE rank[f.buf] < rank[b] \/ (At(t, "clean") /\ f.buf = b)
  <2>. DEFINE g == Frame("closing", b)
  <2>1. g \in Frames /\ g.at = "closing" /\ g.buf = b /\ In(stack[t], g)
    BY <1>4, FrameType, InFrameIs DEF FrameAt
  <2>. HIDE DEF g
  <2>2. g # Top(t)
    BY <1>1, <2>1
  <2>3. PICK h \in Frames : In(stack[t], h) /\ Above(parent, g, h)
    BY <2>1, <2>2, TopOrUnder
  <2>4. h.at \in {"clean", "cleaning"} /\ h.buf = b
    BY <2>1, <2>3 DEF Above
  <2>5. CASE h.at = "cleaning"
    BY <1>2, <2>3, <2>4, <2>5
  <2>6. CASE h.at = "clean"
    <3>1. \A e \in Frames : ~Above(parent, h, e)
      BY <2>6 DEF Above
    <3>2. h = f
      BY <2>3, <3>1, NothingAbove
    <3>. QED BY <1>1, <2>4, <2>6, <3>2
  <2>. QED BY <2>4, <2>5, <2>6
<1>. QED BY <1>3, <1>4

\* Threads do not wait for one another in a circle.
LEMMA CircleFree == ASSUME NEW rank \in [Buffers -> Nat], Good(rank) PROVE NoCircle
<1>1. Shape(rank) /\ TypeOK /\ \A t, u \in Threads : InClass(t) /\ InClass(u) => t = u
  BY DEF Good, Shape, Monitor
<1>2. \A t \in Threads : Stacked(parent, origin, rank, t, stack[t])
  BY DEF Good, Shape
<1>3. SUFFICES ASSUME NEW S \in SUBSET Threads, S # {}
               PROVE  \E t \in S : \A u \in S : ~WaitsFor(t, u)
  BY DEF NoCircle
<1>4. CASE \E t \in S : InClass(t)
  <2>1. PICK t \in S : InClass(t)
    BY <1>4
  <2>2. ~At(t, "close") /\ ~At(t, "clean")
    BY <1>1, <2>1, ClassTop
  <2>3. ASSUME NEW u \in S PROVE ~WaitsFor(t, u)
    BY <1>1, <2>1, <2>2 DEF WaitsFor
  <2>. QED BY <2>3
<1>5. CASE \E t \in S : /\ ~At(t, "close") /\ ~At(t, "clean")
                        /\ \A u \in S : ~InClass(u)
  BY <1>5 DEF WaitsFor
<1>6. CASE /\ \A t \in S : At(t, "close") \/ At(t, "clean")
           /\ \A u \in S : ~InClass(u)
  <2>. DEFINE m == [t \in S |-> 2 * rank[Top(t).buf] + IF At(t, "close") THEN 1 ELSE 0]
  <2>1. ASSUME NEW t \in S
        PROVE  /\ Top(t).buf \in Buffers /\ rank[Top(t).buf] \in Nat
               /\ At(t, "close") => ~At(t, "clean")
    <3>1. t \in Threads /\ stack[t] # <<>> /\ Top(t).at \in {"close", "clean"}
      BY <1>6 DEF At
    <3>2. /\ stack[t] = Append(Below(t), Top(t)) /\ Top(t) \in Frames
          /\ Below(t) \in Seq(Frames)
      BY <1>1, <3>1, TopFacts
    <3>3. Stacked(parent, origin, rank, t, stack[t])
      BY <1>2, <3>1
    <3>4. Known(parent, origin, Top(t))
      <4>1. Stacked(parent, origin, rank, t, Append(Below(t), Top(t)))
        BY <3>2, <3>3
      <4>. QED BY <3>2, <4>1, StackedAppend
    <3>5. Top(t).buf \in Buffers
      BY <3>1, <3>4 DEF Known, BufferAt
    <3>. QED BY <3>5 DEF At
  <2>2. \A t \in S : m[t] \in Nat
    BY <2>1
  <2>3. PICK t \in S : \A u \in S : ~(m[u] < m[t])
    <3>. HIDE DEF m
    <3>. QED BY <1>3, <2>2, Lowest
  <2>4. ASSUME NEW u \in S, WaitsFor(t, u) PROVE FALSE
    <3>. DEFINE b == Top(t).buf
                c == Top(u).buf
    <3>1. b \in Buffers /\ rank[b] \in Nat /\ rank[c] \in Nat
          /\ (At(u, "close") => ~At(u, "clean"))
      BY <2>1
    <3>2. /\ InFrame(u, "cleaning", b) => rank[c] < rank[b]
          /\ InFrame(u, "closing", b) => rank[c] < rank[b] \/ (At(u, "clean") /\ c = b)
      BY <1>1, <1>6, <3>1, HeldAbove
    <3>3. \/ At(t, "close") /\ InFrame(u, "closing", b)
          \/ At(t, "clean") /\ InFrame(u, "cleaning", b)
      BY <1>6, <2>4 DEF WaitsFor
    <3>4. /\ m[t] = 2 * rank[b] + IF At(t, "close") THEN 1 ELSE 0
          /\ m[u] = 2 * rank[c] + IF At(u, "close") THEN 1 ELSE 0
      OBVIOUS
    <3>5. ~(m[u] < m[t])
      BY <2>3
    <3>. HIDE DEF m, b, c
    <3>6. CASE rank[c] < rank[b]
      BY <3>1, <3>4, <3>5, <3>6
    <3>7. CASE ~(rank[c] < rank[b])
      <4>1. At(t, "close") /\ At(u, "clean") /\ c = b
        BY <3>2, <3>3, <3>7
      <4>. QED BY <3>1, <3>4, <3>5, <4>1
    <3>. QED BY <3>6, <3>7
  <2>. QED BY <2>3, <2>4
<1>. QED BY <1>4, <1>5, <1>6

\* Whatever slices were made of slices, and whoever closes, cleans, initializes and
\* shuts down at once: nobody waits in a circle.
THEOREM NobodyWaitsInACircle == Spec => []NoCircle
<1>1. Inv => NoCircle
  BY CircleFree DEF Inv
<1>. QED BY <1>1, InvAlways, PTL
=============================================================================
