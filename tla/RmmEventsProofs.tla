-------------------------- MODULE RmmEventsProofs --------------------------
(***************************************************************************)
(* Proofs about RmmEvents, for any number of threads and addresses, any    *)
(* sizes, alignment, capacity and thresholds.                              *)
(*                                                                         *)
(* What a call has done so far is known from its program counter: whether  *)
(* it holds an address, whether its size is part of the total, and whether *)
(* the maxima may still be behind.                                         *)
(***************************************************************************)
EXTENDS RmmEvents, FoldTheorems

\* What the program counter of a call says of its other fields: an idle thread
\* has no call; an allocation has no address before the upstream resource gave
\* it one, and afterwards knows the size of its address; a deallocation always
\* has an address.
CallOK(t) ==
  LET c == call[t] IN
  /\ c.pc = "idle" => c = Idle
  /\ c.op = "none" <=> c.pc = "idle"
  /\ c.op = "reset" <=> c.pc = "reset_max"
  /\ c.op = "allocate" =>
       /\ c.n # 0
       /\ c.pc \in {"before", "allocate", "failed"} => c.b = None
       /\ c.pc \in {"add_total", "add_scoped", "maximum", "scoped_maximum", "after", "check",
                    "return", "release"} => c.b # None /\ size[c.b] = c.n
  /\ c.op = "deallocate" =>
       /\ c.b # None
       /\ c.pc \in {"before", "release", "sub_total", "sub_scoped", "after", "check", "return"}
  /\ c.pc \in {"sub_total", "sub_scoped"} => c.n # 0
CallsOK == \A t \in Threads : CallOK(t)

\* What the total has counted of each address, and what it still counts of an
\* address that was given back.
Counted ==
  [b \in Blocks |-> IF \E t \in Threads : At(t, "add_total") /\ call[t].b = b
                    THEN 0 ELSE Round(size[b])]
Owed == [t \in Threads |-> IF At(t, "sub_total") THEN Round(call[t].n) ELSE 0]
TotalCounts == total = SumFunctionOnSet(Counted, Blocks) + SumFunctionOnSet(Owed, Threads)

\* A maximum that is behind its counter is one a thread is about to raise, or to
\* set to a value that the counter exceeds only if a thread is to raise it again.
MaxBehind ==
  /\ maxTotal >= total \/ \E t \in Threads : At(t, "add_scoped") \/ At(t, "maximum")
  /\ scopedMax >= scoped \/ \E t \in Threads : At(t, "maximum") \/ At(t, "scoped_maximum")
                                             \/ At(t, "reset_max")
  /\ \A t \in Threads : At(t, "reset_max") =>
       scoped <= call[t].before \/ \E u \in Threads : At(u, "maximum")

\* Without overlapping calls there is one call at most.  What it has added to
\* the total since it read it, and what the handler knows.
Reached(n) == {x \in Thresholds \ {0} : x <= n}
Moved(c) ==
  IF c.op = "allocate"
  THEN IF c.pc \in {"add_scoped", "maximum", "scoped_maximum", "after", "check", "release",
                    "sub_total"}
       THEN Round(c.n) ELSE 0
  ELSE IF c.pc \in {"sub_scoped", "after", "check"} THEN - Round(c.n) ELSE 0
Told(c, a, n) ==
  /\ IF c.pc \in Outside \cup {"before", "return"}
     THEN a \ {0} = Reached(n)
     ELSE a \ {0} = Reached(c.before) /\ n = c.before + Moved(c)
  /\ c.pc = "check" => c.after = n
\* How far the maximum is behind the peak p: by what the call has still to count.
Kept(c, p, m, n) ==
  p = IF c.pc = "add_total" THEN Max({m, n + Round(c.n)})
      ELSE IF c.pc \in {"add_scoped", "maximum"} THEN Max({m, n}) ELSE m
Alone(t) == \A u \in Threads \ {t} : call[u].pc \in Outside
OneCall ==
  ~overlap =>
    /\ Quiet => above \ {0} = Reached(total) /\ peak = maxTotal
    /\ \A t \in Threads : call[t].pc \notin Outside =>
         /\ Alone(t) /\ Told(call[t], above, total)
         /\ Kept(call[t], peak, maxTotal, total)

\* The inductive invariant.
Shape == TypeOK /\ CallsOK
Inv == Shape /\ NothingLeaks /\ TotalCounts /\ MaxBehind /\ OneCall

----------------------------------------------------------------------------
(* Operators of the model.                                                 *)

\* A rounded size is a size.
LEMMA RoundIsNat == \A n \in Nat : Round(n) \in Nat
<1>. SUFFICES ASSUME NEW n \in Nat PROVE Round(n) \in Nat
  OBVIOUS
<1>1. n + Align - 1 \in Nat /\ Align \in Nat /\ Align > 0
  BY AlignAssumption
<1>2. (n + Align - 1) \div Align \in Nat
  BY <1>1
<1>. QED BY <1>1, <1>2 DEF Round

\* Nothing rounded is nothing.
LEMMA RoundZero == Round(0) = 0
<1>1. Align \in Nat /\ Align > 0 /\ 0 + Align - 1 = Align - 1
  BY AlignAssumption
<1>2. (Align - 1) \div Align = 0
  BY <1>1
<1>. QED BY <1>1, <1>2 DEF Round

\* The size a call is counted with, and that of an address.
LEMMA RoundTypes ==
  ASSUME TypeOK
  PROVE  /\ \A t \in Threads : call[t].n \in Nat /\ Round(call[t].n) \in Nat
         /\ \A b \in Blocks : size[b] \in Nat /\ Round(size[b]) \in Nat
<1>1. Sizes \cup {0} \subseteq Nat
  BY SizesAssumption
<1>2. \A t \in Threads : call[t].n \in Nat
  BY <1>1 DEF TypeOK, Calls
<1>3. \A b \in Blocks : size[b] \in Nat
  BY <1>1 DEF TypeOK
<1>. QED BY <1>2, <1>3, RoundIsNat

\* The larger of two numbers.
LEMMA MaxOfTwo ==
  ASSUME NEW a \in Int, NEW b \in Int
  PROVE  Max({a, b}) \in {a, b} /\ Max({a, b}) >= a /\ Max({a, b}) >= b
<1>1. \E x \in {a, b} : \A y \in {a, b} : x >= y
  OBVIOUS
<1>. QED BY <1>1 DEF Max

----------------------------------------------------------------------------
(* What most steps have in common.                                         *)

\* The call of one thread goes on.
LEMMA CallStep ==
  ASSUME TypeOK, NEW t \in Threads, NEW c \in Calls, call' = [call EXCEPT ![t] = c]
  PROVE  /\ call' \in [Threads -> Calls] /\ call'[t] = c
         /\ \A u \in Threads \ {t} : call'[u] = call[u]
BY DEF TypeOK

\* A step that moves no address.
LEMMA HandsUnchanged ==
  ASSUME NothingLeaks, NEW t \in Threads, \A u \in Threads \ {t} : call'[u] = call[u],
         UNCHANGED <<size, app, dropped>>, InHand(t)' = InHand(t)
  PROVE  NothingLeaks'
<1>1. \A u \in Threads : InHand(u)' = InHand(u)
  BY DEF InHand, Outside
<1>2. Allocated' = Allocated
  BY DEF Allocated
<1>. QED BY <1>1, <1>2 DEF NothingLeaks

\* What the application has, has lost, or thread t has in hand.
Mine(t) == app \cup dropped \cup InHand(t)

\* A step by which thread t takes or gives an address, from or to the
\* application or the upstream resource.
LEMMA HandStep ==
  ASSUME NothingLeaks, NEW t \in Threads,
         \A u \in Threads \ {t} : InHand(u)' = InHand(u),
         Allocated' = Mine(t)' \cup (Allocated \ Mine(t)),
         Mine(t)' \cap (Allocated \ Mine(t)) = {},
         app' \cap dropped' = {}, InHand(t)' \cap (app' \cup dropped') = {}
  PROVE  NothingLeaks'
<1>1. \A u \in Threads \ {t} : InHand(u) \subseteq Allocated \ Mine(t)
  BY DEF NothingLeaks, Mine
<1>2. \A x \in Allocated \ Mine(t) : \E u \in Threads \ {t} : x \in InHand(u)
  BY DEF NothingLeaks, Mine
<1>3. \A x : x \in Allocated' <=>
          x \in app' \cup dropped' \/ \E u \in Threads : x \in InHand(u)'
  BY <1>1, <1>2 DEF Mine
<1>4. Allocated' = app' \cup dropped' \cup UNION {InHand(u)' : u \in Threads}
  BY <1>3
<1>5. \A u \in Threads : InHand(u)' \cap (app' \cup dropped') = {}
  BY <1>1 DEF Mine
<1>6. \A u, v \in Threads : u # v => InHand(u)' \cap InHand(v)' = {}
  BY <1>1 DEF Mine, NothingLeaks
<1>. QED BY <1>4, <1>5, <1>6 DEF NothingLeaks

\* A step that counts nothing.
LEMMA CountUnchanged ==
  ASSUME TotalCounts, NEW t \in Threads, \A u \in Threads \ {t} : call'[u] = call[u],
         UNCHANGED <<size, total>>,
         ~At(t, "add_total"), ~At(t, "add_total")', ~At(t, "sub_total"), ~At(t, "sub_total")'
  PROVE  TotalCounts'
<1>1. Counted' = Counted
  BY DEF Counted, At
<1>2. Owed' = Owed
  BY DEF Owed, At
<1>. QED BY <1>1, <1>2 DEF TotalCounts

\* The other calls keep their shape.
LEMMA OthersShape ==
  ASSUME CallsOK, NEW t \in Threads, \A u \in Threads \ {t} : call'[u] = call[u],
         size' = size, CallOK(t)'
  PROVE  CallsOK'
BY DEF CallsOK, CallOK

\* A step of the only call.
LEMMA OnlyCall ==
  ASSUME OneCall, NEW t \in Threads, \A u \in Threads \ {t} : call'[u] = call[u],
         call[t].pc \notin Outside, overlap' = overlap,
         ~overlap /\ Told(call[t], above, total) => Told(call'[t], above', total'),
         Alone(t) /\ Kept(call[t], peak, maxTotal, total) =>
           Kept(call'[t], peak', maxTotal', total')
  PROVE  OneCall'
<1>. SUFFICES ASSUME ~overlap
              PROVE  /\ Quiet' => above' \ {0} = Reached(total') /\ peak' = maxTotal'
                     /\ \A u \in Threads : call'[u].pc \notin Outside =>
                          /\ Alone(u)' /\ Told(call'[u], above', total')
                          /\ Kept(call'[u], peak', maxTotal', total')
  BY DEF OneCall, Reached, Told, Moved, Kept
<1>1. Alone(t) /\ Told(call'[t], above', total') /\ Kept(call'[t], peak', maxTotal', total')
  BY DEF OneCall
<1>2. Alone(t)'
  BY <1>1 DEF Alone
<1>3. Quiet' => above' \ {0} = Reached(total') /\ peak' = maxTotal'
  BY <1>1 DEF Quiet, Told, Kept, Outside
<1>4. \A u \in Threads \ {t} : call'[u].pc \in Outside
  BY <1>1 DEF Alone
<1>. QED BY <1>1, <1>2, <1>3, <1>4

\* A step that moves no address and counts nothing.
LEMMA PlainStep ==
  ASSUME Inv, NEW t \in Threads, TypeOK', CallOK(t)',
         \A u \in Threads \ {t} : call'[u] = call[u],
         UNCHANGED <<size, app, dropped, total>>, InHand(t)' = InHand(t),
         call[t].pc \notin {"add_total", "sub_total"},
         call'[t].pc \notin {"add_total", "sub_total"}, MaxBehind', OneCall'
  PROVE  Inv'
<1>1. NothingLeaks'
  BY HandsUnchanged DEF Inv
<1>2. TotalCounts'
  BY CountUnchanged DEF Inv, At
<1>3. CallsOK'
  BY OthersShape DEF Inv, Shape
<1>. QED BY <1>1, <1>2, <1>3 DEF Inv, Shape

\* A change of the total of which the handler is not told has made no
\* difference to the thresholds that are reached.
LEMMA CrossedTells ==
  ASSUME NEW low \in Nat, NEW high \in Nat, low <= high, ~Crossed(low, high)
  PROVE  Reached(low) = Reached(high)
<1>1. ASSUME NEW x \in Thresholds PROVE x <= low <=> x <= high
  <2>1. x \in Nat /\ ~(low < x /\ high >= x)
    BY ThresholdsAssumption DEF Crossed
  <2>. QED BY <2>1
<1>. QED BY <1>1 DEF Reached

\* What the check of the thresholds has found out.
LEMMA CheckTells ==
  ASSUME Inv, NEW t \in Threads, call[t].pc = "check", Told(call[t], above, total)
  PROVE  /\ call[t].after = total
         /\ ~Crossing(t) => above \ {0} = Reached(total)
<1>1. /\ call[t] \in Calls /\ call[t].before \in Nat /\ call[t].after = total /\ total \in Nat
      /\ call[t].op \in {"allocate", "deallocate"}
      /\ above \ {0} = Reached(call[t].before) /\ total = call[t].before + Moved(call[t])
      /\ Round(call[t].n) \in Nat
  BY RoundTypes DEF Inv, Shape, TypeOK, Calls, CallsOK, CallOK, Told, Outside
<1>2. CASE call[t].op = "allocate"
  <2>1. call[t].before <= total
    BY <1>1, <1>2 DEF Moved
  <2>2. Crossing(t) = Crossed(call[t].before, total)
    BY <1>1, <1>2 DEF Crossing
  <2>. QED BY <1>1, <2>1, <2>2, CrossedTells DEF Inv, Shape
<1>3. CASE call[t].op = "deallocate"
  <2>1. total <= call[t].before
    BY <1>1, <1>3 DEF Moved
  <2>2. Crossing(t) = Crossed(total, call[t].before)
    BY <1>1, <1>3 DEF Crossing
  <2>. QED BY <1>1, <2>1, <2>2, CrossedTells DEF Inv, Shape
<1>. QED BY <1>1, <1>2, <1>3

----------------------------------------------------------------------------
(* The steps that change no more than the call, the maxima, the scoped     *)
(* counter or what the handler knows.                                      *)

\* The allocator below throws: nothing is counted.
LEMMA UpstreamFailsStep == ASSUME Inv, NEW t \in Threads, UpstreamFails(t) PROVE Inv'
<1>. DEFINE c == [call[t] EXCEPT !.pc = "failed"]
<1>1. call[t].pc = "allocate" /\ call' = [call EXCEPT ![t] = c]
  BY DEF UpstreamFails, To, Goto, At
<1>2. call[t] \in Calls /\ CallOK(t) /\ c \in Calls
  BY <1>1 DEF UpstreamFails, Inv, Shape, TypeOK, CallsOK, CallOK, Calls, Idle
<1>3. /\ call' \in [Threads -> Calls] /\ call'[t] = c
      /\ \A u \in Threads \ {t} : call'[u] = call[u]
  BY <1>1, <1>2, CallStep DEF Inv, Shape
<1>4. TypeOK'
  BY <1>1, <1>3 DEF UpstreamFails, Inv, Shape, TypeOK, history
<1>5. CallOK(t)'
  BY <1>1, <1>2, <1>3 DEF UpstreamFails, CallOK, Calls, Idle
<1>6. InHand(t)' = InHand(t)
  BY <1>1, <1>2, <1>3 DEF InHand, Outside, CallOK, Calls, Idle
<1>7. MaxBehind'
  BY <1>1, <1>2, <1>3 DEF UpstreamFails, Inv, MaxBehind, At, Idle
<1>8. OneCall'
  BY <1>1, <1>2, <1>3, OnlyCall DEF UpstreamFails, Inv, At, history, Told, Moved, Kept, Outside, Calls, CallOK, Idle
<1>. QED BY <1>1, <1>3, <1>4, <1>5, <1>6, <1>7, <1>8, PlainStep DEF UpstreamFails, history, Idle

\* The second counter of allocate: scoped_allocated += size.
LEMMA AddScopedStep == ASSUME Inv, NEW t \in Threads, AddScoped(t) PROVE Inv'
<1>. DEFINE c == [call[t] EXCEPT !.pc = "maximum"]
<1>1. call[t].pc = "add_scoped" /\ call' = [call EXCEPT ![t] = c]
  BY DEF AddScoped, To, Goto, At
<1>2. call[t] \in Calls /\ CallOK(t) /\ c \in Calls
  BY <1>1 DEF AddScoped, Inv, Shape, TypeOK, CallsOK, CallOK, Calls, Idle
<1>3. /\ call' \in [Threads -> Calls] /\ call'[t] = c
      /\ \A u \in Threads \ {t} : call'[u] = call[u]
  BY <1>1, <1>2, CallStep DEF Inv, Shape
<1>4. TypeOK'
  <2>1. Round(call[t].n) \in Nat
    BY RoundTypes DEF Inv, Shape
  <2>. QED BY <1>1, <1>3, <2>1 DEF AddScoped, Inv, Shape, TypeOK, history
<1>5. CallOK(t)'
  BY <1>1, <1>2, <1>3 DEF AddScoped, CallOK, Calls, Idle
<1>6. InHand(t)' = InHand(t)
  BY <1>1, <1>2, <1>3 DEF InHand, Outside, CallOK, Calls, Idle
<1>7. MaxBehind'
  BY <1>1, <1>2, <1>3 DEF AddScoped, Inv, MaxBehind, At, Idle
<1>8. OneCall'
  BY <1>1, <1>2, <1>3, OnlyCall DEF AddScoped, Inv, At, history, Told, Moved, Kept, Outside, Calls, CallOK, Idle
<1>. QED BY <1>1, <1>3, <1>4, <1>5, <1>6, <1>7, <1>8, PlainStep DEF AddScoped, history, Idle

\* max_total_allocated is brought up to what was counted.
LEMMA UpdateMaxStep == ASSUME Inv, NEW t \in Threads, UpdateMax(t) PROVE Inv'
<1>. DEFINE c == [call[t] EXCEPT !.pc = "scoped_maximum"]
<1>1. call[t].pc = "maximum" /\ call' = [call EXCEPT ![t] = c]
  BY DEF UpdateMax, To, Goto, At
<1>2. call[t] \in Calls /\ CallOK(t) /\ c \in Calls
  BY <1>1, MaxOfTwo DEF UpdateMax, Inv, Shape, TypeOK, CallsOK, CallOK, Calls, Idle
<1>3. /\ call' \in [Threads -> Calls] /\ call'[t] = c
      /\ \A u \in Threads \ {t} : call'[u] = call[u]
  BY <1>1, <1>2, CallStep DEF Inv, Shape
<1>4. TypeOK'
  <2>1. maxTotal' = Max({maxTotal, total}) /\ maxTotal \in Nat /\ total \in Nat
    BY DEF UpdateMax, Inv, Shape, TypeOK
  <2>2. maxTotal' \in Nat
    <3>1. maxTotal \in Int /\ total \in Int
      BY <2>1
    <3>2. Max({maxTotal, total}) \in {maxTotal, total}
      BY <3>1, MaxOfTwo
    <3>. QED BY <2>1, <3>2
  <2>. QED BY <1>1, <1>3, <2>2 DEF UpdateMax, Inv, Shape, TypeOK, history
<1>5. CallOK(t)'
  BY <1>1, <1>2, <1>3 DEF UpdateMax, CallOK, Calls, Idle
<1>6. InHand(t)' = InHand(t)
  BY <1>1, <1>2, <1>3 DEF InHand, Outside, CallOK, Calls, Idle
<1>7. MaxBehind'
  <2>1. maxTotal' >= total' /\ total' = total
    <3>1. maxTotal \in Int /\ total \in Int
      BY DEF Inv, Shape, TypeOK
    <3>2. maxTotal' = Max({maxTotal, total}) /\ total' = total
      BY DEF UpdateMax
    <3>. QED BY <3>1, <3>2, MaxOfTwo
  <2>2. \A u \in Threads : ~At(u, "reset_max") /\ ~At(u, "reset_max")'
    BY <1>1, <1>3 DEF UpdateMax, MaxUnlocked, At
  <2>. QED BY <1>1, <1>3, <2>1, <2>2 DEF UpdateMax, Inv, MaxBehind, At
<1>8. OneCall'
  BY <1>1, <1>2, <1>3, OnlyCall, MaxOfTwo DEF UpdateMax, Inv, At, history, Told, Moved, Kept, Outside, Calls, CallOK, Idle
<1>. QED BY <1>1, <1>3, <1>4, <1>5, <1>6, <1>7, <1>8, PlainStep DEF UpdateMax, history, Idle

\* max_scoped is brought up to what was counted.
LEMMA UpdateScopedMaxStep == ASSUME Inv, NEW t \in Threads, UpdateScopedMax(t) PROVE Inv'
<1>. DEFINE c == [call[t] EXCEPT !.pc = "after"]
<1>1. call[t].pc = "scoped_maximum" /\ call' = [call EXCEPT ![t] = c]
  BY DEF UpdateScopedMax, To, Goto, At
<1>2. call[t] \in Calls /\ CallOK(t) /\ c \in Calls
  BY <1>1, MaxOfTwo DEF UpdateScopedMax, Inv, Shape, TypeOK, CallsOK, CallOK, Calls, Idle
<1>3. /\ call' \in [Threads -> Calls] /\ call'[t] = c
      /\ \A u \in Threads \ {t} : call'[u] = call[u]
  BY <1>1, <1>2, CallStep DEF Inv, Shape
<1>4. TypeOK'
  BY <1>1, <1>3, MaxOfTwo DEF UpdateScopedMax, Inv, Shape, TypeOK, history
<1>5. CallOK(t)'
  BY <1>1, <1>2, <1>3 DEF UpdateScopedMax, CallOK, Calls, Idle
<1>6. InHand(t)' = InHand(t)
  BY <1>1, <1>2, <1>3 DEF InHand, Outside, CallOK, Calls, Idle
<1>7. MaxBehind'
  <2>1. scopedMax' >= scoped' /\ scoped' = scoped
    BY MaxOfTwo DEF UpdateScopedMax, Inv, Shape, TypeOK
  <2>. QED BY <1>1, <1>3, <2>1 DEF UpdateScopedMax, Inv, MaxBehind, At
<1>8. OneCall'
  BY <1>1, <1>2, <1>3, OnlyCall, MaxOfTwo DEF UpdateScopedMax, Inv, At, history, Told, Moved, Kept, Outside, Calls, CallOK, Idle
<1>. QED BY <1>1, <1>3, <1>4, <1>5, <1>6, <1>7, <1>8, PlainStep DEF UpdateScopedMax, history, Idle

\* onAllocFailure asks for a retry.
LEMMA RetryStep == ASSUME Inv, NEW t \in Threads, Retry(t) PROVE Inv'
<1>. DEFINE c == [call[t] EXCEPT !.pc = "before", !.retries = @ + 1]
<1>1. call[t].pc = "failed" /\ call' = [call EXCEPT ![t] = c]
  BY DEF Retry, To, Goto, At
<1>2. call[t] \in Calls /\ CallOK(t) /\ c \in Calls
  <2>1. call[t] \in Calls /\ CallOK(t)
    BY DEF Inv, Shape, TypeOK, CallsOK
  <2>2. call[t].retries + 1 \in 0..MaxRetries
    BY <2>1, RetriesAssumption DEF Retry, Calls
  <2>. QED BY <2>1, <2>2 DEF Calls
<1>3. /\ call' \in [Threads -> Calls] /\ call'[t] = c
      /\ \A u \in Threads \ {t} : call'[u] = call[u]
  BY <1>1, <1>2, CallStep DEF Inv, Shape
<1>4. TypeOK'
  BY <1>1, <1>3, RetriesAssumption DEF Retry, Inv, Shape, TypeOK, history
<1>5. CallOK(t)'
  BY <1>1, <1>2, <1>3 DEF Retry, CallOK, Calls, Idle
<1>6. InHand(t)' = InHand(t)
  BY <1>1, <1>2, <1>3 DEF InHand, Outside, CallOK, Calls, Idle
<1>7. MaxBehind'
  BY <1>1, <1>2, <1>3, RetriesAssumption DEF Retry, Inv, MaxBehind, At, Idle
<1>8. OneCall'
  <2>1. Told(call[t], above, total) => Told(call'[t], above', total')
    BY <1>1, <1>2, <1>3 DEF Retry, history, Told, Moved, Outside, Calls, CallOK, Idle
  <2>2. Kept(call[t], peak, maxTotal, total) => Kept(call'[t], peak', maxTotal', total')
    BY <1>1, <1>2, <1>3 DEF Retry, history, Kept, Calls, Idle
  <2>. QED BY <1>1, <1>3, <2>1, <2>2, OnlyCall DEF Retry, Inv, At, history, Outside
<1>. QED BY <1>1, <1>3, <1>4, <1>5, <1>6, <1>7, <1>8, PlainStep DEF Retry, history, Idle

\* onAllocFailure gives up or throws, and the caller gets an exception.
LEMMA GiveUpStep == ASSUME Inv, NEW t \in Threads, GiveUp(t) PROVE Inv'
<1>. DEFINE c == Idle
<1>1. call[t].pc = "failed" /\ call' = [call EXCEPT ![t] = c]
  BY DEF GiveUp, To, Goto, At
<1>2. call[t] \in Calls /\ CallOK(t) /\ c \in Calls
  BY <1>1, SizesAssumption, RetriesAssumption DEF GiveUp, Inv, Shape, TypeOK, CallsOK, CallOK, Calls, Idle
<1>3. /\ call' \in [Threads -> Calls] /\ call'[t] = c
      /\ \A u \in Threads \ {t} : call'[u] = call[u]
  BY <1>1, <1>2, CallStep DEF Inv, Shape
<1>4. TypeOK'
  BY <1>1, <1>3, SizesAssumption, RetriesAssumption DEF GiveUp, Inv, Shape, TypeOK, history
<1>5. CallOK(t)'
  BY <1>1, <1>2, <1>3 DEF GiveUp, CallOK, Calls, Idle
<1>6. InHand(t)' = InHand(t)
  BY <1>1, <1>2, <1>3 DEF InHand, Outside, CallOK, Calls, Idle
<1>7. MaxBehind'
  BY <1>1, <1>2, <1>3, SizesAssumption, RetriesAssumption DEF GiveUp, Inv, MaxBehind, At, Idle
<1>8. OneCall'
  <2>1. Told(call[t], above, total) => Told(call'[t], above', total')
    BY <1>1, <1>2, <1>3 DEF GiveUp, history, Told, Moved, Outside, Calls, CallOK, Idle
  <2>2. Kept(call[t], peak, maxTotal, total) => Kept(call'[t], peak', maxTotal', total')
    BY <1>1, <1>2, <1>3 DEF GiveUp, history, Kept, Calls, Idle
  <2>. QED BY <1>1, <1>3, <2>1, <2>2, OnlyCall DEF GiveUp, Inv, At, history, Outside
<1>. QED BY <1>1, <1>3, <1>4, <1>5, <1>6, <1>7, <1>8, PlainStep DEF GiveUp, history, Idle

\* The handler reads the total after an allocation or a release.
LEMMA TotalAfterStep == ASSUME Inv, NEW t \in Threads, TotalAfter(t) PROVE Inv'
<1>. DEFINE c == [call[t] EXCEPT !.after = total, !.pc = "check"]
<1>1. call[t].pc = "after" /\ call' = [call EXCEPT ![t] = c]
  BY DEF TotalAfter, To, Goto, At
<1>2. call[t] \in Calls /\ CallOK(t) /\ c \in Calls
  BY <1>1, ZenonT(40) DEF TotalAfter, Inv, Shape, TypeOK, CallsOK, CallOK, Calls, Idle
<1>3. /\ call' \in [Threads -> Calls] /\ call'[t] = c
      /\ \A u \in Threads \ {t} : call'[u] = call[u]
  BY <1>1, <1>2, CallStep DEF Inv, Shape
<1>4. TypeOK'
  BY <1>1, <1>3 DEF TotalAfter, Inv, Shape, TypeOK, history
<1>5. CallOK(t)'
  BY <1>1, <1>2, <1>3 DEF TotalAfter, CallOK, Calls, Idle
<1>6. InHand(t)' = InHand(t)
  BY <1>1, <1>2, <1>3 DEF InHand, Outside, CallOK, Calls, Idle
<1>7. MaxBehind'
  BY <1>1, <1>2, <1>3 DEF TotalAfter, Inv, MaxBehind, At, Idle
<1>8. OneCall'
  BY <1>1, <1>2, <1>3, OnlyCall DEF TotalAfter, Inv, At, history, Told, Moved, Kept, Outside, Calls, CallOK, Idle
<1>. QED BY <1>1, <1>3, <1>4, <1>5, <1>6, <1>7, <1>8, PlainStep DEF TotalAfter, history, Idle

\* No threshold lies between the two totals.
LEMMA NotCrossedStep == ASSUME Inv, NEW t \in Threads, NotCrossed(t) PROVE Inv'
<1>. DEFINE c == [call[t] EXCEPT !.pc = "return"]
<1>1. call[t].pc = "check" /\ call' = [call EXCEPT ![t] = c]
  BY DEF NotCrossed, To, Goto, At
<1>2. call[t] \in Calls /\ CallOK(t) /\ c \in Calls
  BY <1>1 DEF NotCrossed, Inv, Shape, TypeOK, CallsOK, CallOK, Calls, Idle
<1>3. /\ call' \in [Threads -> Calls] /\ call'[t] = c
      /\ \A u \in Threads \ {t} : call'[u] = call[u]
  BY <1>1, <1>2, CallStep DEF Inv, Shape
<1>4. TypeOK'
  BY <1>1, <1>3 DEF NotCrossed, Inv, Shape, TypeOK, history
<1>5. CallOK(t)'
  BY <1>1, <1>2, <1>3 DEF NotCrossed, CallOK, Calls, Idle
<1>6. InHand(t)' = InHand(t)
  BY <1>1, <1>2, <1>3 DEF InHand, Outside, CallOK, Calls, Idle
<1>7. MaxBehind'
  BY <1>1, <1>2, <1>3 DEF NotCrossed, Inv, MaxBehind, At, Idle
<1>8. OneCall'
  <2>1. Told(call[t], above, total) => Told(call'[t], above', total')
    BY <1>1, <1>2, <1>3, CheckTells DEF NotCrossed, Told, Calls
  <2>2. Kept(call[t], peak, maxTotal, total) => Kept(call'[t], peak', maxTotal', total')
    BY <1>1, <1>2, <1>3 DEF NotCrossed, history, Kept, Calls
  <2>. QED BY <1>1, <1>3, <2>1, <2>2, OnlyCall DEF NotCrossed, Inv, At, history, Outside
<1>. QED BY <1>1, <1>3, <1>4, <1>5, <1>6, <1>7, <1>8, PlainStep DEF NotCrossed, history, Idle

\* The handler is told of the thresholds that were crossed.
LEMMA CallbackStep == ASSUME Inv, NEW t \in Threads, Callback(t) PROVE Inv'
<1>. DEFINE c == [call[t] EXCEPT !.pc = "return"]
<1>1. call[t].pc = "check" /\ call' = [call EXCEPT ![t] = c]
  BY DEF Callback, To, Goto, At
<1>2. call[t] \in Calls /\ CallOK(t) /\ c \in Calls
  BY <1>1 DEF Callback, Inv, Shape, TypeOK, CallsOK, CallOK, Calls, Idle
<1>3. /\ call' \in [Threads -> Calls] /\ call'[t] = c
      /\ \A u \in Threads \ {t} : call'[u] = call[u]
  BY <1>1, <1>2, CallStep DEF Inv, Shape
<1>4. TypeOK'
  BY <1>1, <1>3 DEF Callback, Inv, Shape, TypeOK, history
<1>5. CallOK(t)'
  BY <1>1, <1>2, <1>3 DEF Callback, CallOK, Calls, Idle
<1>6. InHand(t)' = InHand(t)
  BY <1>1, <1>2, <1>3 DEF InHand, Outside, CallOK, Calls, Idle
<1>7. MaxBehind'
  BY <1>1, <1>2, <1>3 DEF Callback, Inv, MaxBehind, At, Idle
<1>8. OneCall'
  <2>1. Told(call[t], above, total) => Told(call'[t], above', total')
    BY <1>1, <1>2, <1>3, CheckTells DEF Callback, Told, Calls, Reached
  <2>2. Kept(call[t], peak, maxTotal, total) => Kept(call'[t], peak', maxTotal', total')
    BY <1>1, <1>2, <1>3 DEF Callback, history, Kept, Calls
  <2>. QED BY <1>1, <1>3, <2>1, <2>2, OnlyCall DEF Callback, Inv, At, history, Outside
<1>. QED BY <1>1, <1>3, <1>4, <1>5, <1>6, <1>7, <1>8, PlainStep DEF Callback, history, Idle

\* The callback of an allocation throws, and the memory goes back.
LEMMA CallbackThrowsStep == ASSUME Inv, NEW t \in Threads, CallbackThrows(t) PROVE Inv'
<1>. DEFINE c == [call[t] EXCEPT !.pc = "release"]
<1>1. call[t].pc = "check" /\ call[t].op = "allocate" /\ call' = [call EXCEPT ![t] = c]
  BY DEF CallbackThrows, To, Goto, At
<1>2. call[t] \in Calls /\ CallOK(t) /\ c \in Calls
  BY <1>1 DEF CallbackThrows, Inv, Shape, TypeOK, CallsOK, CallOK, Calls, Idle
<1>3. /\ call' \in [Threads -> Calls] /\ call'[t] = c
      /\ \A u \in Threads \ {t} : call'[u] = call[u]
  BY <1>1, <1>2, CallStep DEF Inv, Shape
<1>4. TypeOK'
  BY <1>1, <1>3 DEF CallbackThrows, Inv, Shape, TypeOK, history
<1>5. CallOK(t)'
  BY <1>1, <1>2, <1>3 DEF CallbackThrows, CallOK, Calls, Idle
<1>6. InHand(t)' = InHand(t)
  BY <1>1, <1>2, <1>3 DEF InHand, Outside, CallOK, Calls, Idle
<1>7. MaxBehind'
  BY <1>1, <1>2, <1>3 DEF CallbackThrows, Inv, MaxBehind, At, Idle
<1>8. OneCall'
  BY <1>1, <1>2, <1>3, OnlyCall DEF CallbackThrows, Inv, At, history, Told, Moved, Kept, Outside, Calls, CallOK, Idle
<1>. QED BY <1>1, <1>3, <1>4, <1>5, <1>6, <1>7, <1>8, PlainStep DEF CallbackThrows, history, Idle

\* The callback of a release throws after the release.
LEMMA DeallocCallbackThrowsStep == ASSUME Inv, NEW t \in Threads, DeallocCallbackThrows(t) PROVE Inv'
<1>. DEFINE c == Idle
<1>1. call[t].pc = "check" /\ call[t].op = "deallocate" /\ call' = [call EXCEPT ![t] = c]
  BY DEF DeallocCallbackThrows, To, Goto, At
<1>2. call[t] \in Calls /\ CallOK(t) /\ c \in Calls
  BY SizesAssumption, RetriesAssumption DEF Inv, Shape, TypeOK, CallsOK, Calls, Idle
<1>3. /\ call' \in [Threads -> Calls] /\ call'[t] = c
      /\ \A u \in Threads \ {t} : call'[u] = call[u]
  BY <1>1, <1>2, CallStep DEF Inv, Shape
<1>4. TypeOK'
  BY <1>1, <1>3 DEF DeallocCallbackThrows, Inv, Shape, TypeOK, history
<1>5. CallOK(t)'
  BY <1>1, <1>2, <1>3 DEF DeallocCallbackThrows, CallOK, Calls, Idle
<1>6. InHand(t)' = InHand(t)
  BY <1>1, <1>2, <1>3 DEF InHand, Outside, CallOK, Calls, Idle
<1>7. MaxBehind'
  BY <1>1, <1>2, <1>3 DEF DeallocCallbackThrows, Inv, MaxBehind, At, Idle
<1>8. OneCall'
  <2>1. Told(call[t], above, total) => Told(call'[t], above', total')
    BY <1>1, <1>2, <1>3, CheckTells
       DEF DeallocCallbackThrows, Told, Calls, Reached, Idle, Outside
  <2>2. Kept(call[t], peak, maxTotal, total) => Kept(call'[t], peak', maxTotal', total')
    BY <1>1, <1>2, <1>3 DEF DeallocCallbackThrows, history, Kept, Calls, Idle
  <2>. QED BY <1>1, <1>3, <2>1, <2>2, OnlyCall DEF DeallocCallbackThrows, Inv, At, history, Outside
<1>. QED BY <1>1, <1>3, <1>4, <1>5, <1>6, <1>7, <1>8, PlainStep DEF DeallocCallbackThrows, history, Idle

\* The handler reads the total before an allocation or a release.
LEMMA TotalBeforeStep == ASSUME Inv, NEW t \in Threads, TotalBefore(t) PROVE Inv'
<1>. DEFINE c == [call[t] EXCEPT !.before = total, !.pc = IF call[t].op = "allocate" THEN "allocate" ELSE "release"]
<1>1. call[t].pc = "before" /\ call' = [call EXCEPT ![t] = c]
  BY DEF TotalBefore, To, Goto, At
<1>2. call[t] \in Calls /\ CallOK(t) /\ c \in Calls
  BY <1>1 DEF TotalBefore, Inv, Shape, TypeOK, CallsOK, CallOK, Calls, Idle
<1>3. /\ call' \in [Threads -> Calls] /\ call'[t] = c
      /\ \A u \in Threads \ {t} : call'[u] = call[u]
  BY <1>1, <1>2, CallStep DEF Inv, Shape
<1>4. TypeOK'
  BY <1>1, <1>3 DEF TotalBefore, Inv, Shape, TypeOK, history
<1>5. CallOK(t)'
  BY <1>1, <1>2, <1>3 DEF TotalBefore, CallOK, Calls, Idle
<1>6. InHand(t)' = InHand(t)
  BY <1>1, <1>2, <1>3 DEF InHand, Outside, CallOK, Calls, Idle
<1>7. MaxBehind'
  BY <1>1, <1>2, <1>3 DEF TotalBefore, Inv, MaxBehind, At, Idle
<1>8. OneCall'
  <2>1. Told(call[t], above, total) => Told(call'[t], above', total')
    <3>1. /\ call'[t].pc \in {"allocate", "release"} /\ call'[t].before = total
          /\ call'[t].pc = "release" => call'[t].op # "allocate"
          /\ above' = above /\ total' = total /\ total \in Nat
      BY <1>1, <1>2, <1>3 DEF TotalBefore, Calls, Inv, Shape, TypeOK
    <3>2. Moved(call'[t]) = 0
      BY <3>1 DEF Moved
    <3>. QED BY <1>1, <3>1, <3>2 DEF Told
  <2>2. Kept(call[t], peak, maxTotal, total) => Kept(call'[t], peak', maxTotal', total')
    BY <1>1, <1>2, <1>3 DEF TotalBefore, history, Kept, Calls
  <2>. QED BY <1>1, <1>3, <2>1, <2>2, OnlyCall DEF TotalBefore, Inv, At, history, Outside
<1>. QED BY <1>1, <1>3, <1>4, <1>5, <1>6, <1>7, <1>8, PlainStep DEF TotalBefore, history, Idle

\* The second counter of deallocate: scoped_allocated -= size.
LEMMA SubScopedStep == ASSUME Inv, NEW t \in Threads, SubScoped(t) PROVE Inv'
<1>. DEFINE c == IF call[t].op = "allocate" THEN Idle ELSE [call[t] EXCEPT !.pc = "after"]
<1>1. call[t].pc = "sub_scoped" /\ call' = [call EXCEPT ![t] = c]
  BY DEF SubScoped, To, Goto, At
<1>2. call[t] \in Calls /\ CallOK(t) /\ c \in Calls
  BY RetriesAssumption DEF Inv, Shape, TypeOK, CallsOK, Calls, Idle
<1>3. /\ call' \in [Threads -> Calls] /\ call'[t] = c
      /\ \A u \in Threads \ {t} : call'[u] = call[u]
  BY <1>1, <1>2, CallStep DEF Inv, Shape
<1>4. TypeOK'
  <2>1. Round(call[t].n) \in Nat
    BY RoundTypes DEF Inv, Shape
  <2>. QED BY <1>1, <1>3, <2>1 DEF SubScoped, Inv, Shape, TypeOK, history
<1>5. CallOK(t)'
  BY <1>1, <1>2, <1>3 DEF SubScoped, CallOK, Calls, Idle
<1>6. InHand(t)' = InHand(t)
  BY <1>1, <1>2, <1>3 DEF InHand, Outside, CallOK, Calls, Idle
<1>7. MaxBehind'
  <2>1. Round(call[t].n) \in Nat
    BY RoundTypes DEF Inv, Shape
  <2>2. scoped' <= scoped /\ scoped' \in Int /\ scoped \in Int /\ scopedMax \in Int
    BY <2>1 DEF SubScoped, Inv, Shape, TypeOK
  <2>3. maxTotal' >= total' \/ \E u \in Threads : At(u, "add_scoped")' \/ At(u, "maximum")'
    BY <1>1, <1>3 DEF SubScoped, Inv, MaxBehind, At
  <2>4. \/ scopedMax' >= scoped'
        \/ \E u \in Threads : At(u, "maximum")' \/ At(u, "scoped_maximum")' \/ At(u, "reset_max")'
    BY <1>1, <1>3, <2>2 DEF SubScoped, Inv, MaxBehind, At
  <2>5. ASSUME NEW u \in Threads, At(u, "reset_max")'
        PROVE  scoped' <= call'[u].before \/ \E x \in Threads : At(x, "maximum")'
    <3>1. u # t /\ call'[u] = call[u] /\ call[u].before \in Int
      BY <1>1, <1>3, <2>5 DEF At, Idle, Inv, Shape, TypeOK, Calls
    <3>2. scoped <= call[u].before \/ \E x \in Threads : At(x, "maximum")
      BY <2>5, <3>1 DEF Inv, MaxBehind, At
    <3>. QED BY <1>1, <1>3, <2>2, <3>1, <3>2 DEF At
  <2>. QED BY <2>3, <2>4, <2>5 DEF MaxBehind
<1>8. OneCall'
  <2>1. Told(call[t], above, total) => Told(call'[t], above', total')
    BY <1>1, <1>2, <1>3, RoundIsNat DEF SubScoped, history, Told, Moved, Outside, Calls, CallOK, Idle
  <2>2. Kept(call[t], peak, maxTotal, total) => Kept(call'[t], peak', maxTotal', total')
    BY <1>1, <1>2, <1>3 DEF SubScoped, history, Kept, Calls, Idle
  <2>. QED BY <1>1, <1>3, <2>1, <2>2, OnlyCall DEF SubScoped, Inv, At, history, Outside
<1>. QED BY <1>1, <1>3, <1>4, <1>5, <1>6, <1>7, <1>8, PlainStep DEF SubScoped, history, Idle

----------------------------------------------------------------------------
(* The steps that move an address or count one.                            *)

\* A new call makes the others of its time overlap.
LEMMA NewCall ==
  ASSUME Inv, NEW t \in Threads, \A u \in Threads \ {t} : call'[u] = call[u],
         call[t].pc = "idle", call'[t].pc = "before", overlap' = (overlap \/ ~Quiet),
         UNCHANGED <<above, total, maxTotal, peak>>
  PROVE  OneCall'
<1>. SUFFICES ASSUME ~overlap'
              PROVE  /\ Quiet' => above' \ {0} = Reached(total') /\ peak' = maxTotal'
                     /\ \A u \in Threads : call'[u].pc \notin Outside =>
                          /\ Alone(u)' /\ Told(call'[u], above', total')
                          /\ Kept(call'[u], peak', maxTotal', total')
  BY DEF OneCall, Reached, Told, Moved, Kept
<1>1. Quiet /\ above \ {0} = Reached(total) /\ peak = maxTotal
  BY DEF Inv, OneCall
<1>. QED BY <1>1 DEF Quiet, Alone, Told, Kept, Outside

\* The allocator below gives a block.
LEMMA AllocateStep ==
  ASSUME Inv, NEW t \in Threads, NEW n \in Sizes, Allocate(t, n) PROVE Inv'
<1>. DEFINE c == [Idle EXCEPT !.pc = "before", !.op = "allocate", !.n = n]
<1>1. call[t].pc = "idle" /\ call' = [call EXCEPT ![t] = c]
  BY DEF Allocate, Goto, At
<1>2. call[t] \in Calls /\ call[t] = Idle /\ c \in Calls /\ n # 0
  BY <1>1, SizesAssumption, RetriesAssumption DEF Inv, Shape, TypeOK, CallsOK, CallOK, Calls, Idle
<1>3. /\ call' \in [Threads -> Calls] /\ call'[t] = c
      /\ \A u \in Threads \ {t} : call'[u] = call[u]
  BY <1>1, <1>2, CallStep DEF Inv, Shape
<1>4. TypeOK'
  BY <1>1, <1>3 DEF Allocate, Inv, Shape, TypeOK, Quiet
<1>5. CallOK(t)'
  BY <1>2, <1>3 DEF CallOK, Idle
<1>6. InHand(t)' = InHand(t)
  BY <1>1, <1>2, <1>3 DEF InHand, Outside, Idle
<1>7. MaxBehind'
  BY <1>1, <1>2, <1>3 DEF Allocate, Inv, MaxBehind, At, Idle
<1>8. OneCall'
  BY <1>1, <1>3, NewCall DEF Allocate, Idle
<1>. QED BY <1>1, <1>3, <1>4, <1>5, <1>6, <1>7, <1>8, PlainStep DEF Allocate, Idle

\* The application gives an address back.
LEMMA DeallocateStep ==
  ASSUME Inv, NEW t \in Threads, NEW b \in Blocks, Deallocate(t, b) PROVE Inv'
<1>. DEFINE c == [Idle EXCEPT !.pc = "before", !.op = "deallocate", !.b = b]
<1>1. /\ call[t].pc = "idle" /\ call' = [call EXCEPT ![t] = c] /\ b \in app /\ b # None
      /\ app' = app \ {b} /\ overlap' = (overlap \/ ~Quiet)
      /\ UNCHANGED <<size, total, maxTotal, scoped, scopedMax, above, dropped, peak>>
  BY NoneAssumption DEF Deallocate, Goto, At
<1>2. call[t] \in Calls /\ call[t] = Idle /\ c \in Calls
  BY <1>1, RetriesAssumption DEF Inv, Shape, TypeOK, CallsOK, CallOK, Calls, Idle
<1>3. /\ call' \in [Threads -> Calls] /\ call'[t] = c
      /\ \A u \in Threads \ {t} : call'[u] = call[u]
  BY <1>1, <1>2, CallStep DEF Inv, Shape
<1>4. TypeOK'
  BY <1>1, <1>3 DEF Inv, Shape, TypeOK, Quiet
<1>5. CallOK(t)'
  BY <1>1, <1>3 DEF CallOK, Idle
<1>6. CallsOK'
  BY <1>1, <1>3, <1>5, OthersShape DEF Inv, Shape
<1>7. NothingLeaks'
  <2>1. InHand(t) = {} /\ InHand(t)' = {b} /\ \A u \in Threads \ {t} : InHand(u)' = InHand(u)
    BY <1>1, <1>2, <1>3 DEF InHand, Outside, Idle
  <2>2. Allocated' = Allocated
    BY <1>1 DEF Allocated
  <2>3. NothingLeaks /\ app \cap dropped = {} /\ Mine(t) \subseteq Allocated
    BY DEF Inv, NothingLeaks, Mine
  <2>4. Mine(t)' = Mine(t)
    BY <1>1, <2>1 DEF Mine
  <2>. QED BY <1>1, <2>1, <2>2, <2>3, <2>4, HandStep
<1>8. TotalCounts'
  BY <1>1, <1>3, CountUnchanged DEF Inv, At, Idle
<1>9. MaxBehind'
  BY <1>1, <1>2, <1>3 DEF Inv, MaxBehind, At, Idle
<1>10. OneCall'
  BY <1>1, <1>3, NewCall DEF Idle
<1>. QED BY <1>4, <1>6, <1>7, <1>8, <1>9, <1>10 DEF Inv, Shape

\* What is counted of an address is at most its size; what is owed is a size.
LEMMA CountTypes ==
  ASSUME TypeOK
  PROVE  /\ \A b \in Blocks : Counted[b] \in Nat
         /\ \A t \in Threads : Owed[t] \in Nat
         /\ IsFiniteSet(Blocks) /\ IsFiniteSet(Threads)
BY RoundTypes, FiniteAssumption DEF Counted, Owed

\* The two sums that the total is made of are numbers.
LEMMA CountSums ==
  ASSUME TypeOK
  PROVE  SumFunctionOnSet(Counted, Blocks) \in Nat /\ SumFunctionOnSet(Owed, Threads) \in Nat
<1>1. \A b \in Blocks : Counted[b] \in Nat
  BY CountTypes
<1>2. \A t \in Threads : Owed[t] \in Nat
  BY CountTypes
<1>3. SumFunctionOnSet(Counted, Blocks) \in Nat
  BY <1>1, FiniteAssumption, SumType
<1>4. SumFunctionOnSet(Owed, Threads) \in Nat
  BY <1>2, FiniteAssumption, SumType
<1>. QED BY <1>3, <1>4

\* The address that a thread has in hand is allocated, and nobody else's.
LEMMA InHandAlone ==
  ASSUME Inv, NEW t \in Threads, NEW b \in InHand(t)
  PROVE  /\ b \in Blocks /\ b = call[t].b /\ size[b] # 0 /\ b \notin app /\ b \notin dropped
         /\ \A u \in Threads \ {t} : b \notin InHand(u)
<1>1. b = call[t].b
  BY DEF InHand, Outside
<1>2. b \in Allocated
  BY DEF Inv, NothingLeaks
<1>. QED BY <1>1, <1>2 DEF Inv, NothingLeaks, Allocated

\* What is allocated is a number, and the total if every size is counted.
LEMMA UsedType == ASSUME TypeOK PROVE Used \in Nat
<1>. DEFINE f == [b \in Blocks |-> Round(size[b])]
<1>1. \A b \in Blocks : f[b] \in Nat
  BY RoundTypes
<1>2. Used = SumFunctionOnSet(f, Blocks)
  BY DEF Used, SumFunction
<1>. HIDE DEF f
<1>. QED BY <1>1, <1>2, FiniteAssumption, SumType

LEMMA UsedCounted ==
  ASSUME Inv, \A t \in Threads : ~At(t, "add_total") /\ ~At(t, "sub_total")
  PROVE  total = Used
<1>. DEFINE f == [b \in Blocks |-> Round(size[b])]
<1>1. \A b \in Blocks : Counted[b] = f[b]
  BY DEF Counted
<1>2. \A t \in Threads : Owed[t] = 0
  BY DEF Owed
<1>3. SumFunctionOnSet(Owed, Threads) = 0
  BY <1>2, FiniteAssumption, SumZero
<1>4. SumFunctionOnSet(Counted, Blocks) = SumFunctionOnSet(f, Blocks)
  <2>. HIDE DEF f
  <2>. QED BY <1>1, FiniteAssumption, SumEqual
<1>5. Used = SumFunctionOnSet(f, Blocks)
  BY DEF Used, SumFunction
<1>6. SumFunctionOnSet(Counted, Blocks) \in Nat
  BY CountSums DEF Inv, Shape
<1>. QED BY <1>3, <1>4, <1>5, <1>6 DEF Inv, TotalCounts

\* A new address adds its size.
LEMMA UsedGrows ==
  ASSUME TypeOK, NEW b \in Blocks, NEW n \in Nat, size[b] = 0, size' = [size EXCEPT ![b] = n]
  PROVE  Used' = Used + Round(n)
<1>. DEFINE f == [x \in Blocks |-> Round(size[x])]
            g == [x \in Blocks |-> Round(size'[x])]
<1>1. \A x \in Blocks : f[x] \in Int
  BY RoundTypes
<1>2. f[b] = 0
  BY RoundZero
<1>3. g[b] = Round(n) /\ \A x \in Blocks \ {b} : g[x] = f[x]
  BY DEF TypeOK
<1>4. Round(n) \in Int
  BY RoundIsNat
<1>5. Used = SumFunctionOnSet(f, Blocks) /\ Used' = SumFunctionOnSet(g, Blocks)
  BY DEF Used, SumFunction
<1>6. SumFunctionOnSet(f, Blocks) \in Nat
  BY <1>5, UsedType
<1>. HIDE DEF f, g
<1>7. SumFunctionOnSet(g, Blocks) = SumFunctionOnSet(f, Blocks) - f[b] + g[b]
  BY <1>1, <1>3, <1>4, FiniteAssumption, SumUpdate
<1>. QED BY <1>2, <1>3, <1>4, <1>5, <1>6, <1>7

\* The upstream resource gives an address that nobody has.
LEMMA UpstreamStep ==
  ASSUME Inv, NEW t \in Threads, NEW b \in Blocks, Upstream(t, b) PROVE Inv'
<1>. DEFINE c == [call[t] EXCEPT !.pc = "add_total", !.b = b]
<1>1. /\ call[t].pc = "allocate" /\ call' = [call EXCEPT ![t] = c] /\ size[b] = 0
      /\ size' = [size EXCEPT ![b] = call[t].n] /\ b # None
      /\ peak' = Max({peak, Used'})
      /\ UNCHANGED <<app, total, maxTotal, scoped, scopedMax, above, dropped, overlap>>
  BY NoneAssumption DEF Upstream, Goto, At, history
<1>2. call[t] \in Calls /\ CallOK(t) /\ c \in Calls /\ call[t].n # 0 /\ call[t].b = None
  BY <1>1, ZenonT(40) DEF Inv, Shape, TypeOK, CallsOK, CallOK, Calls
<1>3. /\ call' \in [Threads -> Calls] /\ call'[t] = c
      /\ \A u \in Threads \ {t} : call'[u] = call[u]
  BY <1>1, <1>2, CallStep DEF Inv, Shape
<1>4. size' \in [Blocks -> Sizes \cup {0}] /\ size'[b] = call[t].n
  BY <1>1, <1>2 DEF Inv, Shape, TypeOK, Calls
<1>11. Used' = Used + Round(call[t].n) /\ Used \in Nat /\ Round(call[t].n) \in Nat
  BY <1>1, UsedGrows, UsedType, RoundTypes DEF Inv, Shape
<1>5. TypeOK'
  <2>1. peak' \in Nat
    <3>1. peak \in Nat /\ Used' \in Nat
      BY <1>11 DEF Inv, Shape, TypeOK
    <3>. QED BY <1>1, <3>1, MaxOfTwo
  <2>. QED BY <1>1, <1>3, <1>4, <2>1 DEF Inv, Shape, TypeOK
<1>6. CallsOK'
  <2>1. CallOK(t)'
    BY <1>1, <1>2, <1>3, <1>4 DEF CallOK, Calls
  <2>2. ASSUME NEW u \in Threads \ {t} PROVE CallOK(u)'
    <3>1. CallOK(u) /\ call[u] \in Calls
      BY DEF Inv, Shape, TypeOK, CallsOK
    <3>2. call[u].b # b => size'[call[u].b] = size[call[u].b]
      BY <1>1 DEF Inv, Shape, TypeOK
    <3>. QED BY <1>1, <1>3, <3>1, <3>2 DEF CallOK
  <2>. QED BY <2>1, <2>2 DEF CallsOK
<1>7. NothingLeaks'
  <2>1. InHand(t) = {} /\ InHand(t)' = {b} /\ \A u \in Threads \ {t} : InHand(u)' = InHand(u)
    BY <1>1, <1>2, <1>3 DEF InHand, Outside, Calls, CallOK
  <2>2. b \notin Allocated /\ Allocated' = Allocated \cup {b}
    BY <1>1, <1>2, <1>4 DEF Allocated, Inv, Shape, TypeOK
  <2>3. NothingLeaks /\ app \cap dropped = {} /\ Mine(t) \subseteq Allocated
    BY DEF Inv, NothingLeaks, Mine
  <2>4. Mine(t)' = Mine(t) \cup {b}
    BY <1>1, <2>1 DEF Mine
  <2>5. InHand(t)' \cap (app' \cup dropped') = {}
    BY <1>1, <2>1, <2>2, <2>3 DEF Mine
  <2>. QED BY <1>1, <2>1, <2>2, <2>3, <2>4, <2>5, HandStep
<1>8. TotalCounts'
  <2>1. \A x \in Blocks : Counted'[x] = Counted[x]
    BY <1>1, <1>2, <1>3, RoundZero DEF Counted, At, Inv, Shape, TypeOK, Calls
  <2>2. Counted' = Counted
    BY <2>1 DEF Counted
  <2>3. Owed' = Owed
    BY <1>1, <1>2, <1>3 DEF Owed, At, Calls
  <2>. QED BY <1>1, <2>2, <2>3 DEF TotalCounts, Inv
<1>9. MaxBehind'
  BY <1>1, <1>2, <1>3 DEF Inv, MaxBehind, At, Calls
<1>10. OneCall'
  <2>1. Told(call[t], above, total) => Told(call'[t], above', total')
    BY <1>1, <1>2, <1>3 DEF Told, Moved, Kept, Outside, Calls
  <2>2. ASSUME Alone(t), Kept(call[t], peak, maxTotal, total)
        PROVE  Kept(call'[t], peak', maxTotal', total')
    <3>1. total = Used
      BY <1>1, <2>2, UsedCounted DEF Alone, At, Outside
    <3>2. peak = maxTotal
      BY <1>1, <2>2 DEF Kept
    <3>. QED BY <1>1, <1>2, <1>3, <1>11, <3>1, <3>2 DEF Kept, Calls
  <2>. QED BY <1>1, <1>3, <2>1, <2>2, OnlyCall DEF Inv, At, Outside
<1>. QED BY <1>5, <1>6, <1>7, <1>8, <1>9, <1>10 DEF Inv, Shape

\* An allocation is counted.
LEMMA AddTotalStep == ASSUME Inv, NEW t \in Threads, AddTotal(t) PROVE Inv'
<1>. DEFINE c == [call[t] EXCEPT !.pc = "add_scoped"]
            b == call[t].b
            r == Round(call[t].n)
<1>1. /\ call[t].pc = "add_total" /\ call' = [call EXCEPT ![t] = c] /\ total' = total + r
      /\ UNCHANGED <<size, app, maxTotal, scoped, scopedMax, above, dropped, overlap, peak>>
  BY DEF AddTotal, To, Goto, At, history
<1>2. /\ call[t] \in Calls /\ CallOK(t) /\ c \in Calls /\ b \in Blocks /\ b # None
      /\ call[t].op = "allocate" /\ size[b] = call[t].n /\ r \in Nat /\ total \in Nat
  BY <1>1, RoundTypes DEF Inv, Shape, TypeOK, CallsOK, CallOK, Calls
<1>3. /\ call' \in [Threads -> Calls] /\ call'[t] = c
      /\ \A u \in Threads \ {t} : call'[u] = call[u]
  BY <1>1, <1>2, CallStep DEF Inv, Shape
<1>4. InHand(t) = {b} /\ InHand(t)' = {b}
  BY <1>1, <1>2, <1>3 DEF InHand, Outside, Calls
<1>5. TypeOK'
  BY <1>1, <1>2, <1>3 DEF Inv, Shape, TypeOK
<1>6. CallsOK'
  <2>1. CallOK(t)'
    BY <1>1, <1>2, <1>3 DEF CallOK, Calls
  <2>. QED BY <1>1, <1>3, <2>1, OthersShape DEF Inv, Shape
<1>7. NothingLeaks'
  BY <1>1, <1>3, <1>4, HandsUnchanged DEF Inv
<1>8. TotalCounts'
  <2>1. ASSUME NEW u \in Threads \ {t} PROVE ~(At(u, "add_total") /\ call[u].b = b)
    BY <1>4, <1>2, InHandAlone DEF InHand, Outside, At
  <2>2. Counted[b] = 0 /\ Counted'[b] = r /\ \A x \in Blocks \ {b} : Counted'[x] = Counted[x]
    BY <1>1, <1>2, <1>3, <2>1 DEF Counted, At, Calls
  <2>3. Owed' = Owed
    BY <1>1, <1>2, <1>3 DEF Owed, At, Calls
  <2>4. SumFunctionOnSet(Counted', Blocks) = SumFunctionOnSet(Counted, Blocks) - 0 + r
    <3>. HIDE DEF b, r
    <3>1. Counted'[b] \in Int /\ \A x \in Blocks : Counted[x] \in Int
      BY <1>2, <2>2, CountTypes DEF Inv, Shape
    <3>. QED BY <1>2, <2>2, <3>1, SumUpdate, FiniteAssumption
  <2>5. SumFunctionOnSet(Counted, Blocks) \in Nat /\ SumFunctionOnSet(Owed, Threads) \in Nat
    BY CountSums DEF Inv, Shape
  <2>. QED BY <1>1, <1>2, <2>3, <2>4, <2>5 DEF TotalCounts, Inv
<1>9. MaxBehind'
  BY <1>1, <1>2, <1>3 DEF Inv, MaxBehind, At, Calls
<1>10. OneCall'
  <2>1. Told(call[t], above, total) => Told(call'[t], above', total')
    BY <1>1, <1>2, <1>3 DEF Told, Moved, Kept, Outside, Calls
  <2>2. Kept(call[t], peak, maxTotal, total) => Kept(call'[t], peak', maxTotal', total')
    BY <1>1, <1>2, <1>3 DEF Kept, Calls
  <2>. QED BY <1>1, <1>3, <2>1, <2>2, OnlyCall DEF Inv, At, Outside
<1>. QED BY <1>5, <1>6, <1>7, <1>8, <1>9, <1>10 DEF Inv, Shape

\* An address goes back: a deallocation, or an allocation whose callback threw.
LEMMA ReleaseStep == ASSUME Inv, NEW t \in Threads, Release(t) PROVE Inv'
<1>. DEFINE b == call[t].b
            c == [call[t] EXCEPT !.pc = "sub_total", !.n = size[b]]
            r == Round(size[b])
<1>1. /\ call[t].pc = "release" /\ call' = [call EXCEPT ![t] = c]
      /\ size' = [size EXCEPT ![b] = 0]
      /\ UNCHANGED <<app, total, maxTotal, scoped, scopedMax, above, dropped, overlap, peak>>
  BY DEF Release, Goto, At, history
<1>2. call[t] \in Calls /\ CallOK(t) /\ b \in Blocks /\ b # None
  BY <1>1 DEF Inv, Shape, TypeOK, CallsOK, CallOK, Calls
<1>3. InHand(t) = {b}
  BY <1>1, <1>2 DEF InHand, Outside, Calls
<1>4. /\ size[b] # 0 /\ b \notin app /\ b \notin dropped
      /\ \A u \in Threads \ {t} : b \notin InHand(u)
  BY <1>3, InHandAlone
<1>5. c \in Calls /\ r \in Nat /\ (call[t].op = "allocate" => size[b] = call[t].n)
  BY <1>1, <1>2, RoundTypes DEF Inv, Shape, TypeOK, Calls, CallOK
<1>6. /\ call' \in [Threads -> Calls] /\ call'[t] = c
      /\ \A u \in Threads \ {t} : call'[u] = call[u]
  BY <1>1, <1>5, CallStep DEF Inv, Shape
<1>7. size' \in [Blocks -> Sizes \cup {0}] /\ size'[b] = 0
      /\ \A x \in Blocks \ {b} : size'[x] = size[x]
  BY <1>1, <1>2 DEF Inv, Shape, TypeOK
<1>8. TypeOK'
  BY <1>1, <1>6, <1>7 DEF Inv, Shape, TypeOK
<1>9. CallsOK'
  <2>1. CallOK(t)'
    BY <1>1, <1>2, <1>4, <1>5, <1>6 DEF CallOK, Calls
  <2>2. ASSUME NEW u \in Threads \ {t} PROVE CallOK(u)'
    <3>1. CallOK(u) /\ call[u] \in Calls
      BY DEF Inv, Shape, TypeOK, CallsOK
    <3>2. ASSUME call[u].op = "allocate",
                 call[u].pc \in {"add_total", "add_scoped", "maximum", "scoped_maximum", "after",
                                 "check", "return", "release"}
          PROVE  call[u].b # None /\ size'[call[u].b] = call[u].n
      <4>1. call[u].b \in Blocks /\ call[u].b \in InHand(u) /\ size[call[u].b] = call[u].n
        BY <3>1, <3>2 DEF CallOK, Calls, InHand, Outside
      <4>. QED BY <1>4, <1>7, <3>1, <3>2, <4>1 DEF CallOK
    <3>. QED BY <1>6, <3>1, <3>2 DEF CallOK
  <2>. QED BY <2>1, <2>2 DEF CallsOK
<1>10. NothingLeaks'
  <2>1. InHand(t)' = {} /\ \A u \in Threads \ {t} : InHand(u)' = InHand(u)
    BY <1>1, <1>2, <1>5, <1>6 DEF InHand, Outside, Calls
  <2>2. b \in Allocated /\ Allocated' = Allocated \ {b}
    BY <1>2, <1>4, <1>7 DEF Allocated
  <2>3. NothingLeaks /\ app \cap dropped = {} /\ Mine(t) \subseteq Allocated /\ b \in Mine(t)
    BY <1>3 DEF Inv, NothingLeaks, Mine
  <2>4. Mine(t)' = Mine(t) \ {b}
    BY <1>1, <1>3, <1>4, <2>1 DEF Mine
  <2>. HIDE DEF b
  <2>. QED BY <1>1, <2>1, <2>2, <2>3, <2>4, HandStep
<1>11. TotalCounts'
  <2>1. ASSUME NEW u \in Threads \ {t} PROVE ~(At(u, "add_total") /\ call[u].b = b)
    BY <1>2, <1>4 DEF InHand, Outside, At
  <2>2. Counted[b] = r /\ Counted'[b] = 0 /\ \A x \in Blocks \ {b} : Counted'[x] = Counted[x]
    BY <1>1, <1>2, <1>5, <1>6, <1>7, <2>1, RoundZero DEF Counted, At, Calls
  <2>3. Owed[t] = 0 /\ Owed'[t] = r /\ \A u \in Threads \ {t} : Owed'[u] = Owed[u]
    BY <1>1, <1>2, <1>5, <1>6 DEF Owed, At, Calls
  <2>. HIDE DEF b, r
  <2>4. SumFunctionOnSet(Counted', Blocks) = SumFunctionOnSet(Counted, Blocks) - r + 0
    <3>1. Counted'[b] \in Int /\ \A x \in Blocks : Counted[x] \in Int
      BY <2>2, CountTypes DEF Inv, Shape
    <3>. QED BY <1>2, <2>2, <3>1, SumUpdate, FiniteAssumption
  <2>5. SumFunctionOnSet(Owed', Threads) = SumFunctionOnSet(Owed, Threads) - 0 + r
    <3>1. Owed'[t] \in Int /\ \A u \in Threads : Owed[u] \in Int
      BY <1>5, <2>3, CountTypes DEF Inv, Shape
    <3>. QED BY <2>3, <3>1, SumUpdate, FiniteAssumption
  <2>6. SumFunctionOnSet(Counted, Blocks) \in Nat /\ SumFunctionOnSet(Owed, Threads) \in Nat
    BY CountSums DEF Inv, Shape
  <2>. QED BY <1>1, <1>5, <2>4, <2>5, <2>6 DEF TotalCounts, Inv
<1>12. MaxBehind'
  BY <1>1, <1>2, <1>5, <1>6 DEF Inv, MaxBehind, At, Calls
<1>13. OneCall'
  <2>1. Told(call[t], above, total) => Told(call'[t], above', total')
    BY <1>1, <1>2, <1>5, <1>6 DEF Told, Moved, Kept, Outside, Calls
  <2>2. Kept(call[t], peak, maxTotal, total) => Kept(call'[t], peak', maxTotal', total')
    BY <1>1, <1>2, <1>5, <1>6 DEF Kept, Calls
  <2>. QED BY <1>1, <1>6, <2>1, <2>2, OnlyCall DEF Inv, At, Outside
<1>. QED BY <1>8, <1>9, <1>10, <1>11, <1>12, <1>13 DEF Inv, Shape

\* What went back is no longer counted.
LEMMA SubTotalStep == ASSUME Inv, NEW t \in Threads, SubTotal(t) PROVE Inv'
<1>. DEFINE c == [call[t] EXCEPT !.pc = "sub_scoped"]
            r == Round(call[t].n)
<1>1. /\ call[t].pc = "sub_total" /\ call' = [call EXCEPT ![t] = c] /\ total' = total - r
      /\ UNCHANGED <<size, app, maxTotal, scoped, scopedMax, above, dropped, overlap, peak>>
  BY DEF SubTotal, To, Goto, At, history
<1>2. /\ call[t] \in Calls /\ CallOK(t) /\ c \in Calls /\ r \in Nat /\ total \in Nat
      /\ call[t].op \in {"allocate", "deallocate"} /\ maxTotal \in Nat
  BY <1>1, RoundTypes DEF Inv, Shape, TypeOK, CallsOK, CallOK, Calls
<1>3. /\ call' \in [Threads -> Calls] /\ call'[t] = c
      /\ \A u \in Threads \ {t} : call'[u] = call[u]
  BY <1>1, <1>2, CallStep DEF Inv, Shape
<1>4. InHand(t)' = InHand(t)
  BY <1>1, <1>2, <1>3 DEF InHand, Outside, Calls
<1>5. TotalCounts'
  <2>1. Counted' = Counted
    BY <1>1, <1>2, <1>3 DEF Counted, At, Calls
  <2>2. Owed[t] = r /\ Owed'[t] = 0 /\ \A u \in Threads \ {t} : Owed'[u] = Owed[u]
    BY <1>1, <1>2, <1>3 DEF Owed, At, Calls
  <2>. HIDE DEF r
  <2>3. SumFunctionOnSet(Owed', Threads) = SumFunctionOnSet(Owed, Threads) - r + 0
    <3>1. Owed'[t] \in Int /\ \A u \in Threads : Owed[u] \in Int
      BY <2>2, CountTypes DEF Inv, Shape
    <3>. QED BY <2>2, <3>1, SumUpdate, FiniteAssumption
  <2>4. SumFunctionOnSet(Counted, Blocks) \in Nat /\ SumFunctionOnSet(Owed, Threads) \in Nat
    BY CountSums DEF Inv, Shape
  <2>. QED BY <1>1, <1>2, <2>1, <2>3, <2>4 DEF TotalCounts, Inv
<1>6. total' \in Nat
  <2>1. \A b \in Blocks : Counted'[b] \in Nat
    BY <1>1, RoundTypes DEF Counted, Inv, Shape
  <2>2. \A u \in Threads : Owed'[u] \in Nat
    <3>1. \A u \in Threads : Round(call'[u].n) \in Nat
      BY <1>2, <1>3, RoundTypes DEF Inv, Shape, Calls
    <3>. QED BY <3>1 DEF Owed
  <2>3. SumFunctionOnSet(Counted', Blocks) \in Nat
    BY <2>1, FiniteAssumption, SumType
  <2>4. SumFunctionOnSet(Owed', Threads) \in Nat
    BY <2>2, FiniteAssumption, SumType
  <2>. QED BY <1>5, <2>3, <2>4 DEF TotalCounts
<1>7. TypeOK'
  BY <1>1, <1>3, <1>6 DEF Inv, Shape, TypeOK
<1>8. CallsOK'
  <2>1. CallOK(t)'
    BY <1>1, <1>2, <1>3 DEF CallOK, Calls
  <2>. QED BY <1>1, <1>3, <2>1, OthersShape DEF Inv, Shape
<1>9. NothingLeaks'
  BY <1>1, <1>3, <1>4, HandsUnchanged DEF Inv
<1>10. MaxBehind'
  BY <1>1, <1>2, <1>3 DEF Inv, MaxBehind, At, Calls
<1>11. OneCall'
  <2>1. Told(call[t], above, total) => Told(call'[t], above', total')
    BY <1>1, <1>2, <1>3 DEF Told, Moved, Kept, Outside, Calls
  <2>2. Kept(call[t], peak, maxTotal, total) => Kept(call'[t], peak', maxTotal', total')
    BY <1>1, <1>2, <1>3 DEF Kept, Calls
  <2>. QED BY <1>1, <1>3, <2>1, <2>2, OnlyCall DEF Inv, At, Outside
<1>. QED BY <1>5, <1>7, <1>8, <1>9, <1>10, <1>11 DEF Inv, Shape

\* A call ends: the application gets the address, unless onAllocated throws.
LEMMA EndStep ==
  ASSUME Inv, NEW t \in Threads, call[t].pc = "return", call' = [call EXCEPT ![t] = Idle],
         UNCHANGED <<size, total, maxTotal, scoped, scopedMax, above, overlap, peak>>,
         \/ app' = app \cup InHand(t) /\ dropped' = dropped
         \/ app' = app /\ dropped' = dropped \cup InHand(t)
  PROVE  Inv'
<1>1. call[t] \in Calls /\ CallOK(t) /\ Idle \in Calls
  BY RetriesAssumption DEF Inv, Shape, TypeOK, CallsOK, Calls, Idle
<1>2. /\ call' \in [Threads -> Calls] /\ call'[t] = Idle
      /\ \A u \in Threads \ {t} : call'[u] = call[u]
  BY <1>1, CallStep DEF Inv, Shape
<1>3. InHand(t) \subseteq Blocks /\ InHand(t) \cap (app \cup dropped) = {}
  BY <1>1 DEF InHand, Outside, Calls, Inv, NothingLeaks
<1>4. TypeOK'
  BY <1>2, <1>3 DEF Inv, Shape, TypeOK
<1>5. CallsOK'
  <2>1. CallOK(t)'
    BY <1>2 DEF CallOK, Idle
  <2>. QED BY <1>2, <2>1, OthersShape DEF Inv, Shape
<1>6. NothingLeaks'
  <2>1. InHand(t)' = {} /\ \A u \in Threads \ {t} : InHand(u)' = InHand(u)
    BY <1>2 DEF InHand, Outside, Idle
  <2>2. Allocated' = Allocated
    BY DEF Allocated
  <2>3. NothingLeaks /\ app \cap dropped = {} /\ Mine(t) \subseteq Allocated
    BY DEF Inv, NothingLeaks, Mine
  <2>4. Mine(t)' = Mine(t)
    BY <2>1 DEF Mine
  <2>5. app' \cap dropped' = {}
    BY <1>3, <2>3
  <2>. QED BY <2>1, <2>2, <2>3, <2>4, <2>5, HandStep
<1>7. TotalCounts'
  BY <1>2, CountUnchanged DEF Inv, At, Idle
<1>8. MaxBehind'
  BY <1>2 DEF Inv, MaxBehind, At, Idle
<1>9. OneCall'
  <2>1. Told(call[t], above, total) => Told(call'[t], above', total')
    BY <1>2 DEF Told, Idle, Outside
  <2>2. Kept(call[t], peak, maxTotal, total) => Kept(call'[t], peak', maxTotal', total')
    BY <1>1, <1>2 DEF Kept, Calls, Idle
  <2>. QED BY <1>2, <2>1, <2>2, OnlyCall DEF Inv, At, Outside
<1>. QED BY <1>4, <1>5, <1>6, <1>7, <1>8, <1>9 DEF Inv, Shape

\* A call returns.
LEMMA ReturnStep == ASSUME Inv, NEW t \in Threads, Return(t) PROVE Inv'
<1>1. /\ call[t].pc = "return" /\ call' = [call EXCEPT ![t] = Idle]
      /\ app' = IF call[t].op = "allocate" THEN app \cup {call[t].b} ELSE app
      /\ UNCHANGED <<size, total, maxTotal, scoped, scopedMax, above, dropped, overlap, peak>>
  BY DEF Return, Goto, At, history
<1>2. InHand(t) = IF call[t].op = "allocate" THEN {call[t].b} ELSE {}
  BY <1>1 DEF InHand, Outside, Inv, Shape, TypeOK, Calls, CallsOK, CallOK
<1>. QED BY <1>1, <1>2, EndStep

\* onAllocated of the debug handler throws, and the block is dropped.
LEMMA DebugThrowsStep == ASSUME Inv, NEW t \in Threads, DebugThrows(t) PROVE Inv'
<1>1. /\ call[t].pc = "return" /\ call' = [call EXCEPT ![t] = Idle]
      /\ call[t].op = "allocate" /\ dropped' = dropped \cup {call[t].b} /\ app' = app
      /\ UNCHANGED <<size, total, maxTotal, scoped, scopedMax, above, overlap, peak>>
  BY DEF DebugThrows, Goto, At
<1>2. InHand(t) = {call[t].b}
  BY <1>1 DEF InHand, Outside, Inv, Shape, CallsOK, CallOK
<1>. QED BY <1>1, <1>2, EndStep

\* A reset sets the scoped counter ...
LEMMA ResetScopedStep ==
  ASSUME Inv, NEW t \in Threads, NEW v \in Resets, ResetScoped(t, v) PROVE Inv'
<1>. DEFINE c == [Idle EXCEPT !.pc = "reset_max", !.op = "reset", !.before = v]
<1>1. /\ call[t].pc = "idle" /\ call' = [call EXCEPT ![t] = c] /\ MaxUnlocked /\ scoped' = v
      /\ UNCHANGED <<size, app, total, maxTotal, scopedMax, above, dropped, overlap, peak>>
  BY DEF ResetScoped, Goto, At, history
<1>2. call[t] \in Calls /\ call[t] = Idle /\ c \in Calls /\ v \in Nat
  BY <1>1, ResetsAssumption, RetriesAssumption
     DEF Inv, Shape, TypeOK, CallsOK, CallOK, Calls, Idle
<1>3. /\ call' \in [Threads -> Calls] /\ call'[t] = c
      /\ \A u \in Threads \ {t} : call'[u] = call[u]
  BY <1>1, <1>2, CallStep DEF Inv, Shape
<1>4. TypeOK'
  BY <1>1, <1>2, <1>3 DEF Inv, Shape, TypeOK
<1>5. CallOK(t)'
  BY <1>3 DEF CallOK, Idle
<1>6. InHand(t)' = InHand(t)
  BY <1>1, <1>3 DEF InHand, Outside, Idle
<1>7. MaxBehind'
  <2>1. At(t, "reset_max")' /\ call'[t].before = v /\ v <= v
    BY <1>2, <1>3 DEF At, Idle
  <2>2. \A u \in Threads \ {t} : ~At(u, "reset_max") /\ ~At(u, "reset_max")'
    BY <1>1, <1>3 DEF MaxUnlocked, At
  <2>3. maxTotal' >= total' \/ \E u \in Threads : At(u, "add_scoped")' \/ At(u, "maximum")'
    BY <1>1, <1>3 DEF Inv, MaxBehind, At
  <2>. QED BY <1>1, <2>1, <2>2, <2>3 DEF MaxBehind
<1>8. OneCall'
  BY <1>1, <1>3 DEF Inv, OneCall, Quiet, Alone, Outside, Told, Moved, Kept, Reached, Idle
<1>. QED BY <1>1, <1>3, <1>4, <1>5, <1>6, <1>7, <1>8, PlainStep DEF Idle

\* ... and then its maximum, which others raise meanwhile.
LEMMA ResetScopedMaxStep == ASSUME Inv, NEW t \in Threads, ResetScopedMax(t) PROVE Inv'
<1>1. /\ call[t].pc = "reset_max" /\ call' = [call EXCEPT ![t] = Idle]
      /\ scopedMax' = call[t].before
      /\ UNCHANGED <<size, app, total, maxTotal, scoped, above, dropped, overlap, peak>>
  BY DEF ResetScopedMax, Goto, At, history
<1>2. call[t] \in Calls /\ CallOK(t) /\ Idle \in Calls
  BY RetriesAssumption DEF Inv, Shape, TypeOK, CallsOK, Calls, Idle
<1>3. /\ call' \in [Threads -> Calls] /\ call'[t] = Idle
      /\ \A u \in Threads \ {t} : call'[u] = call[u]
  BY <1>1, <1>2, CallStep DEF Inv, Shape
<1>4. TypeOK'
  BY <1>1, <1>2, <1>3 DEF Inv, Shape, TypeOK, Calls
<1>5. CallOK(t)'
  BY <1>3 DEF CallOK, Idle
<1>6. InHand(t)' = InHand(t)
  BY <1>1, <1>3 DEF InHand, Outside, Idle
<1>7. MaxBehind'
  BY <1>1, <1>2, <1>3 DEF Inv, Shape, TypeOK, MaxBehind, At, Calls, Idle
<1>8. OneCall'
  BY <1>1, <1>3 DEF Inv, OneCall, Quiet, Alone, Outside, Told, Moved, Kept, Reached, Idle
<1>. QED BY <1>1, <1>3, <1>4, <1>5, <1>6, <1>7, <1>8, PlainStep DEF Idle

----------------------------------------------------------------------------
(* The behaviours.                                                         *)

\* At first nothing is allocated and no call is open.
LEMMA InitInv == Init => Inv
<1>. SUFFICES ASSUME Init PROVE Inv
  OBVIOUS
<1>1. Idle \in Calls
  BY RetriesAssumption DEF Calls, Idle
<1>2. TypeOK
  <2>1. call \in [Threads -> Calls] /\ size \in [Blocks -> Sizes \cup {0}]
    BY <1>1 DEF Init
  <2>2. overlap \in BOOLEAN
    BY DEF Init
  <2>. QED BY <2>1, <2>2 DEF Init, TypeOK
<1>3. CallsOK
  BY DEF Init, CallsOK, CallOK, Idle
<1>4. NothingLeaks
  <2>1. \A t \in Threads : InHand(t) = {}
    BY DEF Init, InHand, Idle
  <2>2. Allocated = {}
    BY DEF Init, Allocated
  <2>. QED BY <2>1, <2>2 DEF Init, NothingLeaks
<1>5. TotalCounts
  <2>1. \A b \in Blocks : Counted[b] = 0
    BY RoundZero DEF Init, Counted
  <2>2. \A t \in Threads : Owed[t] = 0
    BY DEF Init, Owed, At, Idle
  <2>3. SumFunctionOnSet(Counted, Blocks) = 0 /\ SumFunctionOnSet(Owed, Threads) = 0
    BY <2>1, <2>2, FiniteAssumption, SumZero
  <2>. QED BY <2>3 DEF Init, TotalCounts
<1>6. MaxBehind
  BY DEF Init, MaxBehind, At, Idle
<1>7. OneCall
  <2>1. Reached(0) = {}
    <3>1. \A x \in Thresholds \ {0} : ~(x <= 0)
      BY ThresholdsAssumption
    <3>. QED BY <3>1 DEF Reached
  <2>. QED BY <2>1 DEF Init, OneCall, Idle, Outside
<1>. QED BY <1>2, <1>3, <1>4, <1>5, <1>6, <1>7 DEF Inv, Shape

\* One lemma for each action of Next.
LEMMA NextInv == Inv /\ [Next]_vars => Inv'
<1>. SUFFICES ASSUME Inv, [Next]_vars PROVE Inv'
  OBVIOUS
<1>1. ASSUME NEW t \in Threads, NEW n \in Sizes, Allocate(t, n) PROVE Inv'
  BY <1>1, AllocateStep
<1>2. ASSUME NEW t \in Threads, NEW b \in Blocks, Deallocate(t, b) PROVE Inv'
  BY <1>2, DeallocateStep
<1>3. ASSUME NEW t \in Threads, Track(t) PROVE Inv'
  <2>1. ASSUME NEW b \in Blocks, Upstream(t, b) PROVE Inv'
    BY <2>1, UpstreamStep
  <2>2. ASSUME NEW v \in Resets, ResetScoped(t, v) PROVE Inv'
    BY <2>2, ResetScopedStep
  <2>. QED BY <1>3, <2>1, <2>2, ResetScopedMaxStep, UpstreamFailsStep, AddTotalStep, AddScopedStep, UpdateMaxStep,
              UpdateScopedMaxStep, ReleaseStep, SubTotalStep, SubScopedStep DEF Track
<1>4. ASSUME NEW t \in Threads, Handle(t) PROVE Inv'
  BY <1>4, TotalBeforeStep, RetryStep, GiveUpStep, TotalAfterStep, NotCrossedStep, CallbackStep,
     CallbackThrowsStep, DeallocCallbackThrowsStep, ReturnStep, DebugThrowsStep DEF Handle
<1>5. CASE UNCHANGED vars
  <2>1. UNCHANGED <<size, app, total, maxTotal, scoped, scopedMax, above, call, dropped,
                    overlap, peak>>
    BY <1>5 DEF vars, history
  <2>2. TypeOK'
    BY <2>1 DEF Inv, Shape, TypeOK
  <2>3. CallsOK'
    BY <2>1 DEF Inv, Shape, CallsOK, CallOK
  <2>4. NothingLeaks'
    BY <2>1 DEF Inv, NothingLeaks, Allocated, InHand
  <2>5. TotalCounts'
    BY <2>1 DEF Inv, TotalCounts, Counted, Owed, At
  <2>6. MaxBehind' /\ OneCall'
    BY <2>1 DEF Inv, MaxBehind, At, OneCall, Quiet, Alone, Told, Moved, Kept, Reached
  <2>. QED BY <2>2, <2>3, <2>4, <2>5, <2>6 DEF Inv, Shape
<1>. QED BY <1>1, <1>2, <1>3, <1>4, <1>5 DEF Next

\* Every state of every behaviour.
LEMMA InvHolds == Spec => []Inv
BY InitInv, NextInv, PTL DEF Spec

\* The counters of tracking_resource_adaptor have their types: total_allocated,
\* which is unsigned, never goes below zero, in whatever order the threads
\* count and release.
THEOREM TypeCorrect == Spec => []TypeOK
<1>1. Inv => TypeOK
  BY DEF Inv, Shape
<1>. QED BY <1>1, InvHolds, PTL

\* No failure, retry or throwing threshold callback of
\* java_event_handler_memory_resource loses an address or gives one to two
\* parties.
THEOREM NoAddressLeaks == Spec => []NothingLeaks
<1>1. Inv => NothingLeaks
  BY DEF Inv
<1>. QED BY <1>1, InvHolds, PTL

\* The total of tracking_resource_adaptor is exact whenever no call is under
\* way: updates apart from the allocations they count do not drift.
THEOREM TotalIsExact == Spec => []TotalExact
<1>1. Inv => TotalExact
  BY UsedCounted DEF TotalExact, Quiet, Outside, At
<1>. QED BY <1>1, InvHolds, PTL

\* What the maxima tell when no allocation or deallocation is under way: the
\* peak of the allocated memory if no two ever overlapped, else no more than a
\* bound on the present counters, the scoped maximum between the two stores of
\* a reset excepted.
THEOREM MaximaTell == Spec => []MaxCovers
<1>1. Inv => MaxCovers
  BY DEF Inv, MaxBehind, OneCall, MaxCovers, MaxUnlocked, Quiet, Outside, At
<1>. QED BY <1>1, InvHolds, PTL

\* As long as calls do not overlap, the callbacks of
\* check_for_threshold_callback tell the handler exactly which thresholds
\* the total has reached.
THEOREM HandlerKnowsThresholds == Spec => []ThresholdsSeen
<1>1. Inv => ThresholdsSeen
  BY DEF Inv, OneCall, ThresholdsSeen, Reached
<1>. QED BY <1>1, InvHolds, PTL
=============================================================================
