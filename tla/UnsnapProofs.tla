---------------------------- MODULE UnsnapProofs ----------------------------
(***************************************************************************)
(* Proofs about Unsnap, for any stream, any sizes of the ring and of the   *)
(* queue, and any symbols.                                                 *)
(*                                                                         *)
(* The ring has no lock: the prefetcher knows where the decoder is from a  *)
(* position that may be old, and the decoder knows what is there from one  *)
(* that may be old as well.  Both positions only grow, so what either warp *)
(* believes is on the safe side.                                           *)
(*                                                                         *)
(* The refinement of SnappyStream is about the other queue, of batches:    *)
(* its length fields alone pass the batches from the decoder to the copier *)
(* and back.  The decoder is known to be right about what it decodes from  *)
(* the first part.                                                         *)
(***************************************************************************)
EXTENDS Unsnap, SequenceTheorems, FoldTheorems

\* The ring holds the last PrefetchSize of the bytes copied, and none of them
\* has taken the place of one the decoder has not passed.
RingHolds ==
  /\ \A k \in Nat : pos - PrefetchSize <= k /\ k < pos => buf[k % PrefetchSize] = k
  /\ pos <= prefetch_rdpos + PrefetchSize
  /\ ppc = "copy" => pos + Chunk <= prefetch_rdpos + PrefetchSize
  /\ ppc = "enter" => pos = 0

\* The published positions are not ahead of the real ones.
Behind == pos <= in.end /\ prefetch_wrpos <= pos /\ prefetch_rdpos <= cur

\* While a batch is made, the bytes of all the symbols it has room for are there.
LookAhead ==
  /\ dpc = "symbol" => prefetch_wrpos >= Least(cur + SymbolBytes * (BatchSize - dlen), in.end)
  /\ dpc = "long" => dlen < BatchSize /\ sym \in Symbols

Sizes == left <= in.usize /\ bytes_left <= in.usize

RInv == TypeOK /\ RingHolds /\ Behind /\ LookAhead /\ Sizes

----------------------------------------------------------------------------
(* Arithmetic.                                                             *)

\* The smaller of two numbers.
LEMMA LeastIs ==
  ASSUME NEW a \in Int, NEW b \in Int
  PROVE  Least(a, b) \in Int /\ Least(a, b) <= a /\ Least(a, b) <= b /\ Least(a, b) \in {a, b}
BY DEF Least

\* The sizes of the ring and of the look-ahead.
LEMMA SizeFacts ==
  /\ PrefetchSize \in Nat \ {0} /\ Chunk \in Nat \ {0} /\ Chunk <= PrefetchSize
  /\ SymbolBytes \in Nat \ {0} /\ BatchSize \in Nat \ {0} /\ BatchCount \in Nat \ {0}
  /\ Window \in Nat /\ Window + Chunk <= PrefetchSize
<1>1. SymbolBytes * BatchSize \in Nat
  BY SizesAssumption
<1>. HIDE DEF Window
<1>2. Window = SymbolBytes * BatchSize
  BY DEF Window
<1>. QED BY <1>1, <1>2, SizesAssumption

\* How far ahead the symbols that a batch still lacks can reach.
LEMMA RoomForSymbols ==
  ASSUME NEW n \in 0 .. BatchSize
  PROVE  /\ SymbolBytes * (BatchSize - n) \in Nat
         /\ n = 0 => SymbolBytes * (BatchSize - n) = Window
         /\ n < BatchSize => /\ SymbolBytes * (BatchSize - n) >= SymbolBytes
                             /\ SymbolBytes * (BatchSize - (n + 1)) \in Nat
                             /\ SymbolBytes * (BatchSize - (n + 1)) + SymbolBytes
                                  = SymbolBytes * (BatchSize - n)
         /\ SymbolBytes * (BatchSize - n) <= Window
<1>1. n \in Nat /\ n <= BatchSize
  BY SizesAssumption
<1>. QED BY <1>1, SizesAssumption DEF Window

----------------------------------------------------------------------------
(* The ring.                                                               *)

\* The ring after n more bytes from position first on are stored: it holds them
\* and the bytes before them that are not PrefetchSize away from the last.
LEMMA StoredHolds ==
  ASSUME buf \in [0 .. PrefetchSize - 1 -> Nat \cup {-1}], NEW first \in Nat, NEW n \in Nat,
         n <= PrefetchSize,
         \A k \in Nat : first - PrefetchSize <= k /\ k < first => buf[k % PrefetchSize] = k
  PROVE  /\ Stored(first, n) \in [0 .. PrefetchSize - 1 -> Nat \cup {-1}]
         /\ \A k \in Nat : first + n - PrefetchSize <= k /\ k < first + n
                            => Stored(first, n)[k % PrefetchSize] = k
<1>. DEFINE New(i) == \E p \in first .. first + n - 1 : p % PrefetchSize = i
            At(i) == CHOOSE p \in first .. first + n - 1 : p % PrefetchSize = i
<1>1. PrefetchSize \in Nat \ {0}
  BY SizeFacts
<1>2. \A i : New(i) => At(i) \in first .. first + n - 1 /\ At(i) % PrefetchSize = i
  OBVIOUS
<1>3. Stored(first, n) = [i \in 0 .. PrefetchSize - 1 |-> IF New(i) THEN At(i) ELSE buf[i]]
  BY DEF Stored
<1>. HIDE DEF New, At
<1>4. Stored(first, n) \in [0 .. PrefetchSize - 1 -> Nat \cup {-1}]
  <2>1. \A i \in 0 .. PrefetchSize - 1 : New(i) => At(i) \in Nat
    BY <1>2
  <2>. QED BY <1>3, <2>1
<1>5. ASSUME NEW k \in Nat, first + n - PrefetchSize <= k, k < first + n
      PROVE  Stored(first, n)[k % PrefetchSize] = k
  <2>. DEFINE i == k % PrefetchSize
  <2>1. i \in 0 .. PrefetchSize - 1
    BY <1>1, ModRange
  <2>2. CASE New(i)
    <3>1. At(i) \in first .. first + n - 1 /\ At(i) % PrefetchSize = i
      BY <1>2, <2>2
    <3>2. \A q \in first .. first + n - 1 :
            q \in Nat /\ k - q < PrefetchSize /\ q - k < PrefetchSize
      BY <1>1, <1>5
    <3>3. At(i) = k
      BY <1>1, <3>1, <3>2, ModSame
    <3>. QED BY <1>3, <2>1, <2>2, <3>3
  <2>3. CASE ~New(i)
    <3>1. k \notin first .. first + n - 1
      BY <2>3 DEF New
    <3>2. k < first /\ first - PrefetchSize <= k
      BY <1>1, <1>5, <3>1
    <3>3. buf[i] = k
      BY <3>2
    <3>. QED BY <1>3, <2>1, <2>3, <3>3
  <2>. QED BY <2>2, <2>3
<1>. QED BY <1>4, <1>5

\* What the decoder looks at is in the ring.
LEMMA RInvIntact == RInv => RingIntact
<1>. SUFFICES ASSUME RInv, dpc = "symbol", More PROVE Intact(cur, SymbolBytes)
  BY DEF RingIntact
<1>1. /\ dlen \in 0 .. BatchSize /\ dlen < BatchSize /\ cur \in Nat /\ pos \in Nat
      /\ in.end \in Nat /\ prefetch_wrpos \in Nat /\ prefetch_rdpos \in Nat
  BY DEF RInv, TypeOK, More, InputType
<1>2. PrefetchSize \in Nat \ {0} /\ SymbolBytes \in Nat
  BY SizeFacts
<1>. DEFINE w == SymbolBytes * (BatchSize - dlen)
<1>3. w \in Nat /\ w >= SymbolBytes /\ prefetch_wrpos >= Least(cur + w, in.end)
  BY <1>1, RoomForSymbols DEF RInv, LookAhead
<1>. HIDE DEF w
<1>4. ASSUME NEW k \in cur .. cur + SymbolBytes - 1, k < in.end PROVE buf[k % PrefetchSize] = k
  <2>1. k \in Nat /\ k < prefetch_wrpos
    BY <1>1, <1>2, <1>3, <1>4 DEF Least
  <2>2. k < pos /\ pos - PrefetchSize <= k
    BY <1>1, <1>2, <2>1 DEF RInv, Behind, RingHolds
  <2>. QED BY <2>1, <2>2 DEF RInv, RingHolds
<1>. QED BY <1>4 DEF Intact

----------------------------------------------------------------------------
(* The warps keep the ring in order.                                       *)

Positions == <<input, pos, buf, ppc, prefetch_wrpos, prefetch_rdpos, cur, dpc, dlen, sym,
               left, bytes_left>>

\* A step that moves nobody along the stream keeps what is said of the ring.
LEMMA PositionsKept ==
  ASSUME RInv, UNCHANGED Positions
  PROVE  RingHolds' /\ Behind' /\ LookAhead' /\ Sizes'
BY DEF Positions, input, RInv, RingHolds, Behind, LookAhead, Sizes

\* __syncthreads() and the copier do not touch the ring.
LEMMA OtherRing == ASSUME RInv, Result \/ Copy PROVE RInv'
<1>1. UNCHANGED Positions
  BY DEF Result, Copy, CopyEnter, CopyTake, CopyBatch, CopyRelease, Positions, input,
         prefetchVars, decodeVars
<1>2. TypeOK
  BY DEF RInv
<1>3. CASE Result
  <2>1. written' \in Nat
    <3>1. in.usize \in Nat /\ bytes_left \in Nat /\ bytes_left <= in.usize
      BY DEF RInv, TypeOK, InputType, Sizes
    <3>. QED BY <1>3, <3>1 DEF Result
  <2>2. TypeOK'
    BY <1>2, <1>3, <2>1 DEF Result, TypeOK, input, prefetchVars, decodeVars, copyVars
  <2>. QED BY <1>1, <2>2, PositionsKept DEF RInv
<1>4. CASE CopyEnter
  <2>1. TypeOK'
    BY <1>2, <1>4 DEF CopyEnter, TypeOK, input, prefetchVars, decodeVars, resultVars
  <2>. QED BY <1>1, <2>1, PositionsKept DEF RInv
<1>5. CASE CopyTake
  <2>1. TypeOK'
    BY <1>2, <1>5 DEF CopyTake, TypeOK, input, prefetchVars, decodeVars, resultVars
  <2>. QED BY <1>1, <2>1, PositionsKept DEF RInv
<1>6. CASE CopyBatch
  <2>1. taken' \in Seq(Symbols \cup {NoSymbol})
    <3>. DEFINE T == Symbols \cup {NoSymbol}
                b == batch[cbatch]
    <3>1. b \in [1 .. BatchSize -> T] /\ clen \in Int /\ clen <= BatchSize /\ taken \in Seq(T)
      BY <1>2, SizeFacts DEF TypeOK
    <3>2. taken' = taken \o SubSeq(b, 1, clen)
      BY <1>6 DEF CopyBatch
    <3>. HIDE DEF T, b
    <3>3. \A i \in 1 .. clen : b[i] \in T
      BY <3>1, SizeFacts
    <3>4. SubSeq(b, 1, clen) \in Seq(T)
      BY <3>1, <3>3, SubSeqProperties
    <3>. QED BY <3>1, <3>2, <3>4, ConcatProperties DEF T
  <2>2. TypeOK'
    BY <1>2, <1>6, <2>1 DEF CopyBatch, TypeOK, input, prefetchVars, decodeVars, resultVars
  <2>. QED BY <1>1, <2>2, PositionsKept DEF RInv
<1>7. CASE CopyRelease
  <2>1. (cbatch + 1) % BatchCount \in 0 .. BatchCount - 1
    <3>. DEFINE c == cbatch + 1
    <3>1. c \in Nat /\ BatchCount \in Nat \ {0}
      BY <1>2, SizeFacts DEF TypeOK
    <3>. HIDE DEF c
    <3>2. c % BatchCount \in 0 .. BatchCount - 1
      BY <3>1, ModRange
    <3>. QED BY <3>2 DEF c
  <2>2. batch_len' \in [0 .. BatchCount - 1 -> -1 .. BatchSize]
    BY <1>2, <1>7, SizeFacts DEF CopyRelease, TypeOK
  <2>3. TypeOK'
    BY <1>2, <1>7, <2>1, <2>2
       DEF CopyRelease, TypeOK, input, prefetchVars, decodeVars, resultVars
  <2>. QED BY <1>1, <2>3, PositionsKept DEF RInv
<1>. QED BY <1>3, <1>4, <1>5, <1>6, <1>7 DEF Copy

\* The prefetcher stores what the decoder does not need any more.
LEMMA PrefetchRing == ASSUME RInv, Prefetch PROVE RInv'
<1>1. TypeOK /\ UNCHANGED <<input, decodeVars, copyVars, resultVars, batch_len, error>>
  BY DEF RInv, Prefetch, PrefetchSkip, PrefetchFirst, PrefetchPublish, PrefetchRoom,
         PrefetchStop, PrefetchCopy
<1>2. Sizes' /\ UNCHANGED <<in, prefetch_rdpos, cur, dpc, dlen, sym>>
  BY <1>1 DEF RInv, Sizes, input, decodeVars
<1>3. /\ pos \in Nat /\ cur \in Nat /\ prefetch_wrpos \in Nat /\ prefetch_rdpos \in Nat
      /\ in.end \in Nat /\ align \in Nat /\ align <= Chunk
  BY <1>1, SizeFacts DEF TypeOK, InputType
<1>4. PrefetchSize \in Nat \ {0} /\ Chunk \in Nat \ {0} /\ Chunk <= PrefetchSize
  BY SizeFacts
<1>5. ASSUME ppc' \in {"enter", "publish", "wait", "copy", "done"}, pos' \in Nat,
             prefetch_wrpos' \in Nat, buf' \in [0 .. PrefetchSize - 1 -> Nat \cup {-1}]
      PROVE  TypeOK'
  BY <1>1, <1>5 DEF TypeOK, input, decodeVars, copyVars, resultVars
<1>6. CASE PrefetchSkip \/ PrefetchStop
  <2>1. ppc' = "done" /\ UNCHANGED <<pos, buf, prefetch_wrpos>>
    BY <1>6 DEF PrefetchSkip, PrefetchStop
  <2>2. TypeOK'
    BY <1>1, <1>5, <2>1 DEF TypeOK
  <2>. QED BY <1>2, <2>1, <2>2 DEF RInv, RingHolds, Behind, LookAhead
<1>7. CASE PrefetchFirst
  <2>1. /\ ppc = "enter" /\ pos' = Least(align, in.end) /\ buf' = Stored(0, pos')
        /\ ppc' = "publish" /\ prefetch_wrpos' = prefetch_wrpos
    BY <1>7 DEF PrefetchFirst
  <2>2. pos = 0 /\ pos' \in Nat /\ pos' <= Chunk /\ pos' <= in.end
    <3>1. pos = 0
      BY <2>1 DEF RInv, RingHolds
    <3>. QED BY <1>3, <1>4, <2>1, <3>1 DEF Least
  <2>3. /\ buf' \in [0 .. PrefetchSize - 1 -> Nat \cup {-1}]
        /\ \A k \in Nat : pos' - PrefetchSize <= k /\ k < pos' => buf'[k % PrefetchSize] = k
    <3>. DEFINE n == pos'
    <3>1. n \in Nat /\ n <= PrefetchSize /\ buf' = Stored(pos, n) /\ pos + n = n
      BY <1>4, <2>1, <2>2
    <3>. HIDE DEF n
    <3>2. /\ buf \in [0 .. PrefetchSize - 1 -> Nat \cup {-1}]
          /\ \A k \in Nat : pos - PrefetchSize <= k /\ k < pos => buf[k % PrefetchSize] = k
      BY DEF RInv, TypeOK, RingHolds
    <3>3. /\ buf' \in [0 .. PrefetchSize - 1 -> Nat \cup {-1}]
          /\ \A k \in Nat : pos + n - PrefetchSize <= k /\ k < pos + n
                             => buf'[k % PrefetchSize] = k
      BY <1>3, <3>1, <3>2, StoredHolds
    <3>4. /\ buf' \in [0 .. PrefetchSize - 1 -> Nat \cup {-1}]
          /\ \A k \in Nat : n - PrefetchSize <= k /\ k < n => buf'[k % PrefetchSize] = k
      <4>1. ASSUME NEW k \in Nat, n - PrefetchSize <= k, k < n
            PROVE  buf'[k % PrefetchSize] = k
        <5>1. pos + n - PrefetchSize <= k /\ k < pos + n
          BY <1>3, <1>4, <3>1, <4>1
        <5>. QED BY <3>3, <5>1
      <4>. QED BY <3>3, <4>1
    <3>. QED BY <3>4 DEF n
  <2>4. TypeOK'
    BY <1>3, <1>5, <2>1, <2>2, <2>3
  <2>5. RingHolds'
    BY <1>2, <1>3, <1>4, <2>1, <2>2, <2>3 DEF RingHolds
  <2>6. Behind' /\ LookAhead'
    BY <1>2, <1>3, <2>1, <2>2 DEF RInv, Behind, LookAhead
  <2>. QED BY <1>2, <2>4, <2>5, <2>6 DEF RInv
<1>8. CASE PrefetchPublish
  <2>1. ppc' = "wait" /\ prefetch_wrpos' = pos /\ UNCHANGED <<pos, buf>>
    BY <1>8 DEF PrefetchPublish
  <2>2. TypeOK'
    BY <1>1, <1>3, <1>5, <2>1 DEF TypeOK
  <2>3. RingHolds' /\ Behind'
    BY <1>2, <1>3, <2>1 DEF RInv, RingHolds, Behind
  <2>4. LookAhead'
    <3>1. prefetch_wrpos' >= prefetch_wrpos
      BY <1>3, <2>1 DEF RInv, Behind
    <3>. DEFINE l == Least(cur + SymbolBytes * (BatchSize - dlen), in.end)
    <3>2. dpc = "symbol" => l \in Int
      <4>. DEFINE w == SymbolBytes * (BatchSize - dlen)
      <4>1. w \in Nat
        BY <1>1, RoomForSymbols DEF TypeOK
      <4>. HIDE DEF w
      <4>2. Least(cur + w, in.end) \in Int
        BY <1>3, <4>1 DEF Least
      <4>. QED BY <4>2 DEF w
    <3>. HIDE DEF l
    <3>3. dpc = "symbol" => prefetch_wrpos >= l
      BY DEF RInv, LookAhead, l
    <3>4. dpc = "symbol" => prefetch_wrpos' >= l
      BY <1>3, <2>1, <3>1, <3>2, <3>3
    <3>. QED BY <1>2, <3>4 DEF RInv, LookAhead, l
  <2>. QED BY <1>2, <2>2, <2>3, <2>4 DEF RInv
<1>9. CASE PrefetchRoom
  <2>1. /\ prefetch_rdpos >= pos - Least(pos, PrefetchSize - Chunk)
        /\ ppc' = "copy" /\ UNCHANGED <<pos, buf, prefetch_wrpos>>
    BY <1>9 DEF PrefetchRoom
  <2>2. pos + Chunk <= prefetch_rdpos + PrefetchSize
    BY <1>3, <1>4, <2>1 DEF Least
  <2>3. TypeOK'
    BY <1>1, <1>5, <2>1 DEF TypeOK
  <2>. QED BY <1>2, <2>1, <2>2, <2>3 DEF RInv, RingHolds, Behind, LookAhead
<1>10. CASE PrefetchCopy
  <2>. DEFINE blen == Least(Chunk, in.end - pos)
  <2>1. /\ ppc = "copy" /\ buf' = Stored(pos, blen) /\ pos' = pos + blen
        /\ ppc' \in {"publish", "done"} /\ prefetch_wrpos' = prefetch_wrpos
    BY <1>10 DEF PrefetchCopy
  <2>2. blen \in Nat /\ blen <= Chunk /\ blen <= PrefetchSize /\ pos + blen <= in.end
    BY <1>3, <1>4 DEF Least, RInv, Behind
  <2>. HIDE DEF blen
  <2>3. /\ buf' \in [0 .. PrefetchSize - 1 -> Nat \cup {-1}]
        /\ \A k \in Nat : pos + blen - PrefetchSize <= k /\ k < pos + blen
                            => buf'[k % PrefetchSize] = k
    BY <1>1, <1>3, <2>1, <2>2, StoredHolds DEF TypeOK, RInv, RingHolds
  <2>4. TypeOK'
    BY <1>3, <1>5, <2>1, <2>2, <2>3
  <2>5. RingHolds'
    BY <1>2, <1>3, <1>4, <2>1, <2>2, <2>3 DEF RInv, RingHolds
  <2>6. Behind' /\ LookAhead'
    BY <1>2, <1>3, <2>1, <2>2 DEF RInv, Behind, LookAhead
  <2>. QED BY <1>2, <2>4, <2>5, <2>6 DEF RInv
<1>. QED BY <1>6, <1>7, <1>8, <1>9, <1>10 DEF Prefetch

\* What the decoder does to its batch keeps the look-ahead.
LEMMA PushRing ==
  ASSUME RInv, NEW x \in Symbols, Push(x), dlen < BatchSize,
         NEW c \in Nat, cur' = c,
         LET w == SymbolBytes * (BatchSize - (dlen + 1))
         IN  prefetch_wrpos >= Least(c + w, in.end),
         UNCHANGED <<in, dbatch, prefetch_wrpos, bytes_left>>
  PROVE  /\ batch' \in [0 .. BatchCount - 1 -> [1 .. BatchSize -> Symbols \cup {NoSymbol}]]
         /\ dlen' \in 0 .. BatchSize /\ left' \in Nat /\ left' <= left /\ decoded' \in Nat
         /\ dpc' \in {"symbol", "publish"}
         /\ LookAhead'
<1>. DEFINE T == Symbols \cup {NoSymbol}
            B == [1 .. BatchSize -> T]
<1>1. /\ batch \in [0 .. BatchCount - 1 -> B] /\ dbatch \in 0 .. BatchCount - 1
      /\ dlen \in 0 .. BatchSize /\ dlen \in Nat /\ left \in Nat /\ decoded \in Nat
  BY DEF RInv, TypeOK
<1>2. x.len \in Nat /\ BatchSize \in Nat
  BY SymbolsAssumption, SizeFacts
<1>3. CASE Accepts(x)
  <2>1. /\ batch' = [batch EXCEPT ![dbatch][dlen + 1] = x] /\ dlen' = dlen + 1
        /\ left' = left - x.len /\ decoded' = decoded + 1 /\ dpc' = "symbol" /\ x.len <= left
    BY <1>3 DEF Push, Accepts
  <2>2. batch' \in [0 .. BatchCount - 1 -> B]
    <3>. HIDE DEF B
    <3>. DEFINE b == [batch[dbatch] EXCEPT ![dlen + 1] = x]
    <3>1. batch' = [batch EXCEPT ![dbatch] = b]
      BY <2>1
    <3>2. b \in B
      BY <1>1, <1>2 DEF B
    <3>. HIDE DEF b
    <3>. QED BY <1>1, <3>1, <3>2
  <2>3. dlen' \in 0 .. BatchSize /\ left' \in Nat /\ left' <= left /\ decoded' \in Nat
    BY <1>1, <1>2, <2>1
  <2>4. LookAhead'
    BY <2>1 DEF LookAhead
  <2>. QED BY <2>1, <2>2, <2>3, <2>4
<1>4. CASE ~Accepts(x)
  <2>1. dpc' = "publish" /\ UNCHANGED <<batch, dlen, left, decoded>>
    BY <1>4 DEF Push
  <2>. QED BY <1>1, <2>1 DEF LookAhead
<1>. QED BY <1>3, <1>4

\* The decoder publishes a position it has really reached, and looks only at
\* bytes it has waited for.
LEMMA DecodeRing == ASSUME RInv, Decode PROVE RInv'
<1>1. TypeOK /\ RingHolds /\ Behind /\ Sizes
  BY DEF RInv
<1>2. UNCHANGED <<input, prefetchVars, copyVars, resultVars>>
  BY DEF Decode, DecodeSkip, DecodeStart, DecodeFetched, DecodeShort, DecodeLong,
         DecodeLongFetched, DecodeFull, DecodePublish, DecodeSlot, DecodeEnd
<1>3. UNCHANGED <<in, pos, buf, ppc, prefetch_wrpos>>
  BY <1>2 DEF input, prefetchVars
<1>4. /\ pos \in Nat /\ cur \in Nat /\ prefetch_wrpos \in Nat /\ prefetch_rdpos \in Nat
      /\ in.end \in Nat /\ left \in Nat /\ in.usize \in Nat /\ dlen \in 0 .. BatchSize
      /\ dlen \in Nat
  BY <1>1 DEF TypeOK, InputType
<1>5. SymbolBytes \in Nat /\ BatchSize \in Nat /\ Window \in Nat /\ Chunk \in Nat
      /\ PrefetchSize \in Nat
  BY SizeFacts
<1>6. ASSUME prefetch_rdpos' \in Nat, prefetch_rdpos' >= prefetch_rdpos,
             cur' \in Nat, prefetch_rdpos' <= cur'
      PROVE  RingHolds' /\ Behind'
  <2>1. Behind'
    BY <1>1, <1>3, <1>6 DEF Behind
  <2>2. RingHolds'
    <3>1. \A k \in Nat : pos' - PrefetchSize <= k /\ k < pos' => buf'[k % PrefetchSize] = k
      BY <1>1, <1>3 DEF RingHolds
    <3>2. /\ pos <= prefetch_rdpos + PrefetchSize
          /\ ppc = "copy" => pos + Chunk <= prefetch_rdpos + PrefetchSize
          /\ ppc = "enter" => pos = 0
      BY <1>1 DEF RingHolds
    <3>. DEFINE r == prefetch_rdpos'
    <3>a. r \in Nat /\ r >= prefetch_rdpos
      BY <1>6
    <3>b. pos \in Nat /\ prefetch_rdpos \in Nat /\ Chunk \in Nat /\ PrefetchSize \in Nat
      BY <1>4, <1>5
    <3>. HIDE DEF r
    <3>c. pos <= r + PrefetchSize /\ (ppc = "copy" => pos + Chunk <= r + PrefetchSize)
      BY <3>2, <3>a, <3>b
    <3>3. pos' <= prefetch_rdpos' + PrefetchSize
      BY <1>3, <3>c DEF r
    <3>4. ppc' = "copy" => pos' + Chunk <= prefetch_rdpos' + PrefetchSize
      BY <1>3, <3>c DEF r
    <3>. QED BY <1>3, <3>1, <3>2, <3>3, <3>4 DEF RingHolds
  <2>. QED BY <2>1, <2>2
<1>7. ASSUME UNCHANGED <<cur, left, bytes_left, prefetch_rdpos>>
      PROVE  RingHolds' /\ Behind' /\ Sizes'
  <2>1. RingHolds' /\ Behind'
    BY <1>1, <1>3, <1>7 DEF RingHolds, Behind
  <2>. QED BY <1>1, <1>3, <1>7, <2>1 DEF Sizes
<1>8. CASE DecodeSkip \/ DecodeFull \/ DecodeSlot
  <2>1. /\ UNCHANGED <<cur, left, bytes_left, prefetch_rdpos>>
        /\ dpc' \in {"done", "publish", "end", "start"}
    BY <1>8 DEF DecodeSkip, DecodeFull, DecodeSlot
  <2>2. TypeOK'
    <3>1. UNCHANGED <<decoded, dbatch, dlen, sym, prefetch_end, batch, batch_len, error>>
      BY <1>8 DEF DecodeSkip, DecodeFull, DecodeSlot
    <3>. QED BY <1>1, <1>2, <2>1, <3>1
             DEF TypeOK, input, prefetchVars, copyVars, resultVars
  <2>3. LookAhead'
    BY <2>1 DEF LookAhead
  <2>. QED BY <1>7, <2>1, <2>2, <2>3 DEF RInv
<1>9. CASE DecodeStart
  <2>1. /\ prefetch_rdpos' = cur /\ cur' = cur /\ dpc' = "wait"
        /\ left' = left /\ bytes_left' = bytes_left
    BY <1>9 DEF DecodeStart
  <2>2. TypeOK'
    BY <1>1, <1>9 DEF DecodeStart, TypeOK, input, prefetchVars, copyVars, resultVars
  <2>3. RingHolds' /\ Behind'
    <3>1. prefetch_rdpos' \in Nat /\ cur' \in Nat /\ prefetch_rdpos' <= cur'
          /\ prefetch_rdpos' >= prefetch_rdpos
      BY <1>1, <1>4, <2>1 DEF Behind
    <3>. QED BY <1>6, <3>1
  <2>4. LookAhead' /\ Sizes'
    BY <1>1, <1>3, <2>1 DEF LookAhead, Sizes
  <2>. QED BY <2>2, <2>3, <2>4 DEF RInv
<1>10. CASE DecodeFetched
  <2>1. /\ UNCHANGED <<cur, left, bytes_left, prefetch_rdpos>>
        /\ dlen' = 0 /\ dpc' = "symbol" /\ prefetch_wrpos >= Least(cur + Window, in.end)
    BY <1>10 DEF DecodeFetched, Fetched
  <2>2. TypeOK'
    BY <1>1, <1>5, <1>10 DEF DecodeFetched, TypeOK, input, prefetchVars, copyVars, resultVars
  <2>3. LookAhead'
    <3>1. SymbolBytes * (BatchSize - 0) = Window
      BY <1>5, RoomForSymbols
    <3>. QED BY <1>3, <2>1, <3>1 DEF LookAhead
  <2>. QED BY <1>7, <2>1, <2>2, <2>3 DEF RInv
<1>11. CASE DecodeShort
  <2>1. PICK x \in Readable : cur' = cur + x.size /\ Push(x)
    BY <1>11 DEF DecodeShort
  <2>2. x \in Symbols /\ x.size \in Nat /\ x.size <= SymbolBytes
    BY SymbolsAssumption DEF Readable
  <2>3. /\ dpc = "symbol" /\ dlen < BatchSize
        /\ UNCHANGED <<dbatch, sym, prefetch_rdpos, prefetch_end, bytes_left, batch_len, error>>
    BY <1>11 DEF DecodeShort, More
  <2>. DEFINE w == SymbolBytes * (BatchSize - dlen)
              v == SymbolBytes * (BatchSize - (dlen + 1))
              c == cur + x.size
  <2>4. w \in Nat /\ v \in Nat /\ v + SymbolBytes = w
    BY <1>4, <2>3, RoomForSymbols
  <2>5. prefetch_wrpos >= Least(cur + w, in.end)
    BY <2>3 DEF RInv, LookAhead
  <2>. HIDE DEF w, v
  <2>6. c \in Nat /\ prefetch_wrpos >= Least(c + v, in.end)
    BY <1>4, <1>5, <2>2, <2>4, <2>5 DEF Least
  <2>7. cur' = c
    BY <2>1
  <2>. HIDE DEF c
  <2>8. /\ batch' \in [0 .. BatchCount - 1 -> [1 .. BatchSize -> Symbols \cup {NoSymbol}]]
        /\ dlen' \in 0 .. BatchSize /\ left' \in Nat /\ left' <= left /\ decoded' \in Nat
        /\ dpc' \in {"symbol", "publish"}
        /\ LookAhead'
    BY <1>3, <2>1, <2>2, <2>3, <2>6, <2>7, PushRing DEF v
  <2>9. TypeOK'
    BY <1>1, <1>2, <2>3, <2>6, <2>7, <2>8
       DEF TypeOK, input, prefetchVars, copyVars, resultVars
  <2>10. RingHolds' /\ Behind'
    <3>1. c >= cur
      BY <1>4, <2>2 DEF c
    <3>2. prefetch_rdpos' \in Nat /\ cur' \in Nat /\ prefetch_rdpos' <= cur'
          /\ prefetch_rdpos' >= prefetch_rdpos
      BY <1>1, <1>4, <2>3, <2>6, <2>7, <3>1 DEF Behind
    <3>. QED BY <1>6, <3>2
  <2>11. Sizes'
    BY <1>1, <1>3, <1>4, <2>3, <2>8 DEF Sizes
  <2>. QED BY <2>8, <2>9, <2>10, <2>11 DEF RInv
<1>12. CASE DecodeLong
  <2>1. PICK x \in Readable : cur' = cur + x.size + x.text /\ sym' = x
    BY <1>12 DEF DecodeLong
  <2>2. x \in Symbols /\ x.size \in Nat /\ x.text \in Nat
    BY SymbolsAssumption DEF Readable
  <2>3. /\ dlen < BatchSize /\ prefetch_rdpos' = cur' /\ dpc' = "long"
        /\ UNCHANGED <<left, decoded, dbatch, dlen, prefetch_end, batch, bytes_left,
                       batch_len, error>>
    BY <1>12 DEF DecodeLong, More
  <2>4. cur' \in Nat /\ cur' >= cur
    BY <1>4, <2>1, <2>2
  <2>5. TypeOK'
    BY <1>1, <1>2, <2>1, <2>2, <2>3, <2>4
       DEF TypeOK, input, prefetchVars, copyVars, resultVars
  <2>6. RingHolds' /\ Behind'
    <3>1. prefetch_rdpos' \in Nat /\ cur' \in Nat /\ prefetch_rdpos' <= cur'
          /\ prefetch_rdpos' >= prefetch_rdpos
      BY <1>1, <1>4, <2>3, <2>4 DEF Behind
    <3>. QED BY <1>6, <3>1
  <2>7. LookAhead' /\ Sizes'
    BY <1>1, <1>3, <2>1, <2>2, <2>3 DEF LookAhead, Sizes
  <2>. QED BY <2>5, <2>6, <2>7 DEF RInv
<1>13. CASE DecodeLongFetched
  <2>1. /\ dpc = "long" /\ prefetch_wrpos >= Least(cur + Window, in.end) /\ Push(sym)
        /\ UNCHANGED <<cur, dbatch, sym, prefetch_rdpos, prefetch_end, bytes_left, batch_len,
                       error>>
    BY <1>13 DEF DecodeLongFetched, Fetched
  <2>2. sym \in Symbols /\ dlen < BatchSize
    BY <2>1 DEF RInv, LookAhead
  <2>. DEFINE v == SymbolBytes * (BatchSize - (dlen + 1))
  <2>3. v \in Nat /\ v <= Window
    BY <1>4, <1>5, <2>2, RoomForSymbols
  <2>. HIDE DEF v
  <2>4. prefetch_wrpos >= Least(cur + v, in.end)
    BY <1>4, <1>5, <2>1, <2>3 DEF Least
  <2>5. /\ batch' \in [0 .. BatchCount - 1 -> [1 .. BatchSize -> Symbols \cup {NoSymbol}]]
        /\ dlen' \in 0 .. BatchSize /\ left' \in Nat /\ left' <= left /\ decoded' \in Nat
        /\ dpc' \in {"symbol", "publish"}
        /\ LookAhead'
    BY <1>3, <1>4, <2>1, <2>2, <2>4, PushRing DEF v
  <2>6. TypeOK'
    BY <1>1, <1>2, <2>1, <2>5 DEF TypeOK, input, prefetchVars, copyVars, resultVars
  <2>7. RingHolds' /\ Behind'
    <3>1. prefetch_rdpos' \in Nat /\ cur' \in Nat /\ prefetch_rdpos' <= cur'
          /\ prefetch_rdpos' >= prefetch_rdpos
      BY <1>1, <1>4, <2>1 DEF Behind
    <3>. QED BY <1>6, <3>1
  <2>8. Sizes'
    BY <1>1, <1>3, <1>4, <2>1, <2>5 DEF Sizes
  <2>. QED BY <2>5, <2>6, <2>7, <2>8 DEF RInv
<1>14. CASE DecodePublish
  <2>1. UNCHANGED <<cur, left, bytes_left, prefetch_rdpos>> /\ dpc' = "slot"
    BY <1>14 DEF DecodePublish
  <2>2. batch_len' \in [0 .. BatchCount - 1 -> -1 .. BatchSize]
        /\ dbatch' \in 0 .. BatchCount - 1
    <3>. DEFINE d == dbatch + 1
    <3>1. d \in Nat /\ BatchCount \in Nat \ {0}
      BY <1>1, SizeFacts DEF TypeOK
    <3>. HIDE DEF d
    <3>2. d % BatchCount \in 0 .. BatchCount - 1
      BY <3>1, ModRange
    <3>3. dbatch' \in {dbatch, d % BatchCount}
          /\ batch_len' \in {batch_len, [batch_len EXCEPT ![dbatch] = dlen]}
      BY <1>14 DEF DecodePublish, d
    <3>. QED BY <1>1, <3>2, <3>3 DEF TypeOK
  <2>3. TypeOK'
    BY <1>1, <1>14, <2>2 DEF DecodePublish, TypeOK, input, prefetchVars, copyVars, resultVars
  <2>4. LookAhead'
    BY <2>1 DEF LookAhead
  <2>. QED BY <1>7, <2>1, <2>3, <2>4 DEF RInv
<1>15. CASE DecodeEnd
  <2>1. /\ UNCHANGED <<cur, left, prefetch_rdpos>> /\ dpc' = "done" /\ bytes_left' = left
    BY <1>15 DEF DecodeEnd
  <2>2. batch_len' \in [0 .. BatchCount - 1 -> -1 .. BatchSize]
    BY <1>1, <1>5, <1>15 DEF DecodeEnd, TypeOK
  <2>3. TypeOK'
    BY <1>1, <1>15, <2>2 DEF DecodeEnd, TypeOK, input, prefetchVars, copyVars, resultVars
  <2>4. RingHolds' /\ Behind'
    BY <1>1, <1>3, <2>1 DEF RingHolds, Behind
  <2>5. LookAhead' /\ Sizes'
    BY <1>1, <1>3, <2>1 DEF LookAhead, Sizes
  <2>. QED BY <2>3, <2>4, <2>5 DEF RInv
<1>. QED BY <1>8, <1>9, <1>10, <1>11, <1>12, <1>13, <1>14, <1>15 DEF Decode

\* At first nothing of the stream is in the ring.
LEMMA RInvInit == Init => RInv
<1>. SUFFICES ASSUME Init PROVE RInv
  OBVIOUS
<1>1. in \in InputType
  BY InputsAssumption DEF Init
<1>2. in.usize \in Nat /\ in.end \in Nat
  BY <1>1 DEF InputType
<1>3. TypeOK
  <2>. DEFINE T == Symbols \cup {NoSymbol}
              N == 0 .. BatchCount - 1
              row == [j \in 1 .. BatchSize |-> NoSymbol]
  <2>1. 0 \in N /\ 0 \in 0 .. BatchSize /\ 0 \in -1 .. BatchSize
    BY SizeFacts
  <2>2. batch_len \in [N -> -1 .. BatchSize]
    BY <2>1 DEF Init
  <2>3. batch \in [N -> [1 .. BatchSize -> T]]
    <3>1. row \in [1 .. BatchSize -> T]
      OBVIOUS
    <3>2. batch = [i \in N |-> row]
      BY DEF Init
    <3>. HIDE DEF row, N
    <3>. QED BY <3>1, <3>2
  <2>4. buf \in [0 .. PrefetchSize - 1 -> Nat \cup {-1}]
    BY DEF Init
  <2>5. taken \in Seq(T)
    BY DEF Init
  <2>6. error \in {-2, -1, 0}
    BY DEF Init
  <2>. QED BY <1>1, <1>2, <2>1, <2>2, <2>3, <2>4, <2>5, <2>6 DEF Init, TypeOK
<1>4. RingHolds
  BY SizeFacts DEF Init, RingHolds
<1>5. Behind /\ LookAhead /\ Sizes
  BY <1>2 DEF Init, Behind, LookAhead, Sizes
<1>. QED BY <1>3, <1>4, <1>5 DEF RInv

\* One lemma for each warp.
LEMMA RInvNext == RInv /\ [Next]_vars => RInv'
<1>. SUFFICES ASSUME RInv, [Next]_vars PROVE RInv'
  OBVIOUS
<1>1. CASE UNCHANGED vars
  <2>1. UNCHANGED Positions /\ TypeOK'
    BY <1>1 DEF vars, input, prefetchVars, decodeVars, copyVars, resultVars, Positions, RInv,
                TypeOK
  <2>. QED BY <2>1, PositionsKept DEF RInv
<1>. QED BY <1>1, OtherRing, PrefetchRing, DecodeRing DEF Next, Spin

\* Every state of every behaviour.
LEMMA RInvAlways == Safety => []RInv
BY RInvInit, RInvNext, PTL DEF Safety

\* The state of the block keeps its shape, for streams and symbols of any kind.
THEOREM TypeCorrect == Spec => []TypeOK
<1>1. RInv => TypeOK
  BY DEF RInv
<1>. QED BY <1>1, RInvAlways, PTL DEF Spec

\* Whatever the sizes of the ring, the chunk and the batch are, as long as the
\* look-ahead and a chunk fit in the ring together, the decoder never looks at a
\* byte the prefetcher has not brought or has overwritten.
THEOREM RingNeverTorn == Spec => []RingIntact
BY RInvAlways, RInvIntact, PTL DEF Spec

----------------------------------------------------------------------------
(* The sizes of outputs.  Total is a recursive function, whose existence   *)
(* has to be proved before anything can be said of it.                     *)

\* The running totals of the first n symbols of s.
Totals(s, n, f) == f = [i \in 0 .. n |-> IF i = 0 THEN 0 ELSE f[i - 1] + s[i].len]

\* There are running totals.
LEMMA TotalsExist ==
  ASSUME NEW s, NEW n \in Nat
  PROVE  \E f : Totals(s, n, f)
<1>. DEFINE S == {k \in Nat : \E f : Totals(s, k, f)}
<1>1. 0 \in S
  <2>1. Totals(s, 0, [i \in 0 .. 0 |-> 0])
    BY DEF Totals
  <2>. QED BY <2>1
<1>2. ASSUME NEW k \in Nat, k \in S PROVE k + 1 \in S
  <2>1. PICK f : Totals(s, k, f)
    BY <1>2
  <2>. DEFINE g == [i \in 0 .. k + 1 |-> IF i = 0 THEN 0 ELSE f[i - 1] + s[i].len]
  <2>2. /\ \A i \in 0 .. k + 1 : g[i] = IF i = 0 THEN 0 ELSE f[i - 1] + s[i].len
        /\ g = [i \in 0 .. k + 1 |-> g[i]]
    OBVIOUS
  <2>. HIDE DEF g
  <2>3. \A i \in 1 .. k + 1 : i - 1 \in 0 .. k /\ i - 1 \in 0 .. k + 1
    OBVIOUS
  <2>4. \A i \in 1 .. k + 1 : g[i - 1] = f[i - 1]
    <3>1. \A i \in 0 .. k : f[i] = IF i = 0 THEN 0 ELSE f[i - 1] + s[i].len
      BY <2>1 DEF Totals
    <3>2. \A i \in 0 .. k : i \in 0 .. k + 1
      OBVIOUS
    <3>3. \A i \in 0 .. k : g[i] = f[i]
      BY <2>2, <3>1, <3>2
    <3>. QED BY <2>3, <3>3
  <2>5. \E h : Totals(s, k + 1, h)
    <3>. DEFINE h == [i \in 0 .. k + 1 |-> IF i = 0 THEN 0 ELSE g[i - 1] + s[i].len]
    <3>1. /\ \A i \in 0 .. k + 1 : h[i] = IF i = 0 THEN 0 ELSE g[i - 1] + s[i].len
          /\ h = [i \in 0 .. k + 1 |-> h[i]]
      OBVIOUS
    <3>. HIDE DEF h
    <3>2. \A i \in 0 .. k + 1 : g[i] = h[i]
      <4>1. \A i \in 0 .. k + 1 : i = 0 \/ i \in 1 .. k + 1
        OBVIOUS
      <4>. QED BY <2>2, <2>4, <3>1, <4>1
    <3>3. g = h
      BY <2>2, <3>1, <3>2
    <3>. QED BY <3>3 DEF Totals, h
  <2>. QED BY <2>5
<1>3. Nat \subseteq S
  <2>. HIDE DEF S
  <2>. QED BY <1>1, <1>2, NatSetInduction
<1>. QED BY <1>3

\* Running totals are determined by the symbols they add up.
LEMMA TotalsAgree ==
  ASSUME NEW s, NEW r, NEW n \in Nat, NEW l \in Nat, NEW f, NEW g,
         Totals(s, n, f), Totals(r, l, g),
         NEW k \in Nat, k <= n, k <= l, \A i \in 1 .. k : s[i] = r[i]
  PROVE  f[k] = g[k]
<1>. DEFINE S == {i \in Nat : i <= k => f[i] = g[i]}
<1>1. 0 \in S
  BY DEF Totals
<1>2. ASSUME NEW i \in Nat, i \in S PROVE i + 1 \in S
  <2>. SUFFICES ASSUME i + 1 <= k PROVE f[i + 1] = g[i + 1]
    OBVIOUS
  <2>1. i + 1 \in 0 .. n /\ i + 1 \in 0 .. l /\ i + 1 # 0 /\ (i + 1) - 1 = i /\ i <= k
        /\ i + 1 \in 1 .. k
    OBVIOUS
  <2>2. f[i] = g[i] /\ s[i + 1] = r[i + 1]
    BY <1>2, <2>1
  <2>3. f[i + 1] = f[i] + s[i + 1].len /\ g[i + 1] = g[i] + r[i + 1].len
    BY <2>1 DEF Totals
  <2>. QED BY <2>2, <2>3
<1>3. Nat \subseteq S
  <2>. HIDE DEF S
  <2>. QED BY <1>1, <1>2, NatSetInduction
<1>. QED BY <1>3

\* Total is the last of them.
LEMMA TotalIsLast ==
  ASSUME NEW s, Len(s) \in Nat, NEW n \in Nat, Len(s) <= n, NEW f, Totals(s, n, f)
  PROVE  Stream!Total(s) = f[Len(s)]
<1>. DEFINE g == CHOOSE g : Totals(s, Len(s), g)
<1>1. Totals(s, Len(s), g)
  BY TotalsExist
<1>2. Stream!Total(s) = g[Len(s)]
  BY DEF Stream!Total, Totals
<1>. HIDE DEF g
<1>3. f[Len(s)] = g[Len(s)]
  BY <1>1, TotalsAgree
<1>. QED BY <1>2, <1>3

\* Nothing has no bytes.
LEMMA TotalEmpty == Stream!Total(<<>>) = 0
<1>1. PICK f : Totals(<<>>, 0, f)
  BY TotalsExist
<1>2. Stream!Total(<<>>) = f[0]
  BY <1>1, TotalIsLast
<1>. QED BY <1>1, <1>2 DEF Totals

\* One symbol adds its own bytes.
LEMMA TotalAppend ==
  ASSUME NEW s \in Seq(Symbols), NEW x \in Symbols
  PROVE  Stream!Total(Append(s, x)) = Stream!Total(s) + x.len
<1>. DEFINE r == Append(s, x)
            n == Len(s)
<1>1. n \in Nat /\ n + 1 \in Nat /\ Len(r) = n + 1 /\ r[n + 1] = x /\ \A i \in 1 .. n : s[i] = r[i]
  OBVIOUS
<1>. HIDE DEF r, n
<1>2. PICK f : Totals(s, n, f)
  BY <1>1, TotalsExist
<1>3. PICK g : Totals(r, n + 1, g)
  BY <1>1, TotalsExist
<1>4. Stream!Total(s) = f[n] /\ Stream!Total(r) = g[n + 1]
  BY <1>1, <1>2, <1>3, TotalIsLast DEF n
<1>5. f[n] = g[n]
  BY <1>1, <1>2, <1>3, TotalsAgree
<1>6. g[n + 1] = g[n] + x.len
  BY <1>1, <1>3 DEF Totals
<1>. QED BY <1>4, <1>5, <1>6 DEF r

\* A total is a number.
LEMMA TotalType ==
  ASSUME NEW s \in Seq(Symbols)
  PROVE  Stream!Total(s) \in Nat
<1>. DEFINE n == Len(s)
<1>1. n \in Nat /\ \A i \in 1 .. n : s[i] \in Symbols
  OBVIOUS
<1>. HIDE DEF n
<1>2. PICK f : Totals(s, n, f)
  BY <1>1, TotalsExist
<1>. DEFINE S == {i \in Nat : i <= n => f[i] \in Nat}
<1>3. 0 \in S
  BY <1>2 DEF Totals
<1>4. ASSUME NEW i \in Nat, i \in S PROVE i + 1 \in S
  <2>. SUFFICES ASSUME i + 1 <= n PROVE f[i + 1] \in Nat
    OBVIOUS
  <2>1. i + 1 \in 0 .. n /\ i + 1 # 0 /\ (i + 1) - 1 = i /\ i + 1 \in 1 .. n
    BY <1>1
  <2>2. s[i + 1].len \in Nat /\ f[i] \in Nat
    <3>1. s[i + 1] \in Symbols /\ i <= n
      BY <1>1, <2>1
    <3>. QED BY <1>4, <3>1, SymbolsAssumption
  <2>3. f[i + 1] = f[i] + s[i + 1].len
    BY <1>2, <2>1 DEF Totals
  <2>. QED BY <2>2, <2>3
<1>5. Nat \subseteq S
  <2>. HIDE DEF S
  <2>. QED BY <1>3, <1>4, NatSetInduction
<1>6. Stream!Total(s) = f[n]
  BY <1>1, <1>2, TotalIsLast DEF n
<1>. QED BY <1>1, <1>5, <1>6

\* A first part has no more bytes than the whole.
LEMMA TotalGrows ==
  ASSUME NEW s \in Seq(Symbols), NEW k \in 0 .. Len(s)
  PROVE  Stream!Total(SubSeq(s, 1, k)) <= Stream!Total(s)
<1>. DEFINE n == Len(s)
            r == SubSeq(s, 1, k)
<1>1. /\ n \in Nat /\ k \in Nat /\ k <= n /\ \A i \in 1 .. n : s[i] \in Symbols
      /\ Len(r) = k /\ \A i \in 1 .. k : r[i] = s[i]
  BY SubSeqProperties
<1>. HIDE DEF n, r
<1>2. PICK f : Totals(s, n, f)
  BY <1>1, TotalsExist
<1>3. PICK g : Totals(r, k, g)
  BY <1>1, TotalsExist
<1>. DEFINE S == {i \in Nat : i <= n => f[i] \in Nat /\ (k <= i => f[k] \in Nat /\ f[k] <= f[i])}
<1>4. 0 \in S
  <2>1. f[0] = 0
    BY <1>1, <1>2 DEF Totals
  <2>. QED BY <1>1, <2>1
<1>5. ASSUME NEW i \in Nat, i \in S PROVE i + 1 \in S
  <2>. SUFFICES ASSUME i + 1 <= n
                PROVE  f[i + 1] \in Nat /\ (k <= i + 1 => f[k] \in Nat /\ f[k] <= f[i + 1])
    OBVIOUS
  <2>1. i + 1 \in 0 .. n /\ i + 1 # 0 /\ (i + 1) - 1 = i /\ i + 1 \in 1 .. n
    BY <1>1
  <2>2. s[i + 1].len \in Nat /\ f[i] \in Nat /\ (k <= i => f[k] \in Nat /\ f[k] <= f[i])
    <3>1. s[i + 1] \in Symbols /\ i <= n
      BY <1>1, <2>1
    <3>. QED BY <1>5, <3>1, SymbolsAssumption
  <2>3. f[i + 1] = f[i] + s[i + 1].len
    BY <1>2, <2>1 DEF Totals
  <2>4. CASE k <= i
    BY <2>2, <2>3, <2>4
  <2>5. CASE ~(k <= i)
    <3>1. k <= i + 1 => k = i + 1
      BY <1>1, <2>5
    <3>. QED BY <2>2, <2>3, <3>1
  <2>. QED BY <2>4, <2>5
<1>6. Nat \subseteq S
  <2>. HIDE DEF S
  <2>. QED BY <1>4, <1>5, NatSetInduction
<1>7. Stream!Total(s) = f[n] /\ Stream!Total(r) = g[k]
  BY <1>1, <1>2, <1>3, TotalIsLast DEF n
<1>8. f[k] = g[k]
  BY <1>1, <1>2, <1>3, TotalsAgree
<1>. QED BY <1>1, <1>6, <1>7, <1>8 DEF r

----------------------------------------------------------------------------
(* First parts of streams.                                                 *)

\* A first part of a sequence of symbols.
LEMMA PartIs ==
  ASSUME NEW s \in Seq(Symbols), NEW k \in 0 .. Len(s)
  PROVE  /\ SubSeq(s, 1, k) \in Seq(Symbols) /\ Len(SubSeq(s, 1, k)) = k
         /\ \A i \in 1 .. k : SubSeq(s, 1, k)[i] = s[i]
<1>1. Len(s) \in Nat /\ k \in Nat /\ \A i \in 1 .. k : s[i] \in Symbols
  OBVIOUS
<1>2. /\ SubSeq(s, 1, k) \in Seq(Symbols)
      /\ Len(SubSeq(s, 1, k)) = IF 1 <= k THEN k - 1 + 1 ELSE 0
      /\ \A i \in 1 .. k - 1 + 1 : SubSeq(s, 1, k)[i] = s[1 + i - 1]
  BY <1>1, SubSeqProperties
<1>. QED BY <1>1, <1>2

\* Sequences that agree as far as k have the same first part.
LEMMA SamePart ==
  ASSUME NEW s \in Seq(Symbols), NEW r \in Seq(Symbols), NEW k \in Nat,
         k <= Len(s), k <= Len(r), \A i \in 1 .. k : s[i] = r[i]
  PROVE  SubSeq(s, 1, k) = SubSeq(r, 1, k)
<1>1. k \in 0 .. Len(s) /\ k \in 0 .. Len(r)
  OBVIOUS
<1>2. /\ SubSeq(s, 1, k) \in Seq(Symbols) /\ Len(SubSeq(s, 1, k)) = k
      /\ \A i \in 1 .. k : SubSeq(s, 1, k)[i] = s[i]
  BY <1>1, PartIs
<1>3. /\ SubSeq(r, 1, k) \in Seq(Symbols) /\ Len(SubSeq(r, 1, k)) = k
      /\ \A i \in 1 .. k : SubSeq(r, 1, k)[i] = r[i]
  BY <1>1, PartIs
<1>. QED BY <1>2, <1>3, SeqEqual

\* A first part of a valid sequence is valid.
LEMMA ValidPart ==
  ASSUME NEW s \in Seq(Symbols), NEW k \in 0 .. Len(s), Stream!Valid(s)
  PROVE  Stream!Valid(SubSeq(s, 1, k))
<1>. DEFINE r == SubSeq(s, 1, k)
<1>1. /\ r \in Seq(Symbols) /\ Len(r) = k /\ \A i \in 1 .. k : r[i] = s[i]
  BY PartIs
<1>2. k \in Nat /\ Len(s) \in Nat /\ k <= Len(s)
  OBVIOUS
<1>. HIDE DEF r
<1>3. DOMAIN r = 1 .. k /\ DOMAIN s = 1 .. Len(s) /\ 1 .. k \subseteq 1 .. Len(s)
  BY <1>1, <1>2
<1>4. ASSUME NEW i \in 1 .. k PROVE SubSeq(r, 1, i - 1) = SubSeq(s, 1, i - 1)
  <2>1. i - 1 \in Nat /\ i - 1 <= Len(r) /\ i - 1 <= Len(s)
        /\ \A j \in 1 .. i - 1 : j \in 1 .. k
    BY <1>1, <1>2
  <2>. QED BY <1>1, <2>1, SamePart
<1>5. Stream!Valid(r)
  <2>1. ASSUME NEW i \in DOMAIN r \cap DOMAIN in.stream PROVE r[i] = in.stream[i]
    BY <1>1, <1>3 DEF Stream!Valid
  <2>2. ASSUME NEW i \in DOMAIN r
        PROVE  Stream!Acceptable(r[i], Stream!Total(SubSeq(r, 1, i - 1)))
    <3>1. i \in 1 .. k /\ i \in DOMAIN s
      BY <1>3
    <3>2. Stream!Acceptable(s[i], Stream!Total(SubSeq(s, 1, i - 1)))
      BY <3>1 DEF Stream!Valid
    <3>. QED BY <1>1, <1>4, <3>1, <3>2
  <2>. QED BY <2>1, <2>2 DEF Stream!Valid
<1>. QED BY <1>5 DEF r

\* One more symbol.
LEMMA PartOfMore ==
  ASSUME NEW s \in Seq(Symbols), NEW x \in Symbols
  PROVE  /\ Append(s, x) \in Seq(Symbols) /\ Len(Append(s, x)) = Len(s) + 1
         /\ Append(s, x)[Len(s) + 1] = x
         /\ \A i \in 1 .. Len(s) : Append(s, x)[i] = s[i]
         /\ \A k \in 0 .. Len(s) : SubSeq(Append(s, x), 1, k) = SubSeq(s, 1, k)
<1>. DEFINE r == Append(s, x)
<1>1. /\ r \in Seq(Symbols) /\ Len(r) = Len(s) + 1 /\ r[Len(s) + 1] = x
      /\ \A i \in 1 .. Len(s) : r[i] = s[i]
  OBVIOUS
<1>. HIDE DEF r
<1>2. ASSUME NEW k \in 0 .. Len(s) PROVE SubSeq(r, 1, k) = SubSeq(s, 1, k)
  <2>1. Len(s) \in Nat /\ k \in Nat /\ k <= Len(s) /\ k <= Len(r)
        /\ \A i \in 1 .. k : i \in 1 .. Len(s)
    BY <1>1
  <2>. QED BY <1>1, <2>1, SamePart
<1>. QED BY <1>1, <1>2 DEF r

\* The next symbol of the stream, if it is acceptable, makes a longer valid
\* sequence.
LEMMA ValidMore ==
  ASSUME NEW s \in Seq(Symbols), NEW x \in Symbols, Stream!Valid(s),
         Stream!Acceptable(x, Stream!Total(s)), in.stream \in Seq(Symbols),
         Len(s) < Len(in.stream) => x = in.stream[Len(s) + 1]
  PROVE  Stream!Valid(Append(s, x))
<1>. DEFINE r == Append(s, x)
            n == Len(s)
<1>1. /\ r \in Seq(Symbols) /\ Len(r) = n + 1 /\ r[n + 1] = x
      /\ \A i \in 1 .. n : r[i] = s[i]
      /\ \A k \in 0 .. n : SubSeq(r, 1, k) = SubSeq(s, 1, k)
  BY PartOfMore
<1>2. n \in Nat /\ DOMAIN s = 1 .. n /\ SubSeq(s, 1, n) = s
  BY SubSeqFull
<1>3. DOMAIN in.stream = 1 .. Len(in.stream) /\ Len(in.stream) \in Nat
  OBVIOUS
<1>4. Stream!Acceptable(x, Stream!Total(SubSeq(s, 1, n)))
  BY <1>2
<1>5. n < Len(in.stream) => x = in.stream[n + 1]
  OBVIOUS
<1>. HIDE DEF r, n
<1>6. DOMAIN r = 1 .. n + 1
  BY <1>1, <1>2
<1>7. ASSUME NEW i \in DOMAIN r \cap DOMAIN in.stream PROVE r[i] = in.stream[i]
  <2>1. CASE i \in 1 .. n
    BY <1>1, <1>2, <1>7, <2>1 DEF Stream!Valid
  <2>2. CASE i = n + 1
    BY <1>1, <1>2, <1>3, <1>5, <1>7, <2>2
  <2>. QED BY <1>2, <1>6, <2>1, <2>2
<1>8. ASSUME NEW i \in DOMAIN r
      PROVE  Stream!Acceptable(r[i], Stream!Total(SubSeq(r, 1, i - 1)))
  <2>1. i - 1 \in 0 .. n /\ SubSeq(r, 1, i - 1) = SubSeq(s, 1, i - 1)
    BY <1>1, <1>2, <1>6
  <2>2. CASE i \in 1 .. n
    <3>1. r[i] = s[i] /\ i \in DOMAIN s
      BY <1>1, <1>2, <2>2
    <3>2. Stream!Acceptable(s[i], Stream!Total(SubSeq(s, 1, i - 1)))
      BY <3>1 DEF Stream!Valid
    <3>. QED BY <2>1, <3>1, <3>2
  <2>3. CASE i = n + 1
    <3>1. i - 1 = n
      BY <1>2, <2>3
    <3>. QED BY <1>1, <1>4, <2>1, <2>3, <3>1
  <2>. QED BY <1>2, <1>6, <2>2, <2>3
<1>9. Stream!Valid(r)
  BY <1>7, <1>8 DEF Stream!Valid
<1>. QED BY <1>9 DEF r

\* A decoder that has output missing and stands before a symbol that is not
\* acceptable, or behind the end of the stream, cannot have been wrong: no
\* first part of the stream is the whole output.
LEMMA Undecodable ==
  ASSUME NEW s \in Seq(Symbols), Stream!Valid(s), in.stream \in Seq(Symbols), in.usize \in Nat,
         Stream!Total(s) < in.usize,
         Len(s) < Len(in.stream)
           => ~Stream!Acceptable(in.stream[Len(s) + 1], Stream!Total(s))
  PROVE  ~Stream!Decodable
<1>. DEFINE n == Len(s)
            str == in.stream
<1>1. /\ n \in Nat /\ Len(str) \in Nat /\ DOMAIN s = 1 .. n /\ DOMAIN str = 1 .. Len(str)
      /\ Stream!Total(s) \in Nat /\ str \in Seq(Symbols) /\ SubSeq(s, 1, n) = s
      /\ Stream!Total(s) < in.usize /\ in.usize \in Nat
  BY TotalType, SubSeqFull
<1>2. n < Len(str) => ~Stream!Acceptable(str[n + 1], Stream!Total(s))
  OBVIOUS
<1>3. \A i \in DOMAIN s \cap DOMAIN str : s[i] = str[i]
  BY DEF Stream!Valid
<1>4. SUFFICES ASSUME NEW k \in 0 .. Len(str), Stream!Total(SubSeq(str, 1, k)) = in.usize,
                      Stream!Valid(SubSeq(str, 1, k))
               PROVE  FALSE
  BY DEF Stream!Decodable
<1>. HIDE DEF n, str
<1>5. k \in Nat /\ k <= Len(str)
  BY <1>1
<1>6. CASE k <= n
  <2>1. \A i \in 1 .. k : s[i] = str[i]
    <3>1. \A i \in 1 .. k : i \in DOMAIN s /\ i \in DOMAIN str
      BY <1>1, <1>5, <1>6
    <3>. QED BY <1>3, <3>1
  <2>2. SubSeq(s, 1, k) = SubSeq(str, 1, k)
    BY <1>1, <1>5, <1>6, <2>1, SamePart DEF n
  <2>3. Stream!Total(SubSeq(s, 1, k)) <= Stream!Total(s)
    BY <1>1, <1>5, <1>6, TotalGrows DEF n
  <2>4. Stream!Total(SubSeq(str, 1, k)) = in.usize
    BY <1>4
  <2>5. Stream!Total(SubSeq(s, 1, k)) = in.usize
    BY <2>2, <2>4, Zenon
  <2>. QED BY <1>1, <2>3, <2>5
<1>7. CASE k > n
  <2>. DEFINE r == SubSeq(str, 1, k)
  <2>1. r \in Seq(Symbols) /\ Len(r) = k /\ \A i \in 1 .. k : r[i] = str[i]
    BY <1>1, PartIs
  <2>2. Stream!Valid(r)
    BY <1>4
  <2>. HIDE DEF r
  <2>3. n + 1 \in 1 .. k /\ n + 1 \in DOMAIN r /\ n < Len(str) /\ (n + 1) - 1 = n
    BY <1>1, <1>5, <1>7, <2>1
  <2>4. Stream!Acceptable(r[n + 1], Stream!Total(SubSeq(r, 1, (n + 1) - 1)))
    BY <2>2, <2>3 DEF Stream!Valid
  <2>5. SubSeq(r, 1, n) = SubSeq(s, 1, n)
    <3>1. \A i \in 1 .. n : i \in 1 .. k /\ i \in DOMAIN s /\ i \in DOMAIN str
      BY <1>1, <1>5, <1>7
    <3>2. \A i \in 1 .. n : r[i] = s[i]
      BY <1>3, <2>1, <3>1
    <3>3. n <= Len(r) /\ n <= Len(s)
      BY <1>1, <1>5, <1>7, <2>1 DEF n
    <3>. QED BY <1>1, <2>1, <3>2, <3>3, SamePart
  <2>6. Stream!Acceptable(str[n + 1], Stream!Total(s))
    BY <1>1, <2>1, <2>3, <2>4, <2>5
  <2>. QED BY <1>2, <2>3, <2>6
<1>. QED BY <1>1, <1>5, <1>6, <1>7

----------------------------------------------------------------------------
(* Batches.                                                                *)

\* The place of the first symbol of the k-th batch, counted from 0, the slot of
\* the queue it goes to, and how many of the symbols m are in it.
First(k) == k * BatchSize
Place(k) == k % BatchCount
Ready(m, k) == Least(BatchSize, Len(m) - First(k))

\* Quotient and remainder determine each other.
LEMMA ModIs ==
  ASSUME NEW P \in Nat \ {0}, NEW q \in Int, NEW r \in 0 .. P - 1, NEW k \in Nat, k = P * q + r
  PROVE  k % P = r
<1>. DEFINE a == k \div P
            b == k % P
<1>1. a \in Int /\ b \in 0 .. P - 1 /\ k = P * a + b
  OBVIOUS
<1>. HIDE DEF a, b
<1>2. P * (a - q) = r - b
  BY <1>1
<1>3. CASE a - q >= 1
  <2>1. P * (a - q) >= P
    BY <1>1, <1>3
  <2>. QED BY <1>1, <1>2, <2>1
<1>4. CASE a - q <= -1
  <2>1. P * (a - q) <= -P
    BY <1>1, <1>4
  <2>. QED BY <1>1, <1>2, <2>1
<1>5. CASE a - q = 0
  BY <1>1, <1>2, <1>5 DEF b
<1>. QED BY <1>1, <1>3, <1>4, <1>5

\* Slots of the queue.
LEMMA PlaceFacts ==
  /\ Place(0) = 0
  /\ \A k \in Nat : /\ Place(k) \in 0 .. BatchCount - 1
                    /\ Place(k + 1) = (Place(k) + 1) % BatchCount
                    /\ Place(k + BatchCount) = Place(k)
  /\ \A k, l \in Nat : Place(k) = Place(l) /\ k - l < BatchCount /\ l - k < BatchCount => k = l
<1>1. BatchCount \in Nat \ {0}
  BY SizeFacts
<1>2. Place(0) = 0
  BY <1>1, ModIs DEF Place
<1>3. \A k, l \in Nat : Place(k) = Place(l) /\ k - l < BatchCount /\ l - k < BatchCount => k = l
  BY <1>1, ModSame DEF Place
<1>4. ASSUME NEW k \in Nat
      PROVE  /\ Place(k) \in 0 .. BatchCount - 1
             /\ Place(k + 1) = (Place(k) + 1) % BatchCount
             /\ Place(k + BatchCount) = Place(k)
  <2>. DEFINE q == k \div BatchCount
              r == k % BatchCount
  <2>1. q \in Int /\ r \in 0 .. BatchCount - 1 /\ k = BatchCount * q + r
    BY <1>1
  <2>. HIDE DEF q, r
  <2>2. (k + BatchCount) % BatchCount = r
    <3>1. k + BatchCount = BatchCount * (q + 1) + r /\ q + 1 \in Int /\ k + BatchCount \in Nat
      BY <1>1, <2>1
    <3>. QED BY <1>1, <2>1, <3>1, ModIs
  <2>3. (k + 1) % BatchCount = (r + 1) % BatchCount
    <3>1. CASE r + 1 < BatchCount
      <4>1. k + 1 = BatchCount * q + (r + 1) /\ r + 1 \in 0 .. BatchCount - 1
        BY <1>1, <2>1, <3>1
      <4>2. (k + 1) % BatchCount = r + 1
        BY <1>1, <2>1, <4>1, ModIs
      <4>3. r + 1 = BatchCount * 0 + (r + 1)
        BY <1>1, <2>1
      <4>4. (r + 1) % BatchCount = r + 1
        <5>1. r + 1 \in Nat /\ 0 \in Int
          BY <1>1, <2>1
        <5>. QED BY <1>1, <4>1, <4>3, <5>1, ModIs
      <4>. QED BY <4>2, <4>4
    <3>2. CASE r + 1 = BatchCount
      <4>1. k + 1 = BatchCount * (q + 1) + 0 /\ q + 1 \in Int /\ 0 \in 0 .. BatchCount - 1
        BY <1>1, <2>1, <3>2
      <4>2. (k + 1) % BatchCount = 0
        BY <1>1, <4>1, ModIs
      <4>3. r + 1 = BatchCount * 1 + 0 /\ r + 1 \in Nat
        BY <1>1, <2>1, <3>2
      <4>4. (r + 1) % BatchCount = 0
        BY <1>1, <4>1, <4>3, ModIs
      <4>. QED BY <4>2, <4>4
    <3>. QED BY <1>1, <2>1, <3>1, <3>2
  <2>. QED BY <2>1, <2>2, <2>3 DEF Place, r
<1>. QED BY <1>2, <1>3, <1>4

\* First symbols of batches.
LEMMA FirstFacts ==
  /\ First(0) = 0
  /\ \A k \in Nat : First(k) \in Nat /\ First(k + 1) = First(k) + BatchSize
  /\ \A k, l \in Nat : k < l => First(k) + BatchSize <= First(l)
<1>1. BatchSize \in Nat \ {0}
  BY SizeFacts
<1>2. ASSUME NEW k \in Nat, NEW l \in Nat, k < l PROVE First(k) + BatchSize <= First(l)
  <2>. DEFINE e == l - k - 1
  <2>1. e \in Nat /\ l = k + 1 + e
    BY <1>2
  <2>. HIDE DEF e
  <2>2. e * BatchSize \in Nat
    BY <1>1, <2>1
  <2>3. l * BatchSize = k * BatchSize + BatchSize + e * BatchSize
    BY <1>1, <2>1
  <2>4. k * BatchSize \in Nat
    BY <1>1
  <2>. QED BY <1>1, <2>2, <2>3, <2>4 DEF First
<1>. QED BY <1>1, <1>2 DEF First

----------------------------------------------------------------------------
(* What the three warps have done, in terms of three things none of them   *)
(* has: the symbols m decoded so far, and how many batches the copier has  *)
(* given back (c) and the decoder has handed over (d).                     *)

\* A batch in the queue has the symbols that are its own.
Handed(m, k) ==
  /\ First(k) < Len(m)
  /\ batch_len[Place(k)] = Ready(m, k)
  /\ \A j \in 1 .. Ready(m, k) : batch[Place(k)][j] = m[First(k) + j]

\* The others are empty; the end marker takes the place of the next one.
Free(k, d) ==
  \/ batch_len[Place(k)] = 0
  \/ k = d /\ dpc = "done" /\ batch_len[Place(k)] = -1

Queue(m, c, d) ==
  /\ c <= d /\ d <= c + BatchCount /\ (dpc # "slot" => d < c + BatchCount)
  /\ cbatch = Place(c) /\ dbatch = Place(d)
  /\ \A k \in Nat : c <= k /\ k < d => Handed(m, k)
  /\ \A k \in Nat : d <= k /\ k < c + BatchCount => Free(k, d)

\* The decoder is right about the stream, and gives up only where the stream ends
\* or is wrong.
Decoding(m, d) ==
  /\ Len(m) = decoded /\ Stream!Valid(m) /\ Stream!Total(m) = in.usize - left
  /\ dpc \in {"start", "wait"} => decoded = First(d)
  /\ dpc \in {"symbol", "long", "publish"} =>
       /\ decoded = First(d) + dlen
       /\ \A j \in 1 .. dlen : batch[dbatch][j] = m[First(d) + j]
  /\ dpc \in {"slot", "end", "done"} => decoded <= First(d)
  /\ dpc = "slot" /\ dlen = BatchSize => decoded = First(d)
  /\ dpc = "end" => dlen # BatchSize
  /\ dpc = "long" /\ decoded < Len(in.stream) => sym = in.stream[decoded + 1]
  /\ dpc \in {"publish", "slot", "end"} /\ dlen # BatchSize /\ left # 0 => ~Stream!Decodable

\* The copier has taken the symbols of the batches given back, and of the one it
\* is about to give back.
Copied(c) == First(IF cpc = "release" THEN c + 1 ELSE c)
Copying(m, c, d) ==
  /\ taken = SubSeq(m, 1, Least(Copied(c), decoded))
  /\ cpc \in {"copy", "release"} => c < d /\ clen = Ready(m, c)
  /\ cpc = "done" /\ error = 0 => c = d /\ dpc = "done"

\* How the warps and the kernel end.
Verdict ==
  /\ error = -1 <=> ~Usable
  /\ error = -2 => dpc = "done"
  /\ ~Usable => dpc \in {"start", "done"} /\ cpc \in {"enter", "done"}
  /\ kpc = "barrier" => status = "running"
  /\ kpc = "done" => ppc = "done" /\ dpc = "done" /\ cpc = "done"
  /\ Usable /\ dpc = "done" => /\ bytes_left = left
                               /\ error = 0 <=> left = 0
                               /\ left # 0 => ~Stream!Decodable

Account(m, c, d) == Queue(m, c, d) /\ Decoding(m, d) /\ Copying(m, c, d)
SInv == Verdict /\ \E m \in Seq(Symbols), c, d \in Nat : Account(m, c, d)

\* A step of the kernel is a step of the specification.
StreamNext == Stream!Take \/ Stream!Succeed \/ Stream!Fail
StreamVars == <<Usable, in.stream, in.usize, taken, written, status>>

\* What depends on the input only stays as it is.
LEMMA InputKept ==
  ASSUME in' = in
  PROVE  /\ Usable' <=> Usable
         /\ Usable' = Usable
         /\ Stream!Decodable' <=> Stream!Decodable
         /\ \A m : Stream!Valid(m)' <=> Stream!Valid(m)
         /\ in'.usize = in.usize /\ in'.stream = in.stream
BY DEF Usable, Stream!Decodable, Stream!Valid, Stream!Acceptable, Stream!Total

\* What is in the queue.
LEMMA ReadyIs ==
  ASSUME NEW m \in Seq(Symbols), NEW k \in Nat, First(k) < Len(m)
  PROVE  /\ Ready(m, k) \in 1 .. BatchSize
         /\ First(k) + Ready(m, k) = Least(First(k + 1), Len(m))
         /\ First(k + 1) <= Len(m) => Ready(m, k) = BatchSize
<1>1. /\ First(k) \in Nat /\ First(k + 1) = First(k) + BatchSize
      /\ BatchSize \in Nat \ {0} /\ Len(m) \in Nat
  BY FirstFacts, SizeFacts
<1>. HIDE DEF First
<1>. QED BY <1>1 DEF Ready, Least

\* Batches in the queue at the same time have slots of their own.
LEMMA OwnSlot ==
  ASSUME NEW c \in Nat, NEW k \in Nat, NEW l \in Nat, c <= k, c <= l,
         k < c + BatchCount, l < c + BatchCount, k # l
  PROVE  Place(k) # Place(l)
<1>1. k - l < BatchCount /\ l - k < BatchCount
  BY SizeFacts
<1>. QED BY <1>1, PlaceFacts

\* A step that leaves the queue alone.
LEMMA QueueKept ==
  ASSUME NEW m \in Seq(Symbols), NEW c \in Nat, NEW d \in Nat, Queue(m, c, d),
         UNCHANGED <<batch_len, batch, cbatch, dbatch>>,
         dpc' # "slot" => d < c + BatchCount, dpc = "done" => dpc' = "done"
  PROVE  Queue(m, c, d)'
BY DEF Queue, Handed, Free

----------------------------------------------------------------------------
(* The prefetcher, the barrier and the copier.                             *)

\* The prefetcher is no part of the account.
LEMMA PrefetchAccount ==
  ASSUME Verdict, NEW m \in Seq(Symbols), NEW c \in Nat, NEW d \in Nat, Account(m, c, d),
         Prefetch
  PROVE  Verdict' /\ Account(m, c, d)' /\ UNCHANGED StreamVars
<1>1. /\ UNCHANGED <<input, decodeVars, copyVars, resultVars, batch_len, error>>
      /\ ppc # "done"
  BY DEF Prefetch, PrefetchSkip, PrefetchFirst, PrefetchPublish, PrefetchRoom,
         PrefetchStop, PrefetchCopy
<1>2. UNCHANGED <<in, dpc, cur, left, decoded, dbatch, dlen, sym, batch, bytes_left, cpc, cbatch,
                  clen, taken, kpc, written, status, batch_len, error>>
  BY <1>1 DEF input, decodeVars, copyVars, resultVars
<1>3. /\ Usable' <=> Usable
      /\ Stream!Decodable' <=> Stream!Decodable
      /\ Stream!Valid(m)' <=> Stream!Valid(m)
  BY <1>2, InputKept
<1>4. Verdict'
  BY <1>1, <1>2, <1>3 DEF Verdict
<1>5. Queue(m, c, d)'
  BY <1>2, QueueKept DEF Account, Queue
<1>6. Decoding(m, d)'
  BY <1>2, <1>3 DEF Account, Decoding
<1>7. Copying(m, c, d)'
  BY <1>2 DEF Account, Copying, Copied, Ready
<1>8. UNCHANGED StreamVars
  <2>1. Usable' = Usable
    BY <1>2, InputKept
  <2>. QED BY <1>2, <2>1, Zenon DEF StreamVars
<1>. QED BY <1>4, <1>5, <1>6, <1>7, <1>8 DEF Account

\* The verdict of the kernel is that of the specification.
LEMMA ResultAccount ==
  ASSUME RInv, Verdict, NEW m \in Seq(Symbols), NEW c \in Nat, NEW d \in Nat, Account(m, c, d),
         Result
  PROVE  Verdict' /\ Account(m, c, d)' /\ StreamNext
<1>1. /\ kpc = "barrier" /\ ppc = "done" /\ dpc = "done" /\ cpc = "done" /\ kpc' = "done"
      /\ UNCHANGED <<in, ppc, dpc, cur, left, decoded, dbatch, dlen, sym, batch, bytes_left, cpc,
                     cbatch, clen, taken, batch_len, error>>
  BY DEF Result, input, prefetchVars, decodeVars, copyVars
<1>2. /\ Usable' <=> Usable
      /\ Stream!Decodable' <=> Stream!Decodable
      /\ Stream!Valid(m)' <=> Stream!Valid(m)
  BY <1>1, InputKept
<1>3. Verdict'
  BY <1>1, <1>2 DEF Verdict
<1>4. Account(m, c, d)'
  <2>1. Queue(m, c, d)'
    BY <1>1, QueueKept DEF Account, Queue
  <2>2. Decoding(m, d)'
    BY <1>1, <1>2 DEF Account, Decoding
  <2>3. Copying(m, c, d)'
    BY <1>1 DEF Account, Copying, Copied, Ready
  <2>. QED BY <2>1, <2>2, <2>3 DEF Account
<1>5. error \in {-2, -1, 0} /\ left \in Nat /\ in.usize \in Nat /\ decoded \in Nat
  BY DEF RInv, TypeOK, InputType
<1>6. Usable' = Usable /\ in' = in /\ taken' = taken /\ status = "running"
  BY <1>1, InputKept DEF Verdict
<1>7. CASE error = 0
  <2>1. Usable /\ bytes_left = left /\ left = 0
    BY <1>1, <1>7 DEF Verdict
  <2>2. written' = in.usize /\ status' = "SUCCESS"
    BY <1>5, <1>7, <2>1 DEF Result, Usable
  <2>3. taken = m
    <3>1. c = d /\ decoded <= First(d) /\ Len(m) = decoded
          /\ taken = SubSeq(m, 1, Least(First(d), decoded))
      BY <1>1, <1>7 DEF Account, Copying, Decoding, Copied
    <3>2. Least(First(d), decoded) = Len(m)
      BY <1>5, <3>1, FirstFacts DEF Least
    <3>. QED BY <3>1, <3>2, SubSeqFull
  <2>4. Stream!Total(taken) = in.usize
    BY <1>5, <2>1, <2>3 DEF Account, Decoding
  <2>5. Stream!Succeed
    BY <1>6, <2>1, <2>2, <2>4, Zenon DEF Stream!Succeed
  <2>. QED BY <1>3, <1>4, <2>5 DEF StreamNext
<1>8. CASE error # 0
  <2>1. ~(Usable /\ Stream!Decodable)
    BY <1>1, <1>5, <1>8 DEF Verdict
  <2>2. status' = "FAILURE"
    BY <1>8 DEF Result
  <2>3. Stream!Fail
    BY <1>6, <2>1, <2>2, Zenon DEF Stream!Fail
  <2>. QED BY <1>3, <1>4, <2>3 DEF StreamNext
<1>. QED BY <1>3, <1>4, <1>7, <1>8

\* What the copier leaves alone.
LEMMA CopyFrame ==
  ASSUME Copy
  PROVE  /\ UNCHANGED <<in, ppc, dpc, cur, left, decoded, dbatch, dlen, sym, batch, bytes_left,
                        kpc, written, status, error>>
         /\ cpc # "done"
BY DEF Copy, CopyEnter, CopyTake, CopyBatch, CopyRelease, input, prefetchVars, decodeVars,
       resultVars

\* The decoder's part and the verdict do not depend on the copier.
LEMMA CopyDecoding ==
  ASSUME Verdict, NEW m \in Seq(Symbols), NEW d \in Nat, Decoding(m, d), Copy,
         Usable \/ cpc' = "done"
  PROVE  Verdict' /\ Decoding(m, d)'
<1>1. /\ UNCHANGED <<in, ppc, dpc, cur, left, decoded, dbatch, dlen, sym, batch, bytes_left, kpc,
                     written, status, error>>
      /\ cpc # "done"
  BY CopyFrame
<1>2. /\ Usable' <=> Usable
      /\ Stream!Decodable' <=> Stream!Decodable
      /\ Stream!Valid(m)' <=> Stream!Valid(m)
  BY <1>1, InputKept
<1>3. Verdict'
  BY <1>1, <1>2 DEF Verdict
<1>4. Decoding(m, d)'
  BY <1>1, <1>2 DEF Decoding
<1>. QED BY <1>3, <1>4

\* A copier that goes on found no error.
LEMMA CopyEnterAccount ==
  ASSUME Verdict, NEW m \in Seq(Symbols), NEW c \in Nat, NEW d \in Nat, Account(m, c, d),
         CopyEnter
  PROVE  Verdict' /\ Account(m, c, d)' /\ UNCHANGED StreamVars
<1>1. Copy /\ cpc = "enter" /\ cpc' = (IF error = 0 THEN "wait" ELSE "done")
      /\ UNCHANGED <<in, cbatch, clen, taken, batch_len, batch, dbatch, dpc, decoded, error,
                     written, status>>
  BY DEF Copy, CopyEnter, input, prefetchVars, decodeVars, resultVars
<1>2. Usable \/ cpc' = "done"
  BY <1>1 DEF Verdict
<1>3. Verdict' /\ Decoding(m, d)'
  BY <1>1, <1>2, CopyDecoding DEF Account
<1>4. Queue(m, c, d)'
  BY <1>1, QueueKept DEF Account, Queue
<1>5. Copying(m, c, d)'
  BY <1>1 DEF Account, Copying, Copied
<1>6. UNCHANGED StreamVars
  <2>1. Usable' = Usable
    BY <1>1, InputKept
  <2>. QED BY <1>1, <2>1, Zenon DEF StreamVars
<1>. QED BY <1>3, <1>4, <1>5, <1>6 DEF Account

\* The copier takes the next batch, or the end marker when there is none.
LEMMA CopyTakeAccount ==
  ASSUME Verdict, NEW m \in Seq(Symbols), NEW c \in Nat, NEW d \in Nat, Account(m, c, d),
         CopyTake
  PROVE  Verdict' /\ Account(m, c, d)' /\ UNCHANGED StreamVars
<1>1. /\ Copy /\ cpc = "wait" /\ batch_len[cbatch] # 0 /\ clen' = batch_len[cbatch]
      /\ cpc' = (IF batch_len[cbatch] <= 0 THEN "done" ELSE "copy")
      /\ UNCHANGED <<in, cbatch, taken, batch_len, batch, dbatch, dpc, decoded, error, written,
                     status>>
  BY DEF Copy, CopyTake, input, prefetchVars, decodeVars, resultVars
<1>2. Verdict' /\ Decoding(m, d)'
  <2>1. Usable
    BY <1>1 DEF Verdict
  <2>. QED BY <1>1, <2>1, CopyDecoding DEF Account
<1>3. Queue(m, c, d)'
  BY <1>1, QueueKept DEF Account, Queue
<1>4. Copying(m, c, d)'
  <2>1. Copied(c)' = Copied(c)
    BY <1>1 DEF Copied
  <2>2. c <= d /\ cbatch = Place(c)
    BY DEF Account, Queue
  <2>3. CASE c < d
    <3>1. First(c) < Len(m) /\ batch_len[cbatch] = Ready(m, c)
      BY <2>2, <2>3 DEF Account, Queue, Handed
    <3>2. Ready(m, c) \in Nat /\ Ready(m, c) > 0
      BY <3>1, ReadyIs, SizeFacts
    <3>3. cpc' = "copy" /\ clen' = Ready(m, c)
      BY <1>1, <3>1, <3>2
    <3>. QED BY <1>1, <2>1, <2>3, <3>3 DEF Account, Copying
  <2>4. CASE c = d
    <3>1. Free(d, d)
      BY <2>4, SizeFacts DEF Account, Queue
    <3>2. dpc = "done" /\ batch_len[cbatch] = -1
      BY <1>1, <2>2, <2>4, <3>1 DEF Free
    <3>3. cpc' = "done"
      BY <1>1, <3>2
    <3>. QED BY <1>1, <2>1, <2>4, <3>2, <3>3 DEF Account, Copying
  <2>. QED BY <2>2, <2>3, <2>4
<1>5. UNCHANGED StreamVars
  <2>1. Usable' = Usable
    BY <1>1, InputKept
  <2>. QED BY <1>1, <2>1, Zenon DEF StreamVars
<1>. QED BY <1>2, <1>3, <1>4, <1>5 DEF Account

\* A batch joins those taken: the symbols of m up to the next batch.
LEMMA BatchCopied ==
  ASSUME NEW m \in Seq(Symbols), NEW c \in Nat, First(c) < Len(m),
         NEW b, \A j \in 1 .. Ready(m, c) : b[j] = m[First(c) + j]
  PROVE  SubSeq(m, 1, First(c)) \o SubSeq(b, 1, Ready(m, c))
           = SubSeq(m, 1, Least(First(c + 1), Len(m)))
<1>. DEFINE f == First(c)
            n == Ready(m, c)
            p == SubSeq(m, 1, f)
            q == SubSeq(b, 1, n)
            r == SubSeq(m, 1, f + n)
<1>1. /\ f \in Nat /\ n \in Nat /\ Len(m) \in Nat /\ f < Len(m)
      /\ f + n = Least(First(c + 1), Len(m)) /\ f + n <= Len(m)
      /\ \A i \in 1 .. Len(m) : m[i] \in Symbols
      /\ \A j \in 1 .. n : b[j] = m[f + j]
  <2>1. f \in Nat /\ First(c + 1) \in Nat /\ Len(m) \in Nat
    BY FirstFacts
  <2>2. n \in 1 .. BatchSize /\ f + n = Least(First(c + 1), Len(m))
    BY ReadyIs
  <2>. QED BY <2>1, <2>2, SizeFacts DEF Least
<1>. HIDE DEF f, n
<1>2. p \in Seq(Symbols) /\ Len(p) = f /\ \A i \in 1 .. f : p[i] = m[i]
  BY <1>1, PartIs
<1>3. r \in Seq(Symbols) /\ Len(r) = f + n /\ \A i \in 1 .. f + n : r[i] = m[i]
  <2>1. f + n \in 0 .. Len(m)
    BY <1>1
  <2>. QED BY <2>1, PartIs
<1>4. q \in Seq(Symbols) /\ Len(q) = n /\ \A j \in 1 .. n : q[j] = m[f + j]
  <2>1. \A j \in 1 .. n : b[j] \in Symbols
    <3>1. \A j \in 1 .. n : f + j \in 1 .. Len(m)
      BY <1>1
    <3>. QED BY <1>1, <3>1
  <2>2. /\ q \in Seq(Symbols) /\ Len(q) = IF 1 <= n THEN n - 1 + 1 ELSE 0
        /\ \A i \in 1 .. n - 1 + 1 : q[i] = b[1 + i - 1]
    BY <1>1, <2>1, SubSeqProperties
  <2>. QED BY <1>1, <2>2
<1>. HIDE DEF p, q, r
<1>5. /\ p \o q \in Seq(Symbols) /\ Len(p \o q) = f + n
      /\ \A i \in 1 .. f + n : (p \o q)[i] = IF i <= f THEN p[i] ELSE q[i - f]
  <2>1. /\ p \o q \in Seq(Symbols) /\ Len(p \o q) = Len(p) + Len(q)
        /\ \A i \in 1 .. Len(p) + Len(q) :
             (p \o q)[i] = IF i <= Len(p) THEN p[i] ELSE q[i - Len(p)]
    <3>1. p \in Seq(Symbols) /\ q \in Seq(Symbols)
      BY <1>2, <1>4
    <3>. QED BY <3>1, ConcatProperties, Zenon
  <2>2. Len(p) = f /\ Len(q) = n
    BY <1>2, <1>4
  <2>. QED BY <2>1, <2>2, Zenon
<1>6. \A i \in 1 .. f + n : (p \o q)[i] = r[i]
  <2>1. ASSUME NEW i \in 1 .. f + n PROVE (p \o q)[i] = r[i]
    <3>1. CASE i <= f
      <4>1. i \in 1 .. f
        BY <1>1, <3>1
      <4>. QED BY <1>2, <1>3, <1>5, <3>1, <4>1
    <3>2. CASE ~(i <= f)
      <4>1. i - f \in 1 .. n /\ f + (i - f) = i
        BY <1>1, <3>2
      <4>. QED BY <1>3, <1>4, <1>5, <3>2, <4>1
    <3>. QED BY <3>1, <3>2
  <2>. QED BY <2>1
<1>7. p \o q = r
  BY <1>3, <1>5, <1>6, SeqEqual
<1>. QED BY <1>1, <1>7 DEF p, q, r, f, n

\* The symbols of a batch are taken: a step of the specification.
LEMMA CopyBatchAccount ==
  ASSUME RInv, Verdict, NEW m \in Seq(Symbols), NEW c \in Nat, NEW d \in Nat,
         Account(m, c, d), CopyBatch
  PROVE  Verdict' /\ Account(m, c, d)' /\ StreamNext
<1>1. /\ Copy /\ cpc = "copy" /\ cpc' = "release"
      /\ taken' = taken \o SubSeq(batch[cbatch], 1, clen)
      /\ UNCHANGED <<in, cbatch, clen, batch_len, batch, dbatch, dpc, decoded, error, written,
                     status>>
  BY DEF Copy, CopyBatch, input, prefetchVars, decodeVars, resultVars
<1>2. Usable /\ status = "running"
  <2>1. kpc \in {"barrier", "done"}
    BY DEF RInv, TypeOK
  <2>. QED BY <1>1, <2>1 DEF Verdict
<1>3. Verdict' /\ Decoding(m, d)'
  BY <1>1, <1>2, CopyDecoding DEF Account
<1>4. Queue(m, c, d)'
  BY <1>1, QueueKept DEF Account, Queue
<1>5. /\ c < d /\ clen = Ready(m, c) /\ decoded = Len(m) /\ cbatch = Place(c)
      /\ taken = SubSeq(m, 1, Least(First(c), decoded))
  BY <1>1 DEF Account, Copying, Copied, Decoding, Queue
<1>6. /\ First(c) < Len(m)
      /\ \A j \in 1 .. Ready(m, c) : batch[cbatch][j] = m[First(c) + j]
  BY <1>5 DEF Account, Queue, Handed
<1>. DEFINE l == Least(First(c + 1), Len(m))
<1>7. /\ First(c) \in Nat /\ First(c) < l /\ l \in 0 .. Len(m) /\ Least(First(c), Len(m)) = First(c)
  <2>1. /\ First(c) \in Nat /\ First(c + 1) = First(c) + BatchSize /\ BatchSize \in Nat \ {0}
        /\ Len(m) \in Nat
    BY FirstFacts, SizeFacts
  <2>. HIDE DEF First
  <2>. QED BY <1>6, <2>1 DEF Least
<1>8. taken = SubSeq(m, 1, First(c)) /\ taken' = SubSeq(m, 1, l)
  <2>1. taken = SubSeq(m, 1, First(c))
    BY <1>5, <1>7
  <2>2. SubSeq(m, 1, First(c)) \o SubSeq(batch[cbatch], 1, Ready(m, c)) = SubSeq(m, 1, l)
    BY <1>6, BatchCopied
  <2>. HIDE DEF l
  <2>. QED BY <1>1, <1>5, <2>1, <2>2, Zenon
<1>9. Copying(m, c, d)'
  BY <1>1, <1>5, <1>8 DEF Account, Copying, Copied, Ready
<1>10. Stream!Take
  <2>1. /\ taken' \in Seq(Symbols) /\ Len(taken') = l /\ \A i \in 1 .. l : taken'[i] = m[i]
    BY <1>7, <1>8, PartIs
  <2>2. First(c) \in 0 .. Len(m) /\ l \in Nat
    BY <1>6, <1>7
  <2>3. /\ taken \in Seq(Symbols) /\ Len(taken) = First(c)
    BY <1>8, <2>2, PartIs
  <2>4. Len(taken') > Len(taken)
    BY <1>7, <2>1, <2>3
  <2>5. SubSeq(taken', 1, Len(taken)) = taken
    <3>1. /\ First(c) <= Len(taken') /\ First(c) <= Len(m)
          /\ \A i \in 1 .. First(c) : taken'[i] = m[i]
      BY <1>6, <1>7, <2>1, <2>2
    <3>2. SubSeq(taken', 1, First(c)) = SubSeq(m, 1, First(c))
      BY <1>7, <2>1, <3>1, SamePart
    <3>. QED BY <1>8, <2>3, <3>2
  <2>6. Stream!Valid(taken')
    <3>1. Stream!Valid(SubSeq(m, 1, l))
      BY <1>7, ValidPart DEF Account, Decoding
    <3>. QED BY <1>8, <3>1, Zenon
  <2>7. Usable' = Usable
    BY <1>1, InputKept
  <2>. QED BY <1>1, <1>2, <2>4, <2>5, <2>6, <2>7, Zenon DEF Stream!Take
<1>. QED BY <1>3, <1>4, <1>9, <1>10 DEF Account, StreamNext

\* The batch is given back: one more slot for the decoder.
LEMMA CopyReleaseAccount ==
  ASSUME RInv, Verdict, NEW m \in Seq(Symbols), NEW c \in Nat, NEW d \in Nat,
         Account(m, c, d), CopyRelease
  PROVE  Verdict' /\ Account(m, c + 1, d)' /\ UNCHANGED StreamVars
<1>1. /\ Copy /\ cpc = "release" /\ cpc' = "wait"
      /\ batch_len' = [batch_len EXCEPT ![cbatch] = 0]
      /\ cbatch' = (cbatch + 1) % BatchCount
      /\ UNCHANGED <<in, clen, taken, batch, dbatch, dpc, decoded, error, written, status>>
  BY DEF Copy, CopyRelease, input, prefetchVars, decodeVars, resultVars
<1>2. Verdict' /\ Decoding(m, d)'
  <2>1. Usable
    BY <1>1 DEF Verdict
  <2>. QED BY <1>1, <2>1, CopyDecoding DEF Account
<1>3. /\ c < d /\ cbatch = Place(c) /\ dbatch = Place(d) /\ d <= c + BatchCount
      /\ dpc # "slot" => d < c + BatchCount
  BY <1>1 DEF Account, Copying, Queue
<1>4. BatchCount \in Nat \ {0} /\ batch_len \in [0 .. BatchCount - 1 -> -1 .. BatchSize]
  BY SizeFacts DEF RInv, TypeOK
<1>5. \A k \in Nat : batch_len'[Place(k)] = IF Place(k) = Place(c) THEN 0 ELSE batch_len[Place(k)]
  <2>1. \A k \in Nat : Place(k) \in 0 .. BatchCount - 1
    BY PlaceFacts
  <2>. QED BY <1>1, <1>3, <1>4, <2>1
<1>6. cbatch' = Place(c + 1) /\ dbatch' = Place(d)
  BY <1>1, <1>3, PlaceFacts
<1>7. ASSUME NEW k \in Nat, c + 1 <= k, k < d PROVE Handed(m, k)'
  <2>1. Place(k) # Place(c)
    <3>1. c < d /\ d <= c + BatchCount /\ BatchCount \in Nat \ {0}
      BY <1>3, <1>4
    <3>2. c <= k /\ k < c + BatchCount /\ c < c + BatchCount /\ k # c
      BY <1>7, <3>1
    <3>. QED BY <3>2, OwnSlot
  <2>2. Handed(m, k)
    BY <1>3, <1>7 DEF Account, Queue
  <2>. QED BY <1>1, <1>5, <2>1, <2>2 DEF Handed
<1>8. ASSUME NEW k \in Nat, d <= k, k < c + 1 + BatchCount PROVE Free(k, d)'
  <2>1. CASE k = c + BatchCount
    <3>1. batch_len'[Place(k)] = 0
      BY <1>5, <2>1, PlaceFacts
    <3>. QED BY <3>1 DEF Free
  <2>2. CASE k < c + BatchCount
    <3>1. Place(k) # Place(c)
      BY <1>3, <1>4, <1>8, <2>2, OwnSlot
    <3>2. Free(k, d)
      BY <1>3, <1>8, <2>2 DEF Account, Queue
    <3>. QED BY <1>1, <1>5, <3>1, <3>2 DEF Free
  <2>. QED BY <1>4, <1>8, <2>1, <2>2
<1>9. Queue(m, c + 1, d)'
  BY <1>1, <1>3, <1>4, <1>6, <1>7, <1>8 DEF Queue
<1>10. Copying(m, c + 1, d)'
  BY <1>1 DEF Account, Copying, Copied
<1>11. UNCHANGED StreamVars
  <2>1. Usable' = Usable
    BY <1>1, InputKept
  <2>. QED BY <1>1, <2>1, Zenon DEF StreamVars
<1>. QED BY <1>2, <1>9, <1>10, <1>11 DEF Account

----------------------------------------------------------------------------
(* The decoder.                                                            *)

\* What the decoder leaves alone.
LEMMA DecodeFrame ==
  ASSUME Decode
  PROVE  /\ UNCHANGED <<in, ppc, kpc, cpc, cbatch, clen, taken, written, status>>
         /\ dpc # "done" /\ UNCHANGED StreamVars
<1>1. UNCHANGED <<in, ppc, kpc, cpc, cbatch, clen, taken, written, status>> /\ dpc # "done"
  BY DEF Decode, DecodeSkip, DecodeStart, DecodeFetched, DecodeShort, DecodeLong,
         DecodeLongFetched, DecodeFull, DecodePublish, DecodeSlot, DecodeEnd, input,
         prefetchVars, copyVars, resultVars
<1>2. UNCHANGED StreamVars
  <2>1. Usable' = Usable
    BY <1>1, InputKept
  <2>. QED BY <1>1, <2>1, Zenon DEF StreamVars
<1>. QED BY <1>1, <1>2

\* A decoder that works found no error, and has not ended.
LEMMA DecodeVerdict ==
  ASSUME Verdict, Decode, error' = error, Usable <=> dpc' # "done"
  PROVE  Verdict'
<1>1. /\ UNCHANGED <<in, ppc, kpc, cpc, status>> /\ dpc # "done"
  BY DecodeFrame
<1>2. Usable' <=> Usable
  BY <1>1, InputKept
<1>. QED BY <1>1, <1>2 DEF Verdict

\* The copier's part, when the decoder has gone on to the symbols n or the batch e.
LEMMA DecodeCopying ==
  ASSUME NEW m, NEW n, NEW c \in Nat, NEW d \in Nat, NEW e \in Nat, Copying(m, c, d), Decode,
         d <= e, error' = 0 => error = 0,
         SubSeq(n, 1, Least(Copied(c), decoded')) = SubSeq(m, 1, Least(Copied(c), decoded)),
         c < d => Ready(n, c) = Ready(m, c)
  PROVE  Copying(n, c, e)'
<1>1. UNCHANGED <<cpc, clen, taken>> /\ dpc # "done"
  BY DecodeFrame
<1>2. Copied(c)' = Copied(c)
  BY <1>1 DEF Copied
<1>3. taken' = SubSeq(n, 1, Least(Copied(c), decoded)')
  <2>1. taken = SubSeq(m, 1, Least(Copied(c), decoded))
    BY DEF Copying
  <2>. QED BY <1>1, <1>2, <2>1
<1>4. cpc' \in {"copy", "release"} => c < e /\ clen' = Ready(n, c)
  BY <1>1 DEF Copying
<1>5. ~(cpc' = "done" /\ error' = 0)
  BY <1>1 DEF Copying
<1>. QED BY <1>3, <1>4, <1>5 DEF Copying

\* The same when no symbol was decoded.
LEMMA CopyingKept ==
  ASSUME NEW m, NEW c \in Nat, NEW d \in Nat, NEW e \in Nat, Copying(m, c, d), Decode,
         d <= e, error' = 0 => error = 0, decoded' = decoded
  PROVE  Copying(m, c, e)'
<1>1. SubSeq(m, 1, Least(Copied(c), decoded')) = SubSeq(m, 1, Least(Copied(c), decoded))
  BY Zenon
<1>. QED BY <1>1, DecodeCopying

\* Steps of the decoder that only lead to the next place of its loop.
LEMMA ControlAccount ==
  ASSUME RInv, Verdict, NEW m \in Seq(Symbols), NEW c \in Nat, NEW d \in Nat,
         Account(m, c, d), Decode,
         DecodeSkip \/ DecodeStart \/ DecodeFetched \/ DecodeFull \/ DecodeSlot
  PROVE  Verdict' /\ Account(m, c, d)'
<1>1. /\ UNCHANGED <<in, cpc, cbatch, clen, taken>> /\ dpc # "done"
  BY DecodeFrame
<1>2. UNCHANGED <<left, decoded, dbatch, sym, batch, batch_len, error>>
  BY DEF DecodeSkip, DecodeStart, DecodeFetched, DecodeFull, DecodeSlot
<1>3. /\ Stream!Decodable' <=> Stream!Decodable
      /\ Stream!Valid(m)' <=> Stream!Valid(m)
  BY <1>1, InputKept
<1>4. Copying(m, c, d)'
  BY <1>2, CopyingKept DEF Account
<1>5. First(d) \in Nat /\ decoded \in Nat /\ dlen \in 0 .. BatchSize /\ BatchSize \in Nat \ {0}
      /\ error \in {-2, -1, 0} /\ left \in Nat
  BY FirstFacts, SizeFacts DEF RInv, TypeOK
<1>6. dpc # "start" => Usable
  BY <1>1 DEF Verdict
<1>7. CASE DecodeSkip
  <2>1. dpc = "start" /\ error # 0 /\ dpc' = "done" /\ dlen' = dlen
    BY <1>7 DEF DecodeSkip
  <2>2. Verdict'
    BY <1>1, <1>2, <1>5, <2>1, DecodeVerdict DEF Verdict
  <2>3. Queue(m, c, d)'
    BY <1>1, <1>2, <2>1, QueueKept DEF Account, Queue
  <2>4. Decoding(m, d)'
    BY <1>1, <1>2, <1>3, <1>5, <2>1 DEF Account, Decoding
  <2>. QED BY <1>4, <2>2, <2>3, <2>4 DEF Account
<1>8. CASE DecodeStart
  <2>1. dpc = "start" /\ error = 0 /\ dpc' = "wait" /\ dlen' = dlen
    BY <1>8 DEF DecodeStart
  <2>2. Verdict'
    <3>1. Usable
      BY <2>1 DEF Verdict
    <3>. QED BY <1>2, <2>1, <3>1, DecodeVerdict
  <2>3. Queue(m, c, d)'
    BY <1>1, <1>2, <2>1, QueueKept DEF Account, Queue
  <2>4. Decoding(m, d)'
    BY <1>1, <1>2, <1>3, <2>1 DEF Account, Decoding
  <2>. QED BY <1>4, <2>2, <2>3, <2>4 DEF Account
<1>9. CASE DecodeFetched
  <2>1. dpc = "wait" /\ dpc' = "symbol" /\ dlen' = 0
    BY <1>9 DEF DecodeFetched
  <2>2. Verdict'
    BY <1>2, <1>6, <2>1, DecodeVerdict
  <2>3. Queue(m, c, d)'
    BY <1>1, <1>2, <2>1, QueueKept DEF Account, Queue
  <2>4. Decoding(m, d)'
    BY <1>1, <1>2, <1>3, <1>5, <2>1 DEF Account, Decoding
  <2>. QED BY <1>4, <2>2, <2>3, <2>4 DEF Account
<1>10. CASE DecodeFull
  <2>1. dpc = "symbol" /\ dpc' = "publish" /\ dlen' = dlen /\ (left = 0 \/ dlen = BatchSize)
    BY <1>5, <1>10 DEF DecodeFull, More
  <2>2. Verdict'
    BY <1>2, <1>6, <2>1, DecodeVerdict
  <2>3. Queue(m, c, d)'
    BY <1>1, <1>2, <2>1, QueueKept DEF Account, Queue
  <2>4. Decoding(m, d)'
    BY <1>1, <1>2, <1>3, <2>1 DEF Account, Decoding
  <2>. QED BY <1>4, <2>2, <2>3, <2>4 DEF Account
<1>11. CASE DecodeSlot
  <2>1. /\ dpc = "slot" /\ batch_len[dbatch] = 0 /\ dlen' = dlen
        /\ dpc' = (IF dlen # BatchSize THEN "end" ELSE "start")
    BY <1>11 DEF DecodeSlot
  <2>2. Verdict'
    BY <1>2, <1>6, <2>1, DecodeVerdict
  <2>3. d < c + BatchCount
    <3>1. BatchCount \in Nat \ {0} /\ d <= c + BatchCount /\ dbatch = Place(d)
      BY SizeFacts DEF Account, Queue
    <3>2. CASE d = c + BatchCount
      <4>1. Handed(m, c)
        BY <3>1, <3>2 DEF Account, Queue
      <4>2. Place(d) = Place(c)
        BY <3>2, PlaceFacts
      <4>3. Ready(m, c) = 0
        BY <2>1, <3>1, <4>1, <4>2 DEF Handed
      <4>4. Ready(m, c) \in 1 .. BatchSize
        BY <4>1, ReadyIs DEF Handed
      <4>. QED BY <4>3, <4>4
    <3>. QED BY <3>1, <3>2
  <2>4. Queue(m, c, d)'
    BY <1>1, <1>2, <2>1, <2>3, QueueKept DEF Account
  <2>5. Decoding(m, d)'
    BY <1>1, <1>2, <1>3, <1>5, <2>1 DEF Account, Decoding
  <2>. QED BY <1>4, <2>2, <2>4, <2>5 DEF Account
<1>. QED BY <1>7, <1>8, <1>9, <1>10, <1>11

\* A batch is handed over.
LEMMA PublishAccount ==
  ASSUME RInv, Verdict, NEW m \in Seq(Symbols), NEW c \in Nat, NEW d \in Nat,
         Account(m, c, d), Decode, DecodePublish
  PROVE  Verdict' /\ \E e \in Nat : Account(m, c, e)'
<1>1. /\ UNCHANGED <<in, cpc, cbatch, clen, taken>> /\ dpc # "done"
  BY DecodeFrame
<1>2. /\ dpc = "publish" /\ dpc' = "slot"
      /\ UNCHANGED <<left, decoded, dlen, sym, batch, error>>
      /\ dlen # 0 => /\ batch_len' = [batch_len EXCEPT ![dbatch] = dlen]
                     /\ dbatch' = (dbatch + 1) % BatchCount
      /\ dlen = 0 => UNCHANGED <<batch_len, dbatch>>
  BY DEF DecodePublish
<1>3. /\ Stream!Decodable' <=> Stream!Decodable
      /\ Stream!Valid(m)' <=> Stream!Valid(m)
  BY <1>1, InputKept
<1>4. Verdict'
  <2>1. Usable
    BY <1>2 DEF Verdict
  <2>. QED BY <1>2, <2>1, DecodeVerdict
<1>5. /\ First(d) \in Nat /\ First(d + 1) = First(d) + BatchSize /\ decoded \in Nat
      /\ dlen \in 0 .. BatchSize /\ BatchSize \in Nat \ {0} /\ BatchCount \in Nat \ {0}
      /\ batch_len \in [0 .. BatchCount - 1 -> -1 .. BatchSize]
  BY FirstFacts, SizeFacts DEF RInv, TypeOK
<1>6. /\ Len(m) = decoded /\ decoded = First(d) + dlen
      /\ \A j \in 1 .. dlen : batch[dbatch][j] = m[First(d) + j]
  BY <1>2 DEF Account, Decoding
<1>7. /\ c <= d /\ d < c + BatchCount /\ cbatch = Place(c) /\ dbatch = Place(d)
      /\ \A k \in Nat : c <= k /\ k < d => Handed(m, k)
      /\ \A k \in Nat : d <= k /\ k < c + BatchCount => Free(k, d)
  BY <1>2 DEF Account, Queue
<1>10. c <= d /\ d < c + BatchCount
  BY <1>7
<1>8. CASE dlen = 0
  <2>1. Queue(m, c, d)'
    BY <1>1, <1>2, <1>8, QueueKept DEF Account
  <2>2. Decoding(m, d)'
    BY <1>1, <1>2, <1>3, <1>5, <1>6, <1>8 DEF Account, Decoding
  <2>3. Copying(m, c, d)'
    BY <1>2, CopyingKept DEF Account
  <2>. QED BY <1>4, <2>1, <2>2, <2>3 DEF Account
<1>9. CASE dlen # 0
  <2>1. dbatch' = Place(d + 1)
    BY <1>2, <1>7, <1>9, PlaceFacts
  <2>2. \A k \in Nat : batch_len'[Place(k)]
                         = IF Place(k) = Place(d) THEN dlen ELSE batch_len[Place(k)]
    <3>1. \A k \in Nat : Place(k) \in 0 .. BatchCount - 1
      BY PlaceFacts
    <3>. QED BY <1>2, <1>5, <1>7, <1>9, <3>1
  <2>3. ASSUME NEW k \in Nat, c <= k, k < d + 1 PROVE Handed(m, k)'
    <3>1. CASE k = d
      <4>1. First(d) < Len(m) /\ Ready(m, d) = dlen
        <5>. HIDE DEF First
        <5>. QED BY <1>5, <1>6, <1>9 DEF Ready, Least
      <4>2. batch_len'[Place(d)] = dlen
        BY <2>2
      <4>. QED BY <1>2, <1>6, <1>7, <3>1, <4>1, <4>2 DEF Handed
    <3>2. CASE k < d
      <4>1. Place(k) # Place(d)
        <5>1. k < c + BatchCount /\ k # d
          BY <1>5, <1>10, <2>3, <3>2
        <5>. QED BY <1>10, <2>3, <5>1, OwnSlot
      <4>2. Handed(m, k)
        BY <1>7, <2>3, <3>2
      <4>. QED BY <1>2, <2>2, <4>1, <4>2 DEF Handed
    <3>. QED BY <2>3, <3>1, <3>2
  <2>4. ASSUME NEW k \in Nat, d + 1 <= k, k < c + BatchCount PROVE Free(k, d + 1)'
    <3>1. Place(k) # Place(d)
      <4>1. c <= k /\ k # d
        BY <1>10, <2>4
      <4>. QED BY <1>10, <2>4, <4>1, OwnSlot
    <3>2. Free(k, d)
      BY <1>7, <2>4
    <3>. QED BY <1>1, <2>2, <3>1, <3>2 DEF Free
  <2>5. Queue(m, c, d + 1)'
    <3>1. c <= d + 1 /\ d + 1 <= c + BatchCount
      BY <1>5, <1>7
    <3>. QED BY <1>1, <1>2, <1>7, <2>1, <2>3, <2>4, <3>1 DEF Queue
  <2>6. Decoding(m, d + 1)'
    <3>1. /\ decoded <= First(d + 1) /\ (dlen = BatchSize => decoded = First(d + 1))
          /\ dpc' = "slot"
      BY <1>2, <1>5, <1>6, SMTT(30)
    <3>2. /\ Len(m) = decoded /\ Stream!Valid(m) /\ Stream!Total(m) = in.usize - left
          /\ dlen # BatchSize /\ left # 0 => ~Stream!Decodable
      BY <1>2 DEF Account, Decoding
    <3>. QED BY <1>1, <1>2, <1>3, <3>1, <3>2 DEF Decoding
  <2>7. Copying(m, c, d + 1)'
    <3>1. d + 1 \in Nat /\ d <= d + 1
      OBVIOUS
    <3>. QED BY <1>2, <3>1, CopyingKept DEF Account
  <2>8. Account(m, c, d + 1)'
    BY <2>5, <2>6, <2>7 DEF Account
  <2>. QED BY <1>4, <2>8
<1>. QED BY <1>8, <1>9

\* The end marker, and the verdict of the decoder.
LEMMA EndAccount ==
  ASSUME RInv, Verdict, NEW m \in Seq(Symbols), NEW c \in Nat, NEW d \in Nat,
         Account(m, c, d), Decode, DecodeEnd
  PROVE  Verdict' /\ Account(m, c, d)'
<1>1. /\ UNCHANGED <<in, ppc, kpc, cpc, cbatch, clen, taken, status>>
  BY DecodeFrame
<1>2. /\ dpc = "end" /\ dpc' = "done" /\ batch_len' = [batch_len EXCEPT ![dbatch] = -1]
      /\ bytes_left' = left /\ error' = (IF left # 0 THEN -2 ELSE error)
      /\ UNCHANGED <<left, decoded, dbatch, dlen, sym, batch>>
  BY DEF DecodeEnd
<1>3. /\ Usable' <=> Usable
      /\ Stream!Decodable' <=> Stream!Decodable
      /\ Stream!Valid(m)' <=> Stream!Valid(m)
  BY <1>1, InputKept
<1>4. Usable /\ error = 0
  <2>1. error \in {-2, -1, 0}
    BY DEF RInv, TypeOK
  <2>. QED BY <1>2, <2>1 DEF Verdict
<1>5. dlen # BatchSize /\ decoded <= First(d) /\ (left # 0 => ~Stream!Decodable)
  BY <1>2 DEF Account, Decoding
<1>6. Verdict'
  BY <1>1, <1>2, <1>3, <1>4, <1>5 DEF Verdict
<1>7. Decoding(m, d)'
  BY <1>1, <1>2, <1>3, <1>5 DEF Account, Decoding
<1>8. Copying(m, c, d)'
  BY <1>2, <1>4, CopyingKept DEF Account
<1>9. /\ c <= d /\ d < c + BatchCount /\ cbatch = Place(c) /\ dbatch = Place(d)
      /\ \A k \in Nat : c <= k /\ k < d => Handed(m, k)
      /\ \A k \in Nat : d <= k /\ k < c + BatchCount => Free(k, d)
  BY <1>2 DEF Account, Queue
<1>10. \A k \in Nat : batch_len'[Place(k)]
                        = IF Place(k) = Place(d) THEN -1 ELSE batch_len[Place(k)]
  <2>1. \A k \in Nat : Place(k) \in 0 .. BatchCount - 1
    BY PlaceFacts
  <2>2. batch_len \in [0 .. BatchCount - 1 -> -1 .. BatchSize]
    BY DEF RInv, TypeOK
  <2>. QED BY <1>2, <1>9, <2>1, <2>2
<1>11. ASSUME NEW k \in Nat, c <= k, k < d PROVE Handed(m, k)'
  <2>1. Place(k) # Place(d)
    BY <1>9, <1>11, SizeFacts, OwnSlot
  <2>2. Handed(m, k)
    BY <1>9, <1>11
  <2>. QED BY <1>2, <1>10, <2>1, <2>2 DEF Handed
<1>12. ASSUME NEW k \in Nat, d <= k, k < c + BatchCount PROVE Free(k, d)'
  <2>1. CASE k = d
    BY <1>2, <1>10, <2>1 DEF Free
  <2>2. CASE k # d
    <3>1. Place(k) # Place(d)
      BY <1>9, <1>12, <2>2, SizeFacts, OwnSlot
    <3>2. Free(k, d)
      BY <1>9, <1>12
    <3>. QED BY <1>2, <1>10, <2>2, <3>1, <3>2 DEF Free
  <2>. QED BY <2>1, <2>2
<1>13. Queue(m, c, d)'
  BY <1>1, <1>2, <1>9, <1>11, <1>12, SizeFacts DEF Queue
<1>. QED BY <1>6, <1>7, <1>8, <1>13 DEF Account

\* What the decoder reads is the next symbol of the stream.
LEMMA ReadsNext ==
  ASSUME RInv, dpc = "symbol", More, NEW x \in Readable, decoded < Len(in.stream)
  PROVE  x = in.stream[decoded + 1]
<1>. DEFINE y == in.stream[decoded + 1]
<1>1. /\ in.stream \in Seq(Symbols) /\ decoded \in Nat /\ cur \in Nat
      /\ buf \in [0 .. PrefetchSize - 1 -> Nat \cup {-1}]
  BY DEF RInv, TypeOK, InputType
<1>2. y \in Symbols
  BY <1>1
<1>3. y.read \in Nat /\ y.read <= SymbolBytes /\ SymbolBytes \in Nat
  BY <1>2, SymbolsAssumption, SizeFacts
<1>4. Intact(cur, SymbolBytes)
  BY RInvIntact DEF RingIntact
<1>5. Intact(cur, y.read)
  <2>. HIDE DEF y
  <2>. QED BY <1>1, <1>3, <1>4 DEF Intact
<1>. QED BY <1>5 DEF Readable

\* The next symbol joins the batch and the account, or is the end of it.
LEMMA PushAccount ==
  ASSUME RInv, NEW m \in Seq(Symbols), NEW c \in Nat, NEW d \in Nat, Account(m, c, d), Decode,
         dpc \in {"symbol", "long"}, dlen < BatchSize, NEW x \in Symbols, Push(x),
         decoded < Len(in.stream) => x = in.stream[decoded + 1],
         UNCHANGED <<dbatch, batch_len, error>>
  PROVE  \E n \in Seq(Symbols) : Account(n, c, d)'
<1>1. /\ UNCHANGED <<in, cpc, cbatch, clen, taken>>
  BY DecodeFrame
<1>2. /\ Stream!Decodable' <=> Stream!Decodable
      /\ \A n : Stream!Valid(n)' <=> Stream!Valid(n)
  BY <1>1, InputKept
<1>3. /\ First(d) \in Nat /\ First(d + 1) = First(d) + BatchSize /\ decoded \in Nat
      /\ dlen \in 0 .. BatchSize /\ BatchSize \in Nat \ {0} /\ BatchCount \in Nat \ {0}
      /\ left \in Nat /\ in.usize \in Nat /\ left <= in.usize /\ in.stream \in Seq(Symbols)
      /\ batch \in [0 .. BatchCount - 1 -> [1 .. BatchSize -> Symbols \cup {NoSymbol}]]
  BY FirstFacts, SizeFacts DEF RInv, TypeOK, InputType, Sizes
<1>4. /\ Len(m) = decoded /\ decoded = First(d) + dlen /\ Stream!Valid(m)
      /\ Stream!Total(m) = in.usize - left
      /\ \A j \in 1 .. dlen : batch[dbatch][j] = m[First(d) + j]
  BY DEF Account, Decoding
<1>5. /\ c <= d /\ d < c + BatchCount /\ cbatch = Place(c) /\ dbatch = Place(d)
      /\ \A k \in Nat : c <= k /\ k < d => Handed(m, k)
      /\ \A k \in Nat : d <= k /\ k < c + BatchCount => Free(k, d)
  BY DEF Account, Queue
<1>10. /\ First(d) \in Nat /\ decoded \in Nat /\ dlen \in Nat /\ decoded = First(d) + dlen
       /\ BatchSize \in Nat \ {0} /\ left \in Nat /\ in.usize \in Nat /\ left <= in.usize
       /\ Stream!Total(m) = in.usize - left
  BY <1>3, <1>4
<1>6. x.len \in Nat /\ x.len > 0
  BY SymbolsAssumption
<1>7. Accepts(x) <=> Stream!Acceptable(x, Stream!Total(m))
  <2>1. x.dist \in Nat
    BY SymbolsAssumption
  <2>2. Accepts(x) <=> Stream!Acceptable(x, in.usize - left)
    BY <1>6, <1>10, <2>1 DEF Accepts, Stream!Acceptable
  <2>. QED BY <1>4, <2>2
<1>8. CASE ~Accepts(x)
  <2>1. dpc' = "publish" /\ UNCHANGED <<batch, dlen, left, decoded>>
    BY <1>8 DEF Push
  <2>2. left # 0 => ~Stream!Decodable
    <3>. SUFFICES ASSUME left # 0 PROVE ~Stream!Decodable
      OBVIOUS
    <3>1. Stream!Total(m) < in.usize
      BY <1>3, <1>4
    <3>2. Len(m) < Len(in.stream)
            => ~Stream!Acceptable(in.stream[Len(m) + 1], Stream!Total(m))
      BY <1>4, <1>7, <1>8
    <3>. QED BY <1>3, <1>4, <3>1, <3>2, Undecodable
  <2>3. Queue(m, c, d)'
    BY <1>1, <1>5, <2>1, QueueKept DEF Account
  <2>4. Decoding(m, d)'
    BY <1>1, <1>2, <1>4, <2>1, <2>2 DEF Decoding
  <2>5. Copying(m, c, d)'
    BY <2>1, CopyingKept DEF Account
  <2>. QED BY <2>3, <2>4, <2>5 DEF Account
<1>9. CASE Accepts(x)
  <2>. DEFINE n == Append(m, x)
  <2>1. /\ dpc' = "symbol" /\ dlen' = dlen + 1 /\ left' = left - x.len /\ decoded' = decoded + 1
        /\ batch' = [batch EXCEPT ![dbatch][dlen + 1] = x]
    BY <1>9 DEF Push
  <2>2. /\ n \in Seq(Symbols) /\ Len(n) = decoded + 1 /\ n[decoded + 1] = x
        /\ \A i \in 1 .. decoded : n[i] = m[i]
        /\ \A k \in 0 .. decoded : SubSeq(n, 1, k) = SubSeq(m, 1, k)
    BY <1>4, PartOfMore
  <2>3. Stream!Valid(n)
    BY <1>3, <1>4, <1>7, <1>9, ValidMore
  <2>4. Stream!Total(n) = in.usize - left'
    <3>1. Stream!Total(n) = Stream!Total(m) + x.len
      BY TotalAppend
    <3>. QED BY <1>6, <1>10, <2>1, <3>1
  <2>. HIDE DEF n
  <2>5. /\ \A j \in 1 .. dlen : batch'[dbatch][j] = batch[dbatch][j]
        /\ batch'[dbatch][dlen + 1] = x
        /\ \A i \in 0 .. BatchCount - 1 : i # dbatch => batch'[i] = batch[i]
    <3>1. dbatch \in 0 .. BatchCount - 1
      BY <1>5, PlaceFacts
    <3>2. dlen + 1 \in 1 .. BatchSize /\ \A j \in 1 .. dlen : j \in 1 .. BatchSize /\ j # dlen + 1
      BY <1>3
    <3>. QED BY <1>3, <2>1, <3>1, <3>2
  <2>6. \A j \in 1 .. dlen' : batch'[dbatch'][j] = n[First(d) + j]
    <3>1. ASSUME NEW j \in 1 .. dlen + 1 PROVE batch'[dbatch][j] = n[First(d) + j]
      <4>1. CASE j = dlen + 1
        <5>1. First(d) + j = decoded + 1
          BY <1>10, <4>1
        <5>. QED BY <2>2, <2>5, <4>1, <5>1
      <4>2. CASE j # dlen + 1
        <5>1. j \in 1 .. dlen /\ First(d) + j \in 1 .. decoded
          BY <1>10, <4>2
        <5>. QED BY <1>4, <2>2, <2>5, <5>1
      <4>. QED BY <4>1, <4>2
    <3>. QED BY <2>1, <3>1
  <2>7. Decoding(n, d)'
    <3>1. decoded' = First(d) + dlen'
      BY <1>3, <1>4, <2>1
    <3>. QED BY <1>1, <1>2, <2>1, <2>2, <2>3, <2>4, <2>6, <3>1 DEF Decoding
  <2>8. ASSUME NEW k \in Nat, c <= k, k < d
        PROVE  Handed(m, k) /\ First(k) + Ready(m, k) <= decoded /\ Ready(n, k) = Ready(m, k)
               /\ First(k) \in Nat /\ Ready(m, k) \in Nat
    <3>1. Handed(m, k) /\ First(k) < Len(m)
      BY <1>5, <2>8 DEF Handed
    <3>2. /\ First(k) \in Nat /\ First(k) + BatchSize <= First(d)
          /\ First(k + 1) = First(k) + BatchSize
      BY <2>8, FirstFacts
    <3>3. First(k + 1) <= Len(m) /\ First(k) < Len(n) /\ First(k + 1) <= Len(n)
      <4>1. First(d) <= decoded /\ Len(m) = decoded /\ Len(n) = decoded + 1
        BY <1>3, <1>4, <2>2
      <4>. QED BY <1>3, <3>1, <3>2, <4>1
    <3>4. Ready(m, k) = BatchSize /\ Ready(n, k) = BatchSize
      BY <2>2, <3>1, <3>3, ReadyIs
    <3>. QED BY <1>3, <1>4, <3>1, <3>2, <3>4
  <2>9. ASSUME NEW k \in Nat, c <= k, k < d PROVE Handed(n, k)'
    <3>1. /\ Handed(m, k) /\ First(k) + Ready(m, k) <= decoded /\ Ready(n, k) = Ready(m, k)
          /\ First(k) \in Nat /\ Ready(m, k) \in Nat
      BY <2>8, <2>9
    <3>2. batch'[Place(k)] = batch[Place(k)]
      <4>1. Place(k) # Place(d) /\ Place(k) \in 0 .. BatchCount - 1
        <5>1. k < c + BatchCount /\ k # d
          BY <1>3, <1>5, <2>9
        <5>. QED BY <1>5, <2>9, <5>1, OwnSlot, PlaceFacts
      <4>. QED BY <1>5, <2>5, <4>1
    <3>3. First(k) < Len(n)
      BY <1>3, <1>4, <2>2, <3>1 DEF Handed
    <3>4. \A j \in 1 .. Ready(m, k) : n[First(k) + j] = m[First(k) + j]
      <4>1. \A j \in 1 .. Ready(m, k) : First(k) + j \in 1 .. decoded
        <5>. DEFINE f == First(k)
                    r == Ready(m, k)
        <5>1. f \in Nat /\ r \in Nat /\ f + r <= decoded /\ decoded \in Nat
          BY <1>10, <3>1
        <5>. HIDE DEF f, r
        <5>2. \A j \in 1 .. r : f + j \in 1 .. decoded
          BY <5>1
        <5>. QED BY <5>2 DEF f, r
      <4>. QED BY <2>2, <4>1
    <3>. QED BY <3>1, <3>2, <3>3, <3>4 DEF Handed
  <2>10. Queue(n, c, d)'
    <3>1. \A k \in Nat : d <= k /\ k < c + BatchCount => Free(k, d)'
      BY <1>5, <2>1 DEF Free
    <3>2. c <= d /\ d <= c + BatchCount
      BY <1>3, <1>5
    <3>. QED BY <1>1, <1>5, <2>9, <3>1, <3>2 DEF Queue
  <2>11. Copying(n, c, d)'
    <3>1. /\ cpc \in {"copy", "release"} => c < d
          /\ Copying(m, c, d)
      BY DEF Account, Copying
    <3>2. Copied(c) \in Nat /\ Copied(c) <= decoded
      <4>1. First(c) \in Nat /\ First(c + 1) \in Nat /\ First(c + 1) = First(c) + BatchSize
        BY FirstFacts
      <4>2. c < d => First(c) + BatchSize <= First(d)
        BY FirstFacts
      <4>3. CASE c < d
        <5>1. First(c) + BatchSize <= decoded
          BY <1>10, <4>1, <4>2, <4>3
        <5>. QED BY <1>10, <4>1, <5>1 DEF Copied
      <4>4. CASE c = d
        BY <1>10, <3>1, <4>1, <4>4 DEF Copied
      <4>. QED BY <1>5, <4>3, <4>4
    <3>3. Least(Copied(c), decoded') = Copied(c) /\ Least(Copied(c), decoded) = Copied(c)
      BY <1>3, <2>1, <3>2 DEF Least
    <3>4. SubSeq(n, 1, Copied(c)) = SubSeq(m, 1, Copied(c))
      <4>1. Copied(c) \in 0 .. decoded
        BY <1>10, <3>2
      <4>. QED BY <2>2, <4>1
    <3>5. c < d => Ready(n, c) = Ready(m, c)
      BY <2>8
    <3>6. SubSeq(n, 1, Least(Copied(c), decoded')) = SubSeq(m, 1, Least(Copied(c), decoded))
      BY <3>3, <3>4, Zenon
    <3>7. d <= d /\ (error' = 0 => error = 0)
      OBVIOUS
    <3>. QED BY <3>1, <3>5, <3>6, <3>7, DecodeCopying
  <2>. QED BY <2>2, <2>7, <2>10, <2>11 DEF Account
<1>. QED BY <1>8, <1>9

\* Steps that read symbols.
LEMMA SymbolAccount ==
  ASSUME RInv, Verdict, NEW m \in Seq(Symbols), NEW c \in Nat, NEW d \in Nat,
         Account(m, c, d), Decode, DecodeShort \/ DecodeLong \/ DecodeLongFetched
  PROVE  Verdict' /\ \E n \in Seq(Symbols) : Account(n, c, d)'
<1>1. /\ UNCHANGED <<in, cpc, cbatch, clen, taken, dbatch, batch_len, error>>
      /\ dpc \in {"symbol", "long"} /\ dpc' \in {"symbol", "long", "publish"}
  <2>1. /\ UNCHANGED <<dbatch, batch_len, error>>
        /\ dpc \in {"symbol", "long"} /\ dpc' \in {"symbol", "long", "publish"}
    BY DEF DecodeShort, DecodeLong, DecodeLongFetched, Push
  <2>. QED BY <2>1, DecodeFrame
<1>2. Verdict'
  <2>1. Usable
    BY <1>1 DEF Verdict
  <2>. QED BY <1>1, <2>1, DecodeVerdict
<1>3. BatchSize \in Nat /\ dlen \in 0 .. BatchSize
  BY SizeFacts DEF RInv, TypeOK
<1>4. CASE DecodeShort
  <2>1. dpc = "symbol" /\ More /\ dlen < BatchSize
    BY <1>4 DEF DecodeShort, More
  <2>2. PICK x \in Readable : Push(x)
    BY <1>4 DEF DecodeShort
  <2>3. x \in Symbols /\ (decoded < Len(in.stream) => x = in.stream[decoded + 1])
    BY <2>1, ReadsNext DEF Readable
  <2>4. \E n \in Seq(Symbols) : Account(n, c, d)'
    BY <1>1, <2>1, <2>2, <2>3, PushAccount
  <2>. QED BY <1>2, <2>4
<1>5. CASE DecodeLong
  <2>1. dpc = "symbol" /\ More /\ dpc' = "long"
        /\ UNCHANGED <<left, decoded, dlen, batch>>
    BY <1>5 DEF DecodeLong
  <2>2. PICK x \in Readable : sym' = x
    BY <1>5 DEF DecodeLong
  <2>3. decoded < Len(in.stream) => sym' = in.stream[decoded + 1]
    BY <2>1, <2>2, ReadsNext
  <2>4. /\ Stream!Decodable' <=> Stream!Decodable
        /\ Stream!Valid(m)' <=> Stream!Valid(m)
    BY <1>1, InputKept
  <2>5. Queue(m, c, d)'
    BY <1>1, <2>1, QueueKept DEF Account, Queue
  <2>6. Decoding(m, d)'
    BY <1>1, <2>1, <2>3, <2>4 DEF Account, Decoding
  <2>7. Copying(m, c, d)'
    BY <1>1, <2>1, CopyingKept DEF Account
  <2>. QED BY <1>2, <2>5, <2>6, <2>7 DEF Account
<1>6. CASE DecodeLongFetched
  <2>1. dpc = "long" /\ Push(sym)
    BY <1>6 DEF DecodeLongFetched
  <2>2. sym \in Symbols /\ dlen < BatchSize
    BY <2>1 DEF RInv, LookAhead
  <2>3. decoded < Len(in.stream) => sym = in.stream[decoded + 1]
    BY <2>1 DEF Account, Decoding
  <2>4. \E n \in Seq(Symbols) : Account(n, c, d)'
    BY <1>1, <2>1, <2>2, <2>3, PushAccount
  <2>. QED BY <1>2, <2>4
<1>. QED BY <1>4, <1>5, <1>6

----------------------------------------------------------------------------
(* The refinement.                                                         *)

\* At first nothing is decoded, handed over or taken.
LEMMA SInvInit == ASSUME Init PROVE SInv /\ Stream!Start
<1>1. in \in InputType
  BY InputsAssumption DEF Init
<1>2. /\ in.usize \in Nat /\ in.end \in Nat /\ in.dst \in Nat /\ in.stream \in Seq(Symbols)
      /\ in.header \in {"ok", "empty", "overlong"}
  BY <1>1 DEF InputType
<1>3. Verdict
  BY <1>2 DEF Init, Verdict, Usable
<1>4. <<>> \in Seq(Symbols) /\ Len(<<>>) = 0
  OBVIOUS
<1>5. Queue(<<>>, 0, 0)
  <2>1. BatchCount \in Nat \ {0} /\ Place(0) = 0
    BY SizeFacts, PlaceFacts
  <2>2. \A k \in Nat : Place(k) \in 0 .. BatchCount - 1
    BY PlaceFacts
  <2>3. \A k \in Nat : Free(k, 0)
    BY <2>2 DEF Init, Free
  <2>4. cbatch = Place(0) /\ dbatch = Place(0) /\ dpc = "start"
    BY <2>1 DEF Init
  <2>. QED BY <2>1, <2>3, <2>4 DEF Queue
<1>6. Decoding(<<>>, 0)
  <2>1. Stream!Valid(<<>>)
    BY DEF Stream!Valid
  <2>2. decoded = 0 /\ left = in.usize /\ dpc = "start"
    BY DEF Init
  <2>3. First(0) = 0 /\ Stream!Total(<<>>) = in.usize - left
    <3>1. Stream!Total(<<>>) = 0
      BY TotalEmpty, Zenon
    <3>2. in.usize - left = 0
      BY <1>2, <2>2
    <3>. QED BY <3>1, <3>2, FirstFacts, Zenon
  <2>. QED BY <1>4, <2>1, <2>2, <2>3 DEF Decoding
<1>7. Copying(<<>>, 0, 0)
  <2>1. First(0) = 0 /\ decoded = 0 /\ cpc = "enter" /\ taken = <<>>
    BY FirstFacts DEF Init
  <2>2. SubSeq(<<>>, 1, 0) = <<>>
    BY SubSeqEmpty
  <2>. QED BY <2>1, <2>2 DEF Copying, Copied, Least
<1>8. Account(<<>>, 0, 0)
  BY <1>5, <1>6, <1>7 DEF Account
<1>9. Stream!Start
  BY DEF Init, Stream!Start
<1>. QED BY <1>3, <1>4, <1>8, <1>9 DEF SInv

\* Every step keeps the account and is a step of the specification, or none.
LEMMA StepImplements ==
  ASSUME RInv, SInv, [Next]_vars
  PROVE  SInv' /\ (StreamNext \/ UNCHANGED StreamVars)
<1>1. PICK m \in Seq(Symbols), c \in Nat, d \in Nat : Account(m, c, d)
  BY DEF SInv
<1>2. Verdict
  BY DEF SInv
<1>3. CASE Result
  <2>1. Verdict' /\ Account(m, c, d)' /\ StreamNext
    BY <1>1, <1>2, <1>3, ResultAccount
  <2>. QED BY <2>1 DEF SInv
<1>4. CASE Prefetch
  <2>1. Verdict' /\ Account(m, c, d)' /\ UNCHANGED StreamVars
    BY <1>1, <1>2, <1>4, PrefetchAccount
  <2>. QED BY <2>1 DEF SInv
<1>5. CASE Copy
  <2>1. CASE CopyEnter \/ CopyTake
    <3>1. Verdict' /\ Account(m, c, d)' /\ UNCHANGED StreamVars
      BY <1>1, <1>2, <2>1, CopyEnterAccount, CopyTakeAccount
    <3>. QED BY <3>1 DEF SInv
  <2>2. CASE CopyBatch
    <3>1. Verdict' /\ Account(m, c, d)' /\ StreamNext
      BY <1>1, <1>2, <2>2, CopyBatchAccount
    <3>. QED BY <3>1 DEF SInv
  <2>3. CASE CopyRelease
    <3>1. Verdict' /\ Account(m, c + 1, d)' /\ UNCHANGED StreamVars
      BY <1>1, <1>2, <2>3, CopyReleaseAccount
    <3>2. c + 1 \in Nat
      OBVIOUS
    <3>. QED BY <3>1, <3>2 DEF SInv
  <2>. QED BY <1>5, <2>1, <2>2, <2>3 DEF Copy
<1>6. CASE Decode
  <2>1. UNCHANGED StreamVars
    BY <1>6, DecodeFrame
  <2>2. CASE DecodeSkip \/ DecodeStart \/ DecodeFetched \/ DecodeFull \/ DecodeSlot
    <3>1. Verdict' /\ Account(m, c, d)'
      BY <1>1, <1>2, <1>6, <2>2, ControlAccount
    <3>. QED BY <2>1, <3>1 DEF SInv
  <2>3. CASE DecodeShort \/ DecodeLong \/ DecodeLongFetched
    <3>1. Verdict' /\ \E n \in Seq(Symbols) : Account(n, c, d)'
      BY <1>1, <1>2, <1>6, <2>3, SymbolAccount
    <3>. QED BY <2>1, <3>1 DEF SInv
  <2>4. CASE DecodePublish
    <3>1. Verdict' /\ \E e \in Nat : Account(m, c, e)'
      BY <1>1, <1>2, <1>6, <2>4, PublishAccount
    <3>. QED BY <2>1, <3>1 DEF SInv
  <2>5. CASE DecodeEnd
    <3>1. Verdict' /\ Account(m, c, d)'
      BY <1>1, <1>2, <1>6, <2>5, EndAccount
    <3>. QED BY <2>1, <3>1 DEF SInv
  <2>. QED BY <1>6, <2>2, <2>3, <2>4, <2>5 DEF Decode
<1>7. CASE UNCHANGED vars
  <2>1. UNCHANGED <<in, ppc, dpc, cur, left, decoded, dbatch, dlen, sym, batch, bytes_left, cpc,
                    cbatch, clen, taken, kpc, written, status, batch_len, error>>
    BY <1>7 DEF vars, input, prefetchVars, decodeVars, copyVars, resultVars
  <2>2. /\ Usable' <=> Usable
        /\ Usable' = Usable
        /\ Stream!Decodable' <=> Stream!Decodable
        /\ Stream!Valid(m)' <=> Stream!Valid(m)
    BY <2>1, InputKept
  <2>3. Verdict'
    BY <1>2, <2>1, <2>2 DEF Verdict
  <2>4. Queue(m, c, d)'
    BY <1>1, <2>1, QueueKept DEF Account, Queue
  <2>5. Decoding(m, d)'
    BY <1>1, <2>1, <2>2 DEF Account, Decoding
  <2>6. Copying(m, c, d)'
    BY <1>1, <2>1 DEF Account, Copying, Copied
  <2>7. UNCHANGED StreamVars
    BY <2>1, <2>2, Zenon DEF StreamVars
  <2>. QED BY <2>3, <2>4, <2>5, <2>6, <2>7 DEF Account, SInv
<1>. QED BY <1>3, <1>4, <1>5, <1>6, <1>7 DEF Next, Spin

\* Whatever the stream is, valid or not, and however the three warps interleave:
\* the copier takes the symbols of the stream in order and once each, and the
\* kernel reports success exactly when the copier has all those of the output.
\* What the copier's lanes make of the symbols is not a part of this.
THEOREM KernelHandsOver == Spec => Implements
<1>1. Init => SInv /\ RInv /\ Stream!Start
  BY SInvInit, RInvInit
<1>2. SInv /\ RInv /\ [Next]_vars => SInv' /\ RInv'
  BY StepImplements, RInvNext
<1>3. SInv /\ RInv /\ [Next]_vars
        => [Stream!Take \/ Stream!Succeed \/ Stream!Fail]_<<Usable, in.stream, in.usize, taken,
                                                             written, status>>
  BY StepImplements DEF StreamNext, StreamVars
<1>. QED BY <1>1, <1>2, <1>3, PTL DEF Spec, Safety, Implements, Stream!StreamSpec, Stream!absVars
=============================================================================
