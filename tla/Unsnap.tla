------------------------------- MODULE Unsnap -------------------------------
(***************************************************************************)
(* The Snappy decompression kernel, cpp/src/io/comp/unsnap.cu: one block   *)
(* of three working warps that communicate through a queue in shared       *)
(* memory, without locks.  The prefetcher copies the compressed bytes into *)
(* a ring, the decoder reads them there and makes batches of symbols, and  *)
(* the copier takes the batches from the queue into its registers.  How    *)
(* its lanes combine the symbols there and write the output is in          *)
(* SnappyCopy.                                                             *)
(*                                                                         *)
(* A byte of the compressed stream is its position, so a slot of the ring  *)
(* holds a position.  A symbol is what the decoder makes of a few bytes:   *)
(* size   the bytes it has in the stream, a long literal's text excluded   *)
(* read   the ones of them the decoder looks at                            *)
(* text   the bytes of a long literal that follow, 0 for other symbols     *)
(* len    the bytes it adds to the output                                  *)
(* dist   how far back a copy reads, 0 for a literal                       *)
(* Each busy-wait loop is a guard; a store to the queue is one action with *)
(* the reads of the warp's own registers around it.                        *)
(***************************************************************************)
EXTENDS Integers, Sequences

CONSTANTS PrefetchSize,  \* bytes of the ring
          Chunk,         \* bytes the prefetcher copies at a time (32)
          BatchSize,     \* symbols of a batch
          BatchCount,    \* batches of the queue
          SymbolBytes,   \* the most bytes of a symbol (5)
          Symbols,       \* the symbols that occur
          Inputs         \* streams with their uncompressed and output sizes

(* The look-ahead the decoder waits for.                                   *)
Window == SymbolBytes * BatchSize

ASSUME SizesAssumption ==
  /\ PrefetchSize \in Nat /\ Chunk \in Nat \ {0}
  /\ BatchSize \in Nat \ {0} /\ BatchCount \in Nat \ {0}
  /\ SymbolBytes \in Nat \ {0}
  /\ SymbolBytes * BatchSize + Chunk <= PrefetchSize

ASSUME SymbolsAssumption ==
  /\ Symbols \subseteq [size : Nat, read : Nat, text : Nat, len : Nat, dist : Nat]
  /\ \A x \in Symbols : x.read <= x.size /\ x.size <= SymbolBytes /\ x.len > 0

InputType == [stream : Seq(Symbols), end : Nat, usize : Nat, dst : Nat,
              header : {"ok", "empty", "overlong"}]

ASSUME InputsAssumption == Inputs \subseteq InputType

VARIABLES
  in,          \* the input of the block
  align,       \* bytes from the start of the stream to a 32-byte boundary
  \* unsnap_queue_s and the rest of unsnap_state_s, in shared memory
  prefetch_wrpos, prefetch_rdpos, prefetch_end, batch_len, batch, buf,
  bytes_left, error,
  \* the program counter of the kernel and of each warp, and their registers
  kpc, ppc, dpc, cpc,
  pos,         \* prefetcher: bytes copied
  cur,         \* decoder: position in the stream
  left,        \* decoder: output bytes still missing
  decoded,     \* decoder: symbols decoded, for the symbol that comes next
  dbatch, dlen, \* decoder: the batch being made and its length
  sym,         \* decoder: the long literal it waits with
  cbatch, clen, \* copier: its batch and its length
  taken,       \* copier: history: the symbols it has read into its registers
  written, status  \* results[strm_id]

input == <<in, align>>
prefetchVars == <<ppc, pos, buf, prefetch_wrpos>>
decodeVars == <<dpc, cur, left, decoded, dbatch, dlen, sym,
                prefetch_rdpos, prefetch_end, batch, bytes_left>>
copyVars == <<cpc, cbatch, clen, taken>>
resultVars == <<kpc, written, status>>
vars == <<input, prefetchVars, decodeVars, copyVars, resultVars, batch_len, error>>

NoSymbol == [size |-> 0, read |-> 0, text |-> 0, len |-> 0, dist |-> 0]

-----------------------------------------------------------------------------
(* The kernel.                                                             *)

(* Thread 0 reads the header of the stream; the block goes on only when it *)
(* is usable.                                                              *)
Init == /\ in \in Inputs
        /\ align \in 1 .. Chunk
        /\ prefetch_wrpos = 0 /\ prefetch_rdpos = 0 /\ prefetch_end = FALSE
        /\ batch_len = [i \in 0 .. BatchCount - 1 |-> 0]
        /\ batch = [i \in 0 .. BatchCount - 1 |-> [j \in 1 .. BatchSize |-> NoSymbol]]
        /\ buf = [i \in 0 .. PrefetchSize - 1 |-> -1]
        /\ bytes_left = in.usize
        /\ error = IF \/ in.header # "ok"
                      \/ in.end = 0 /\ in.usize # 0
                      \/ in.usize > in.dst
                   THEN -1 ELSE 0
        /\ kpc = "barrier"
        /\ ppc = "enter" /\ pos = 0
        /\ dpc = "start" /\ cur = 0 /\ left = in.usize /\ decoded = 0
        /\ dbatch = 0 /\ dlen = 0 /\ sym = NoSymbol
        /\ cpc = "enter" /\ cbatch = 0 /\ clen = 0
        /\ taken = <<>> /\ written = 0 /\ status = "running"

(* __syncthreads(), then the result when the three warps have ended or     *)
(* have not begun.  An empty input leaves the sizes that are subtracted    *)
(* uninitialized.                                                          *)
Result == /\ kpc = "barrier"
          /\ ppc = "done" /\ dpc = "done" /\ cpc = "done"
          /\ kpc' = "done"
          /\ IF in.header = "empty" THEN written' \in 0 .. in.usize
             ELSE written' = in.usize - bytes_left
          /\ status' = IF error = 0 THEN "SUCCESS" ELSE "FAILURE"
          /\ UNCHANGED <<input, prefetchVars, decodeVars, copyVars, batch_len, error>>

-----------------------------------------------------------------------------
(* WARP1: snappy_prefetch_bytestream.                                      *)

Least(a, b) == IF a <= b THEN a ELSE b

(* byte_access: the ring after bytes first .. first + n - 1 are stored.    *)
Stored(first, n) ==
  [i \in 0 .. PrefetchSize - 1 |->
     IF \E p \in first .. first + n - 1 : p % PrefetchSize = i
     THEN CHOOSE p \in first .. first + n - 1 : p % PrefetchSize = i
     ELSE buf[i]]

(* A warp reads s->error after the barrier and goes to work only when no   *)
(* error is set, one the decoder has set meanwhile included.               *)
PrefetchSkip ==
  /\ ppc = "enter" /\ error # 0
  /\ ppc' = "done"
  /\ UNCHANGED <<input, decodeVars, copyVars, resultVars, pos, buf, prefetch_wrpos,
                 batch_len, error>>

(* The bytes up to the next 32-byte boundary.                              *)
PrefetchFirst ==
  /\ ppc = "enter" /\ error = 0
  /\ pos' = Least(align, in.end)
  /\ buf' = Stored(0, pos')
  /\ ppc' = "publish"
  /\ UNCHANGED <<input, decodeVars, copyVars, resultVars, prefetch_wrpos, batch_len, error>>

(* Lane 0 publishes the position.                                          *)
PrefetchPublish ==
  /\ ppc = "publish"
  /\ prefetch_wrpos' = pos
  /\ ppc' = "wait"
  /\ UNCHANGED <<input, decodeVars, copyVars, resultVars, pos, buf, batch_len, error>>

(* Mutant: room for a chunk is not kept.                                   *)
PrefetchRoomTight ==
  /\ ppc = "wait"
  /\ prefetch_rdpos >= pos - Least(pos, PrefetchSize)
  /\ ppc' = "copy"
  /\ UNCHANGED <<input, decodeVars, copyVars, resultVars, pos, buf, prefetch_wrpos,
                 batch_len, error>>

(* ... and waits until the next chunk overwrites nothing the decoder may   *)
(* still read,                                                             *)
PrefetchRoom ==
  /\ ppc = "wait"
  /\ prefetch_rdpos >= pos - Least(pos, PrefetchSize - Chunk)
  /\ ppc' = "copy"
  /\ UNCHANGED <<input, decodeVars, copyVars, resultVars, pos, buf, prefetch_wrpos,
                 batch_len, error>>

(* or until the decoder has ended.                                         *)
PrefetchStop ==
  /\ ppc = "wait"
  /\ prefetch_rdpos < pos - Least(pos, PrefetchSize - Chunk)
  /\ prefetch_end
  /\ ppc' = "done"
  /\ UNCHANGED <<input, decodeVars, copyVars, resultVars, pos, buf, prefetch_wrpos,
                 batch_len, error>>

(* All lanes copy the next chunk; an empty one is the end.                 *)
PrefetchCopy ==
  LET blen == Least(Chunk, in.end - pos) IN
  /\ ppc = "copy"
  /\ buf' = Stored(pos, blen)
  /\ pos' = pos + blen
  /\ ppc' = IF blen > 0 THEN "publish" ELSE "done"
  /\ UNCHANGED <<input, decodeVars, copyVars, resultVars, prefetch_wrpos, batch_len, error>>

-----------------------------------------------------------------------------
(* WARP0: snappy_decode_symbols.                                           *)

Fetched == prefetch_wrpos >= Least(cur + Window, in.end)

(* The bytes p .. p + n - 1 of the stream are where the decoder looks.     *)
Intact(p, n) == \A k \in p .. p + n - 1 : k < in.end => buf[k % PrefetchSize] = k

(* What the bytes at cur are read as: the stream's next symbol if they are *)
(* in the ring; past the end of the stream, or where other bytes lie, any  *)
(* symbol.                                                                 *)
Readable == {x \in Symbols :
               (/\ decoded < Len(in.stream)
                /\ Intact(cur, in.stream[decoded + 1].read))
               => x = in.stream[decoded + 1]}

DecodeSkip ==
  /\ dpc = "start" /\ error # 0
  /\ dpc' = "done"
  /\ UNCHANGED <<input, prefetchVars, copyVars, resultVars, cur, left, decoded, dbatch,
                 dlen, sym, prefetch_rdpos, prefetch_end, batch, bytes_left, batch_len,
                 error>>

(* The top of the loop: the read position is published and the decoder     *)
(* waits for the look-ahead of a whole batch.                              *)
DecodeStart ==
  /\ dpc = "start" /\ error = 0
  /\ prefetch_rdpos' = cur
  /\ dpc' = "wait"
  /\ UNCHANGED <<input, prefetchVars, copyVars, resultVars, cur, left, decoded, dbatch,
                 dlen, sym, prefetch_end, batch, bytes_left, batch_len, error>>

DecodeFetched ==
  /\ dpc = "wait" /\ Fetched
  /\ dlen' = 0
  /\ dpc' = "symbol"
  /\ UNCHANGED <<input, prefetchVars, copyVars, resultVars, cur, left, decoded, dbatch,
                 sym, prefetch_rdpos, prefetch_end, batch, bytes_left, batch_len, error>>

(* A symbol joins the batch, or ends it when the output has no room for it *)
(* or when a copy starts before the output.  dst_pos counts the symbol's   *)
(* own bytes already when the distance is compared.                        *)
Accepts(x) == /\ x.len <= left
              /\ x.dist <= (in.usize - left) + x.len

Push(x) ==
  IF Accepts(x)
  THEN /\ batch' = [batch EXCEPT ![dbatch][dlen + 1] = x]
       /\ dlen' = dlen + 1
       /\ left' = left - x.len
       /\ decoded' = decoded + 1
       /\ dpc' = "symbol"
  ELSE /\ dpc' = "publish"
       /\ UNCHANGED <<batch, dlen, left, decoded>>

More == left > 0 /\ dlen < BatchSize

(* Copies and short literals, decoded by all lanes at once or by lane 0.   *)
DecodeShort ==
  /\ dpc = "symbol" /\ More
  /\ \E x \in Readable : /\ x.text = 0
                         /\ cur' = cur + x.size
                         /\ Push(x)
  /\ UNCHANGED <<input, prefetchVars, copyVars, resultVars, dbatch, sym, prefetch_rdpos,
                 prefetch_end, bytes_left, batch_len, error>>

(* Mutant: the position after the literal is not published.                *)
DecodeLongSilent ==
  /\ dpc = "symbol" /\ More
  /\ \E x \in Readable : /\ x.text > 0
                         /\ cur' = cur + x.size + x.text
                         /\ sym' = x
  /\ dpc' = "long"
  /\ UNCHANGED <<input, prefetchVars, copyVars, resultVars, left, decoded, dbatch, dlen,
                 prefetch_rdpos, prefetch_end, batch, bytes_left, batch_len, error>>

(* A long literal: its text is skipped, the new position is published      *)
(* first, and the decoder waits for the look-ahead again.                  *)
DecodeLong ==
  /\ dpc = "symbol" /\ More
  /\ \E x \in Readable : /\ x.text > 0
                         /\ cur' = cur + x.size + x.text
                         /\ sym' = x
  /\ prefetch_rdpos' = cur'
  /\ dpc' = "long"
  /\ UNCHANGED <<input, prefetchVars, copyVars, resultVars, left, decoded, dbatch, dlen,
                 prefetch_end, batch, bytes_left, batch_len, error>>

DecodeLongFetched ==
  /\ dpc = "long" /\ Fetched
  /\ Push(sym)
  /\ UNCHANGED <<input, prefetchVars, copyVars, resultVars, cur, dbatch, sym,
                 prefetch_rdpos, prefetch_end, bytes_left, batch_len, error>>

DecodeFull ==
  /\ dpc = "symbol" /\ ~More
  /\ dpc' = "publish"
  /\ UNCHANGED <<input, prefetchVars, copyVars, resultVars, cur, left, decoded, dbatch,
                 dlen, sym, prefetch_rdpos, prefetch_end, batch, bytes_left, batch_len,
                 error>>

(* Mutant: the batches are not a ring.                                     *)
DecodePublishUnwrapped ==
  /\ dpc = "publish"
  /\ IF dlen # 0
     THEN /\ batch_len' = [batch_len EXCEPT ![dbatch] = dlen]
          /\ dbatch' = dbatch + 1
     ELSE UNCHANGED <<batch_len, dbatch>>
  /\ dpc' = "slot"
  /\ UNCHANGED <<input, prefetchVars, copyVars, resultVars, cur, left, decoded, dlen, sym,
                 prefetch_rdpos, prefetch_end, batch, bytes_left, error>>

(* A batch that is not empty is handed over.                               *)
DecodePublish ==
  /\ dpc = "publish"
  /\ IF dlen # 0
     THEN /\ batch_len' = [batch_len EXCEPT ![dbatch] = dlen]
          /\ dbatch' = (dbatch + 1) % BatchCount
     ELSE UNCHANGED <<batch_len, dbatch>>
  /\ dpc' = "slot"
  /\ UNCHANGED <<input, prefetchVars, copyVars, resultVars, cur, left, decoded, dlen, sym,
                 prefetch_rdpos, prefetch_end, batch, bytes_left, error>>

(* Mutant: the decoder goes on without looking.                            *)
DecodeSlotUnchecked ==
  /\ dpc = "slot"
  /\ dpc' = IF dlen # BatchSize THEN "end" ELSE "start"
  /\ UNCHANGED <<input, prefetchVars, copyVars, resultVars, cur, left, decoded, dbatch,
                 dlen, sym, prefetch_rdpos, prefetch_end, batch, bytes_left, batch_len,
                 error>>

(* The next batch must have been emptied; one that was not full was the    *)
(* last.                                                                   *)
DecodeSlot ==
  /\ dpc = "slot" /\ batch_len[dbatch] = 0
  /\ dpc' = IF dlen # BatchSize THEN "end" ELSE "start"
  /\ UNCHANGED <<input, prefetchVars, copyVars, resultVars, cur, left, decoded, dbatch,
                 dlen, sym, prefetch_rdpos, prefetch_end, batch, bytes_left, batch_len,
                 error>>

(* The prefetcher is stopped and the copier is sent the end marker.        *)
DecodeEnd ==
  /\ dpc = "end"
  /\ prefetch_end' = TRUE
  /\ batch_len' = [batch_len EXCEPT ![dbatch] = -1]
  /\ bytes_left' = left
  /\ error' = IF left # 0 THEN -2 ELSE error
  /\ dpc' = "done"
  /\ UNCHANGED <<input, prefetchVars, copyVars, resultVars, cur, left, decoded, dbatch,
                 dlen, sym, prefetch_rdpos, batch>>

-----------------------------------------------------------------------------
(* WARP2: snappy_process_symbols.                                          *)

CopyEnter ==
  /\ cpc = "enter"
  /\ cpc' = IF error = 0 THEN "wait" ELSE "done"
  /\ UNCHANGED <<input, prefetchVars, decodeVars, resultVars, cbatch, clen, taken,
                 batch_len, error>>

(* Lane 0 waits for a batch; the end marker ends the loop.                 *)
CopyTake ==
  /\ cpc = "wait" /\ batch_len[cbatch] # 0
  /\ clen' = batch_len[cbatch]
  /\ cpc' = IF batch_len[cbatch] <= 0 THEN "done" ELSE "copy"
  /\ UNCHANGED <<input, prefetchVars, decodeVars, resultVars, cbatch, taken, batch_len, error>>

(* Each lane reads its symbol of the batch into registers.                 *)
CopyBatch ==
  /\ cpc = "copy"
  /\ taken' = taken \o SubSeq(batch[cbatch], 1, clen)
  /\ cpc' = "release"
  /\ UNCHANGED <<input, prefetchVars, decodeVars, resultVars, cbatch, clen, batch_len, error>>

(* The batch is given back.                                                *)
CopyRelease ==
  /\ cpc = "release"
  /\ batch_len' = [batch_len EXCEPT ![cbatch] = 0]
  /\ cbatch' = (cbatch + 1) % BatchCount
  /\ cpc' = "wait"
  /\ UNCHANGED <<input, prefetchVars, decodeVars, resultVars, clen, taken, error>>

-----------------------------------------------------------------------------
Prefetch == \/ PrefetchSkip \/ PrefetchFirst \/ PrefetchPublish \/ PrefetchRoom
            \/ PrefetchStop \/ PrefetchCopy
Decode == \/ DecodeSkip \/ DecodeStart \/ DecodeFetched \/ DecodeShort \/ DecodeLong
          \/ DecodeLongFetched \/ DecodeFull \/ DecodePublish \/ DecodeSlot \/ DecodeEnd
Copy == CopyEnter \/ CopyTake \/ CopyBatch \/ CopyRelease

(* busy_wait: a warp that waits changes nothing.                           *)
Spin == UNCHANGED vars

Next == Result \/ Prefetch \/ Decode \/ Copy \/ Spin

-----------------------------------------------------------------------------
(* Properties.                                                             *)

TypeOK ==
  /\ in \in InputType /\ align \in 1 .. Chunk
  /\ prefetch_wrpos \in Nat /\ prefetch_rdpos \in Nat /\ prefetch_end \in BOOLEAN
  /\ batch_len \in [0 .. BatchCount - 1 -> -1 .. BatchSize]
  /\ batch \in [0 .. BatchCount - 1 -> [1 .. BatchSize -> Symbols \cup {NoSymbol}]]
  /\ buf \in [0 .. PrefetchSize - 1 -> Nat \cup {-1}]
  /\ bytes_left \in Nat /\ error \in {-2, -1, 0}
  /\ kpc \in {"barrier", "done"}
  /\ ppc \in {"enter", "publish", "wait", "copy", "done"}
  /\ dpc \in {"start", "wait", "symbol", "long", "publish", "slot", "end", "done"}
  /\ cpc \in {"enter", "wait", "copy", "release", "done"}
  /\ pos \in Nat /\ cur \in Nat /\ left \in Nat /\ decoded \in Nat
  /\ dbatch \in 0 .. BatchCount - 1 /\ dlen \in 0 .. BatchSize
  /\ sym \in Symbols \cup {NoSymbol}
  /\ cbatch \in 0 .. BatchCount - 1 /\ clen \in -1 .. BatchSize
  /\ taken \in Seq(Symbols \cup {NoSymbol})
  /\ written \in Nat /\ status \in {"running", "SUCCESS", "FAILURE"}

(* While the decoder decodes, every byte of the symbol it looks at next is *)
(* in the ring: the prefetcher has brought it and has not yet overwritten  *)
(* it.                                                                     *)
RingIntact == dpc = "symbol" /\ More => Intact(cur, SymbolBytes)

Safety == Init /\ [][Next]_vars

(* The hardware schedules every warp of a resident block, a spinning one   *)
(* does not keep the others from running.                                  *)
Spec == /\ Safety
        /\ WF_vars(Prefetch) /\ WF_vars(Decode) /\ WF_vars(Copy) /\ WF_vars(Result)

(* The header can be used and the output buffer is large enough.           *)
Usable == /\ in.header = "ok"
          /\ in.end = 0 => in.usize = 0
          /\ in.usize <= in.dst

Stream == INSTANCE SnappyStream
            WITH usable <- Usable, stream <- in.stream, usize <- in.usize

(* The hand-over between the three warps: the copier takes the symbols of  *)
(* the stream in order, each exactly once, and success is reported exactly *)
(* when it has all those of the output.                                    *)
Implements == Stream!StreamSpec

(* The three warps, which wait for each other in a circle (prefetcher for  *)
(* decoder, decoder for prefetcher and copier, copier for decoder), all    *)
(* end, and the kernel reports a result.                                   *)
Terminates == <>(kpc = "done")
=============================================================================
