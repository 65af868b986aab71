--------------------------- MODULE MultibyteSplit ---------------------------
(***************************************************************************)
(* Splitting text at a delimiter, cpp/src/io/text/multibyte_split.cu: the  *)
(* rows that begin in a byte range of the input, found by a scan over      *)
(* chunks of tiles of threads, each of which sees only its own characters. *)
(* A thread does not know how much of the delimiter its predecessors have  *)
(* matched, so it computes a multistate, the set of (head, tail] segments  *)
(* "from head characters matched to tail characters matched"; multistates  *)
(* are joined by a prefix sum.  How concurrent blocks make the sum is in   *)
(* SplitPipeline; here a launch of the kernel is one step.                 *)
(*                                                                         *)
(* Offsets are byte offsets in the input, from 0.  The output holds copied *)
(* characters; a copied character is its offset in the input.              *)
(***************************************************************************)
EXTENDS Integers, Sequences, FiniteSets

CONSTANTS Alphabet,          \* characters
          ITEMS_PER_THREAD, THREADS_PER_TILE, TILES_PER_CHUNK,
          max_segment_count, \* segments a multistate has room for (7)
          max_segment_value, \* the largest head or tail of a segment (15)
          max_growth,        \* growth of an output_builder's buffers (8)
          Cases              \* inputs, delimiters, byte ranges

ASSUME SplitAssumption ==
  /\ ITEMS_PER_THREAD \in Nat \ {0} /\ THREADS_PER_TILE \in Nat \ {0}
  /\ TILES_PER_CHUNK \in Nat \ {0} /\ max_segment_count \in Nat \ {0}
  /\ max_segment_value \in Nat \ {0} /\ max_growth \in Nat \ {0, 1}

(* A delimiter has a character, and a byte_range_info is not negative.     *)
ASSUME CasesAssumption ==
  \A case \in Cases : /\ case.text \in Seq(Alphabet)
                      /\ case.delim \in Seq(Alphabet) \ {<<>>}
                      /\ case.offset \in Nat /\ case.size \in Nat

ITEMS_PER_TILE == ITEMS_PER_THREAD * THREADS_PER_TILE
ITEMS_PER_CHUNK == ITEMS_PER_TILE * TILES_PER_CHUNK

None == -1

VARIABLES text, delim, offset, size,  \* the arguments
          pc,
          position,       \* reader: bytes read or skipped
          chunk,          \* the chunk to scan
          chunk_offset,
          carry,          \* the multistate after the last tile scanned
          first_row_offset, last_row_offset,
          row_offset_storage, char_storage,
          segments,       \* the most segments a multistate has needed
          result          \* the rows, with and without delimiters

vars == <<text, delim, offset, size, pc, position, chunk, chunk_offset, carry,
          first_row_offset, last_row_offset, row_offset_storage, char_storage,
          segments, result>>

Smaller(a, b) == IF a <= b THEN a ELSE b
Larger(a, b) == IF a >= b THEN a ELSE b

-----------------------------------------------------------------------------
(* Multistates.                                                            *)

(* transition_init: one character, whatever was matched before it.         *)
TransitionInit(c) ==
  {<<0, 0>>} \cup {<<i, i + 1>> : i \in {j \in 0 .. Len(delim) - 1 : delim[j + 1] = c}}

(* transition: one more character.                                         *)
Transition(c, state) ==
  {<<0, 0>>} \cup
  {<<s[1], s[2] + 1>> : s \in {r \in state : r[2] < Len(delim) /\ delim[r[2] + 1] = c}}

(* operator+: the segments of both that meet.                              *)
Joined(lhs, rhs) ==
  {<<p[1][1], p[2][2]>> : p \in {q \in lhs \X rhs : q[1][2] = q[2][1]}}

MaxTail(state) == CHOOSE n \in {s[2] : s \in state} : \A s \in state : s[2] <= n

(* The multistate of some characters that no thread has looked before.     *)
StateOf(chars) ==
  LET state[i \in 1 .. Len(chars)] ==
        IF i = 1 THEN TransitionInit(chars[1]) ELSE Transition(chars[i], state[i - 1])
  IN state[Len(chars)]

(* The n-th part of s, in parts of k elements, from 0.                     *)
Part(s, n, k) == SubSeq(s, n * k + 1, (n + 1) * k)

(* PatternScan: the multistate before each thread of a tile, and the       *)
(* tile's aggregate as the last element.                                   *)
BlockScan(tile) ==
  LET thread(t) == StateOf(Part(tile, t, ITEMS_PER_THREAD))
      sum[t \in 1 .. THREADS_PER_TILE] ==
        IF t = 1 THEN thread(0) ELSE Joined(sum[t - 1], thread(t - 1))
  IN sum

(* The multistate before each tile of a launch: the prefix of the          *)
(* predecessor joined with its aggregate.                                  *)
TilePrefix(chars, tiles) ==
  LET prefix[k \in 0 .. tiles] ==
        IF k = 0 THEN carry
        ELSE Joined(prefix[k - 1],
                    BlockScan(Part(chars, k - 1, ITEMS_PER_TILE))[THREADS_PER_TILE])
  IN prefix

(* What a thread starts from: the tile's prefix, joined with the states of *)
(* the threads before it.                                                  *)
ThreadPrefix(prefix, tile, t) ==
  IF t = 0 THEN prefix ELSE Joined(prefix, BlockScan(tile)[t])

(* multibyte_split_kernel: the offsets in the chunk at which a delimiter   *)
(* ends.  The items past the end of the chunk are not loaded: they hold    *)
(* any characters, and are never a match.                                  *)
KernelMatches(chars, length) ==
  LET tiles == Len(chars) \div ITEMS_PER_TILE
      prefix == TilePrefix(chars, tiles)
      tile(k) == Part(chars, k, ITEMS_PER_TILE)
      matches(k, t) ==
        LET mine == Part(tile(k), t, ITEMS_PER_THREAD)
            state[i \in 0 .. ITEMS_PER_THREAD] ==
              IF i = 0 THEN ThreadPrefix(prefix[k], tile(k), t)
              ELSE Transition(mine[i], state[i - 1])
            base == k * ITEMS_PER_TILE + t * ITEMS_PER_THREAD
        IN {base + i : i \in {j \in 1 .. ITEMS_PER_THREAD :
                                base + j <= length /\ MaxTail(state[j]) = Len(delim)}}
  IN UNION {matches(k, t) : k \in 0 .. tiles - 1, t \in 0 .. THREADS_PER_TILE - 1}

(* byte_split_kernel: a delimiter of one character needs no state.         *)
ByteMatches(chars, length) == {i \in 1 .. length : chars[i] = delim[1]}

(* The most segments any of the multistates of a launch has.               *)
SegmentsUsed(chars) ==
  LET tiles == Len(chars) \div ITEMS_PER_TILE
      prefix == TilePrefix(chars, tiles)
      sums == UNION {{BlockScan(Part(chars, k, ITEMS_PER_TILE))[t] :
                        t \in 1 .. THREADS_PER_TILE} : k \in 0 .. tiles - 1}
  IN {Cardinality(s) : s \in sums \cup {prefix[k] : k \in 0 .. tiles}}

(* A set of numbers in ascending order: the offset scan gives every match  *)
(* its place.                                                              *)
Ascending(S) ==
  [i \in 1 .. Cardinality(S) |->
     CHOOSE n \in S : Cardinality({m \in S : m < n}) = i - 1]

-----------------------------------------------------------------------------
(* output_builder: buffers that are never moved; what is written next goes *)
(* to the free end of the last buffer in use and on into a new one.        *)

NewBuilder == <<[capacity |-> 2 * ITEMS_PER_CHUNK, data |-> <<>>]>>

Free(buffer) == buffer.capacity - Len(buffer.data)

(* The buffer a write begins in.                                           *)
HeadOf(b) == IF Len(b) > 1 /\ b[Len(b)].data = <<>> THEN Len(b) - 1 ELSE Len(b)

NextOutput(b) ==
  IF Free(b[HeadOf(b)]) >= ITEMS_PER_CHUNK \/ HeadOf(b) # Len(b) THEN b
  ELSE Append(b, [capacity |-> Smaller(max_growth * ITEMS_PER_CHUNK, 2 * b[Len(b)].capacity),
                  data |-> <<>>])

Filled(b, i, values) == [b EXCEPT ![i].data = @ \o values]

(* Mutant: the new buffer is used before the old one is full.              *)
AdvanceOutputGap(b, values) == Filled(b, Len(b), values)

AdvanceOutput(b, values) ==
  IF Len(b) < 2 THEN Filled(b, 1, values)
  ELSE LET n == Smaller(Len(values), Free(b[Len(b) - 1]))
       IN Filled(Filled(b, Len(b) - 1, SubSeq(values, 1, n)),
                 Len(b), SubSeq(values, n + 1, Len(values)))

Written(b, values) == AdvanceOutput(NextOutput(b), values)

Gather(b) ==
  LET upTo[i \in 0 .. Len(b)] == IF i = 0 THEN <<>> ELSE upTo[i - 1] \o b[i].data
  IN upTo[Len(b)]

(* front_element and back_element.                                         *)
Front(b) == b[1].data[1]
Back(b) == LET last == b[HeadOf(b)].data IN last[Len(last)]

-----------------------------------------------------------------------------
(* data_chunk_reader: the next chunk is what is left, at most a full one.  *)
NextChunk(from) == SubSeq(text, from + 1, Smaller(from + ITEMS_PER_CHUNK, Len(text)))

(* The number of times the most frequent character of the delimiter        *)
(* occurs.                                                                 *)
MaxDuplicateTokens ==
  LET count(c) == Cardinality({i \in DOMAIN delim : delim[i] = c})
  IN CHOOSE n \in {count(c) : c \in Alphabet} : \A c \in Alphabet : count(c) <= n

Init == /\ \E case \in Cases : /\ text = case.text /\ delim = case.delim
                               /\ offset = case.offset /\ size = case.size
        /\ pc = "start" /\ position = 0 /\ chunk = <<>> /\ chunk_offset = 0
        /\ carry = {<<0, 0>>}
        /\ first_row_offset = None /\ last_row_offset = None
        /\ row_offset_storage = NewBuilder /\ char_storage = NewBuilder
        /\ segments = 0 /\ result = [kept |-> <<>>, stripped |-> <<>>]

(* An empty range has no rows.                                             *)
EmptyRange ==
  /\ pc = "start" /\ size = 0
  /\ pc' = "done"
  /\ UNCHANGED <<text, delim, offset, size, position, chunk, chunk_offset, carry,
                 first_row_offset, last_row_offset, row_offset_storage, char_storage,
                 segments, result>>

(* Mutant: one duplicate more is let through.                              *)
RefusedLate == \/ MaxDuplicateTokens > max_segment_count
               \/ Len(delim) >= max_segment_value

(* CUDF_EXPECTS: a delimiter whose multistates would not fit is refused.   *)
Refused == \/ MaxDuplicateTokens >= max_segment_count
           \/ Len(delim) >= max_segment_value

Refuse ==
  /\ pc = "start" /\ size > 0 /\ Refused
  /\ pc' = "thrown"
  /\ UNCHANGED <<text, delim, offset, size, position, chunk, chunk_offset, carry,
                 first_row_offset, last_row_offset, row_offset_storage, char_storage,
                 segments, result>>

(* Mutant: the scan begins at the range and misses a delimiter that ends   *)
(* there.                                                                  *)
BeginLate ==
  /\ pc = "start" /\ size > 0 /\ ~Refused
  /\ chunk_offset' = offset
  /\ first_row_offset' = IF offset = 0 THEN 0 ELSE None
  /\ LET skipped == Smaller(chunk_offset', Len(text)) IN
     /\ chunk' = NextChunk(skipped)
     /\ position' = skipped + Len(chunk')
  /\ pc' = "loop"
  /\ UNCHANGED <<text, delim, offset, size, carry, last_row_offset, row_offset_storage,
                 char_storage, segments, result>>

(* The scan begins a delimiter before the range, and the first chunk is    *)
(* read.                                                                   *)
Begin ==
  /\ pc = "start" /\ size > 0 /\ ~Refused
  /\ chunk_offset' = Larger(0, offset - Len(delim))
  /\ first_row_offset' = IF offset = 0 THEN 0 ELSE None
  /\ LET skipped == Smaller(chunk_offset', Len(text)) IN
     /\ chunk' = NextChunk(skipped)
     /\ position' = skipped + Len(chunk')
  /\ pc' = "loop"
  /\ UNCHANGED <<text, delim, offset, size, carry, last_row_offset, row_offset_storage,
                 char_storage, segments, result>>

byte_range_end == offset + size

(* The loop goes on while there is a chunk, unless the last delimiter was  *)
(* found, or none inside the range.                                        *)
Continues == /\ chunk # <<>>
             /\ last_row_offset = None
             /\ first_row_offset = None => chunk_offset < byte_range_end

(* Of the matches of the chunk that reaches the end of the range, the ones *)
(* up to the first at or after the end.                                    *)
Clamped(found) ==
  IF chunk_offset + Len(chunk) < byte_range_end THEN found
  ELSE {m \in found : \A k \in found : k < m => k < byte_range_end}

(* One iteration: the kernel, the next read, the new offsets and the       *)
(* characters between the first and the last of them.                      *)
ScanChunk ==
  /\ pc = "loop" /\ Continues
  /\ \E pad \in [1 .. (0 - Len(chunk)) % ITEMS_PER_TILE -> Alphabet] :
       LET chars == chunk \o pad
           tiles == Len(chars) \div ITEMS_PER_TILE
           ends == IF Len(delim) = 1 THEN ByteMatches(chars, Len(chunk))
                   ELSE KernelMatches(chars, Len(chunk))
           found == {chunk_offset + e : e \in ends}
           new == Clamped(found)
           rows == Written(row_offset_storage, Ascending(new))
           first == IF first_row_offset = None /\ new # {} THEN Front(rows)
                    ELSE first_row_offset
           last == IF \E m \in new : /\ m >= byte_range_end
                                     /\ chunk_offset + Len(chunk) >= byte_range_end
                   THEN Back(rows) ELSE None
           begin == Larger(0, first - chunk_offset)
           end == IF last = None THEN Len(chunk)
                  ELSE Smaller(last - chunk_offset, Len(chunk))
       IN /\ row_offset_storage' = rows
          /\ first_row_offset' = first
          /\ last_row_offset' = last
          /\ char_storage' =
               IF first = None THEN char_storage
               ELSE Written(char_storage, [i \in 1 .. end - begin |-> chunk_offset + begin + i - 1])
          /\ carry' = IF Len(delim) = 1 THEN carry ELSE TilePrefix(chars, tiles)[tiles]
          /\ segments' = IF Len(delim) = 1 THEN segments
                         ELSE CHOOSE n \in SegmentsUsed(chars) \cup {segments} :
                                \A k \in SegmentsUsed(chars) \cup {segments} : k <= n
  /\ chunk_offset' = chunk_offset + Len(chunk)
  /\ chunk' = NextChunk(position)
  /\ position' = position + Len(chunk')
  /\ UNCHANGED <<text, delim, offset, size, pc, result>>

-----------------------------------------------------------------------------
(* The strings column.                                                     *)

IsEmpty == \/ chunk_offset = 0 \/ first_row_offset = None
           \/ first_row_offset = last_row_offset

insert_begin == first_row_offset = 0

insert_end == LET offsets == Gather(row_offset_storage) IN
  ~(\/ last_row_offset # None
    \/ offsets # <<>> /\ offsets[Len(offsets)] = chunk_offset)

Offsets ==
  LET global == Gather(row_offset_storage)
  IN (IF insert_begin THEN <<0>> ELSE <<>>)
     \o [i \in DOMAIN global |-> global[i] - first_row_offset]
     \o (IF insert_end THEN <<chunk_offset - first_row_offset>> ELSE <<>>)

(* The rows: the characters between two offsets.                           *)
KeptRows ==
  LET chars == Gather(char_storage)
  IN [r \in 1 .. Len(Offsets) - 1 |-> SubSeq(chars, Offsets[r] + 1, Offsets[r + 1])]

(* Mutant: a last row that the input ended loses characters too.           *)
StrippedRowsAll ==
  [r \in DOMAIN KeptRows |-> SubSeq(KeptRows[r], 1, Len(KeptRows[r]) - Len(delim))]

(* With strip_delimiters, without the delimiter, which a last row that the *)
(* input ended lacks.                                                      *)
StrippedRows ==
  [r \in DOMAIN KeptRows |->
     IF r = Len(KeptRows) /\ insert_end THEN KeptRows[r]
     ELSE SubSeq(KeptRows[r], 1, Len(KeptRows[r]) - Len(delim))]

Finish ==
  /\ pc = "loop" /\ ~Continues
  /\ result' = IF IsEmpty THEN [kept |-> <<>>, stripped |-> <<>>]
               ELSE [kept |-> KeptRows, stripped |-> StrippedRows]
  /\ pc' = "done"
  /\ UNCHANGED <<text, delim, offset, size, position, chunk, chunk_offset, carry,
                 first_row_offset, last_row_offset, row_offset_storage, char_storage,
                 segments>>

Returned == pc \in {"done", "thrown"} /\ UNCHANGED vars

Next == EmptyRange \/ Refuse \/ Begin \/ ScanChunk \/ Finish \/ Returned

Spec == Init /\ [][Next]_vars

-----------------------------------------------------------------------------
(* The reference: where the delimiter ends in the whole text (matches may  *)
(* overlap), and the rows that begin in the range.                         *)

Ends == {e \in Len(delim) .. Len(text) : SubSeq(text, e - Len(delim) + 1, e) = delim}

RowStarts == {s \in {0} \cup Ends : s < Len(text) /\ offset <= s /\ s < byte_range_end}

(* The end of the row that begins at s.                                    *)
RowEnd(s) == IF \E e \in Ends : e > s
             THEN CHOOSE e \in Ends : e > s /\ \A f \in Ends : f > s => e <= f
             ELSE Len(text)

Span(a, b) == [i \in 1 .. Larger(0, b - a) |-> a + i - 1]

(* A byte range gives the rows of the whole text that begin in it, whole,  *)
(* in order and once, wherever chunks, tiles and threads cut the text, so  *)
(* that ranges that cover a file give its rows exactly once between them.  *)
RowsExact ==
  pc = "done" =>
    LET starts == Ascending(RowStarts) IN
    result.kept = [r \in DOMAIN starts |-> Span(starts[r], RowEnd(starts[r]))]

(* strip_delimiters takes the delimiter, and only it, from the rows that   *)
(* end with one.                                                           *)
DelimitersStripped ==
  pc = "done" =>
    LET starts == Ascending(RowStarts) IN
    result.stripped =
      [r \in DOMAIN starts |->
         LET end == RowEnd(starts[r])
         IN Span(starts[r], IF end \in Ends THEN end - Len(delim) ELSE end)]

(* No multistate needs more segments than it has room for, nor a value     *)
(* that a segment cannot hold: the refusal of delimiters with many equal   *)
(* characters, and of long ones, is strict enough.                         *)
SegmentsFit == /\ segments <= max_segment_count
               /\ \A s \in carry : s[2] <= max_segment_value

(* An output_builder never runs out of the room it promised for a chunk,   *)
(* and leaves no gap: only the last two buffers have free space.           *)
BuilderRoom ==
  \A b \in {row_offset_storage, char_storage} :
    /\ \A i \in DOMAIN b : Len(b[i].data) <= b[i].capacity
    /\ \A i \in 1 .. Len(b) - 2 : Free(b[i]) = 0
    /\ b[Len(b)].data # <<>> /\ Len(b) > 1 => Free(b[Len(b) - 1]) = 0
=============================================================================
