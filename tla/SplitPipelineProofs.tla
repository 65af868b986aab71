------------------------ MODULE SplitPipelineProofs -------------------------
(***************************************************************************)
(* Proofs about SplitPipeline, for any number of chunks and of tiles in a  *)
(* chunk, any length of the ring of tile states, any number of resident    *)
(* blocks and any device buffers.                                          *)
(*                                                                         *)
(* What waits on a stream is the rest of a sequence that the host's        *)
(* variables determine: the streams differ from one another only in how    *)
(* far they have come.  The events say how far the others have come, at    *)
(* least, when an operation begins.  From that follows whose data is in a  *)
(* buffer, and that the states of the tiles are reset, written and read in *)
(* an order that the looking back of the blocks can rely on.               *)
(***************************************************************************)
EXTENDS SplitPipeline, SequenceTheorems, FoldTheorems

----------------------------------------------------------------------------
(* The streams.                                                            *)

Operation == [op : {"record", "wait"}, event : Int]
             \cup [op : {"init"}, tiles : SUBSET Int, status : {"oob", "invalid"}]
             \cup [op : {"seed", "gather"}]
             \cup [op : {"upload"}, ticket : Int, buffer : Addresses]
             \cup [op : {"scan"}, tiles : SUBSET Int, buffer : Addresses, number : Int]
             \cup [op : {"chars"}, buffer : Addresses]

\* q is what is left of the sequence f.
Rest(q, f) ==
  /\ q \in Seq(Operation) /\ f \in Seq(Operation) /\ Len(q) <= Len(f)
  /\ \A j \in 1 .. Len(q) : q[j] = f[Len(f) - Len(q) + j]

Count == Len(offsets_read)
Scanning == hpc \in {"read", "sync"}
Joining == hpc \in {"gather", "done"}
Looping == hpc \in {"loop", "read", "sync", "gather", "done"}

Tiles == base_tile_idx .. base_tile_idx + TilesOf(Count) - 1

Reading(c, number) ==
  LET event == Record(ticket_event[number % num_tickets])
  IN IF c = NoChunk THEN <<event>> ELSE <<Upload(number % num_tickets, c.buffer), event>>

JoinEvent(s) == IF s = "s0" THEN records - 1 ELSE records
JoinRecord(s) == IF Joining THEN <<Record(JoinEvent(s))>> ELSE <<>>

\* All that was put on a stream, but for what is certainly behind it; prev is the
\* buffer of the chunk before the one in hand.
MainOps ==
  (IF hpc = "setup" THEN <<>> ELSE <<Oob((0 - TILES_PER_CHUNK) .. -1), Seed, Record(1)>>)
  \o (IF Joining THEN <<Wait(records - 1), Wait(records), GatherOp>> ELSE <<>>)

ScanOps ==
  (IF hpc = "setup" THEN <<>> ELSE <<Wait(1)>>)
  \o (IF Looping THEN Reading(chunk, Count) ELSE <<>>)
  \o (IF Scanning THEN <<Reset(Tiles), Wait(last_launch_event), Scan(Tiles, chunk)>>
      ELSE JoinRecord(scan_stream))

ReadOps(prev) ==
  (IF hpc = "setup" THEN <<>>
   ELSE IF Count = 0 THEN <<Wait(1)>>
   ELSE <<CopyChars([buffer |-> prev]), Record(last_launch_event)>>)
  \o (IF hpc = "sync" THEN Reading(next_chunk, Count + 1) ELSE JoinRecord(read_stream))

Queues(prev) ==
  /\ Rest(queue["main"], MainOps)
  /\ Rest(queue[scan_stream], ScanOps)
  /\ Rest(queue[read_stream], ReadOps(prev))

(* How far they have come.                                                 *)
Seeded == hpc # "setup" /\ Len(queue["main"]) + 2 <= Len(MainOps)
Uploaded == Len(queue[scan_stream]) + 2 <= Len(ScanOps)
CharsLeft(prev) == Count > 0 /\ Len(queue[read_stream]) = Len(ReadOps(prev))
Scanned == Len(queue[scan_stream]) = 0

----------------------------------------------------------------------------
(* The host.                                                               *)

HostInv ==
  /\ hpc \in {"setup", "first", "loop", "read", "sync", "gather", "done"}
  /\ offsets_read \in Seq(Seq(Int)) /\ tail \in 1 .. TILES_PER_CHUNK
  /\ read_stream \in {"s0", "s1"} /\ scan_stream \in {"s0", "s1"} \ {read_stream}
  /\ Count <= Chunks
  /\ base_tile_idx = IF Count < Chunks \/ Count = 0 THEN Count * TILES_PER_CHUNK
                     ELSE (Count - 1) * TILES_PER_CHUNK + tail
  /\ ~Looping => next = 0 /\ Count = 0
  /\ Looping => next = IF hpc = "sync" THEN Count + 2 ELSE Count + 1
  /\ hpc = "setup" => records = 0

\* The chunk in hand is the next one, if there is one, and has a buffer of its own.
ChunkIs(c, number) ==
  IF number < Chunks
  THEN /\ c.number = number /\ c.buffer \in Addresses /\ owner[c.buffer] = "live"
       /\ c.stream \in Streams
       /\ tickets[number % num_tickets] = number
  ELSE c = NoChunk

ChunksInv ==
  /\ Looping => ChunkIs(chunk, Count)
  /\ Scanning => Count < Chunks
  /\ hpc = "sync" => /\ ChunkIs(next_chunk, Count + 1)
                     /\ Count + 1 < Chunks => next_chunk.buffer # chunk.buffer

(* The events.                                                             *)
EventsInv ==
  /\ records \in Nat /\ last_launch_event \in 0 .. records /\ complete \subseteq 0 .. records
  /\ ticket_event \in [0 .. num_tickets - 1 -> Int]
  /\ \A s \in Streams : \A j \in 1 .. Len(queue[s]) :
       queue[s][j].op = "record" => queue[s][j].event \in (1 .. records) \ complete
  /\ \A s, r \in Streams : \A j \in 1 .. Len(queue[s]), k \in 1 .. Len(queue[r]) :
       queue[s][j].op = "record" /\ queue[r][k] = queue[s][j] => s = r /\ j = k

WaitsInv ==
  /\ hpc = "first" => 1 \in complete \/ Len(queue[read_stream]) = 1
  /\ Looping => \/ 1 \in complete
                \/ Count = 0 /\ Len(queue[scan_stream]) = Len(ScanOps)
  /\ Scanning /\ Len(queue[scan_stream]) < 2 => last_launch_event \in complete
  /\ Joining => /\ Len(queue["main"]) < 3 => records - 1 \in complete
                /\ Len(queue["main"]) < 2 => records \in complete
                /\ Len(queue["main"]) < 1 => output = Upto(Count)
  /\ hpc = "done" => queue["main"] = <<>>

(* The data.                                                               *)
DataInv(prev) ==
  /\ memory \in [Addresses -> Int] /\ owner \in [Addresses -> Streams \cup {"nobody", "live"}]
  /\ tickets \in [0 .. num_tickets - 1 -> Int]
  /\ Looping /\ Count < Chunks /\ Uploaded => memory[chunk.buffer] = Count
  /\ hpc = "sync" /\ Count + 1 < Chunks /\ Len(queue[read_stream]) < 2
       => memory[next_chunk.buffer] = Count + 1
  /\ Count > 0 => prev \in Addresses /\ (Count < Chunks => prev # chunk.buffer)
  /\ CharsLeft(prev) => memory[prev] = Count - 1
  /\ char_storage = Upto(IF CharsLeft(prev) THEN Count - 1 ELSE Count)

----------------------------------------------------------------------------
(* The tiles.                                                              *)

Span(a, b) == [i \in 1 .. b - a |-> a + i - 1]

ScanInv ==
  /\ launched # {} => Scanning /\ launched = Tiles /\ Len(queue[scan_stream]) = 1
  /\ \A t \in AllTiles :
       /\ t < base_tile_idx => block[t].pc = "done"
       /\ t >= base_tile_idx /\ block[t].pc # "idle"
            => Scanning /\ t \in Tiles /\ (launched # {} \/ Scanned)
       /\ Scanning /\ Scanned /\ t \in Tiles => block[t].pc = "done"

\* A place of the ring that says it has something has what belongs to the tile.
Published(t) ==
  /\ tile_status[Slot(t)] \in {"invalid", "partial", "inclusive"}
  /\ tile_status[Slot(t)] = "partial" => t >= base_tile_idx /\ tile_partial[Slot(t)] = <<t>>
  /\ tile_status[Slot(t)] = "inclusive" => tile_inclusive[Slot(t)] = Upto(t + 1)

\* What a block has put there, by how far it is.
Placed(t) ==
  /\ block[t].pc = "partial_status" => tile_partial[Slot(t)] = <<t>>
  /\ block[t].pc = "inclusive_status" => tile_inclusive[Slot(t)] = Upto(t + 1)
  /\ block[t].pc = "done" => tile_status[Slot(t)] = "inclusive"

RingInv ==
  /\ Seeded => Published(base_tile_idx - 1) /\ tile_status[Slot(base_tile_idx - 1)] = "inclusive"
  /\ Scanning /\ Len(queue[scan_stream]) <= 2 => \A t \in Tiles : Published(t) /\ Placed(t)

\* What a block knows.
Knows(t) ==
  /\ block[t].pc # "idle" => block[t].aggregate = <<t>>
  /\ block[t].pc \in {"idle", "partial", "partial_status"} => block[t].window = <<>>
  /\ block[t].pc \in {"look", "value"} =>
       /\ block[t].predecessor \in base_tile_idx - 1 .. t - 1
       /\ block[t].window = Span(block[t].predecessor + 1, t)
  /\ block[t].pc = "value" =>
       /\ block[t].status \in {"partial", "inclusive"}
       /\ block[t].status = "partial" =>
            /\ block[t].predecessor >= base_tile_idx
            /\ tile_partial[Slot(block[t].predecessor)] = <<block[t].predecessor>>
       /\ block[t].status = "inclusive" =>
            tile_inclusive[Slot(block[t].predecessor)] = Upto(block[t].predecessor + 1)
  /\ block[t].pc \in {"inclusive", "inclusive_status", "done"} => block[t].window = Upto(t)

BlockInv == \A t \in AllTiles : Knows(t)

Shape ==
  /\ tile_status \in [0 .. num_tile_states - 1 -> {"invalid", "oob", "partial", "inclusive"}]
  /\ tile_partial \in [0 .. num_tile_states - 1 -> Seq(Int)]
  /\ tile_inclusive \in [0 .. num_tile_states - 1 -> Seq(Int)]
  /\ block \in [AllTiles -> [pc : {"idle", "partial", "partial_status", "look", "value",
                                   "inclusive", "inclusive_status", "done"},
                             aggregate : Seq(Int), window : Seq(Int), predecessor : Int,
                             status : {"invalid", "oob", "partial", "inclusive"}]]
  /\ queue \in [Streams -> Seq(Operation)]

PInv(prev) ==
  /\ Shape /\ HostInv /\ ChunksInv /\ EventsInv
  /\ Queues(prev) /\ WaitsInv /\ DataInv(prev)
  /\ ScanInv /\ RingInv /\ BlockInv

IInv == (\E prev : PInv(prev)) /\ OffsetsExact

----------------------------------------------------------------------------
(* Lemmas: what is on a stream.                                            *)

\* Taking the operation at the head.
LEMMA RestPop ==
  ASSUME NEW q, NEW f, Rest(q, f), q # <<>>
  PROVE  /\ Rest(Tail(q), f) /\ Len(Tail(q)) = Len(q) - 1 /\ Len(q) >= 1
         /\ Head(q) = f[Len(f) - Len(q) + 1] /\ Head(q) = q[1]
         /\ \A j \in 1 .. Len(Tail(q)) : j + 1 \in 1 .. Len(q) /\ Tail(q)[j] = q[j + 1]
<1>1. Len(q) \in Nat \ {0} /\ Len(f) \in Nat
  BY EmptySeq, LenProperties DEF Rest
<1>2. Tail(q) \in Seq(Operation) /\ Len(Tail(q)) = Len(q) - 1
  BY <1>1, HeadTailProperties DEF Rest
<1>3. \A j \in 1 .. Len(Tail(q)) : Tail(q)[j] = q[j + 1]
  BY <1>1, <1>2, HeadTailProperties DEF Rest
<1>4. Head(q) = q[1]
  BY <1>1, HeadTailProperties DEF Rest
<1>. QED BY <1>1, <1>2, <1>3, <1>4 DEF Rest

\* Putting more behind.
LEMMA RestConcat ==
  ASSUME NEW q, NEW f, Rest(q, f), NEW g \in Seq(Operation)
  PROVE  /\ Rest(q \o g, f \o g)
         /\ Len(q \o g) = Len(q) + Len(g) /\ Len(f \o g) = Len(f) + Len(g)
         /\ Len(q) \in Nat /\ Len(f) \in Nat /\ Len(g) \in Nat
         /\ \A j \in 1 .. Len(q \o g) : (q \o g)[j] = IF j <= Len(q) THEN q[j] ELSE g[j - Len(q)]
         /\ \A j \in 1 .. Len(f \o g) : (f \o g)[j] = IF j <= Len(f) THEN f[j] ELSE g[j - Len(f)]
<1>1. Len(q) \in Nat /\ Len(f) \in Nat /\ Len(g) \in Nat
  BY LenProperties DEF Rest
<1>2. q \o g \in Seq(Operation) /\ Len(q \o g) = Len(q) + Len(g)
      /\ \A j \in 1 .. Len(q) + Len(g) : (q \o g)[j] = IF j <= Len(q) THEN q[j] ELSE g[j - Len(q)]
  BY ConcatProperties DEF Rest
<1>3. f \o g \in Seq(Operation) /\ Len(f \o g) = Len(f) + Len(g)
      /\ \A j \in 1 .. Len(f) + Len(g) : (f \o g)[j] = IF j <= Len(f) THEN f[j] ELSE g[j - Len(f)]
  BY ConcatProperties DEF Rest
<1>. QED BY <1>1, <1>2, <1>3 DEF Rest

\* A stream from which nothing was taken, or everything.
LEMMA RestWhole ==
  ASSUME NEW f \in Seq(Operation)
  PROVE  Rest(f, f) /\ Rest(<<>>, f)
BY LenProperties, EmptySeq DEF Rest

\* The operations.
LEMMA OperationTypes ==
  /\ \A e \in Int : Record(e) \in Operation /\ Wait(e) \in Operation
  /\ \A t \in SUBSET Int : Oob(t) \in Operation /\ Reset(t) \in Operation
  /\ Seed \in Operation /\ GatherOp \in Operation
  /\ \A i \in Int, a \in Addresses : Upload(i, a) \in Operation
  /\ \A t \in SUBSET Int : \A c :
       c.buffer \in Addresses /\ c.number \in Int => Scan(t, c) \in Operation
  /\ \A c : c.buffer \in Addresses => CopyChars(c) \in Operation
BY DEF Operation, Record, Wait, Oob, Reset, Seed, GatherOp, Upload, Scan, CopyChars


\* The operations of two sequences.
LEMMA ConcatAt ==
  ASSUME NEW f \in Seq(Operation), NEW g \in Seq(Operation), NEW h, h = f \o g
  PROVE  /\ h \in Seq(Operation) /\ Len(h) = Len(f) + Len(g)
         /\ Len(f) \in Nat /\ Len(g) \in Nat
         /\ \A j \in Int : 1 <= j /\ j <= Len(f) => h[j] = f[j]
         /\ \A j, k \in Int : 1 <= k /\ k <= Len(g) /\ j = Len(f) + k => h[j] = g[k]
<1>1. Len(f) \in Nat /\ Len(g) \in Nat
  BY LenProperties
<1>2. h \in Seq(Operation) /\ Len(h) = Len(f) + Len(g)
      /\ \A j \in 1 .. Len(f) + Len(g) : h[j] = IF j <= Len(f) THEN f[j] ELSE g[j - Len(f)]
  BY ConcatProperties
<1>3. ASSUME NEW j \in Int, 1 <= j, j <= Len(f) PROVE h[j] = f[j]
  BY <1>1, <1>2, <1>3
<1>4. ASSUME NEW j \in Int, NEW k \in Int, 1 <= k, k <= Len(g), j = Len(f) + k
      PROVE  h[j] = g[k]
  <2>1. j \in 1 .. Len(f) + Len(g) /\ ~(j <= Len(f)) /\ j - Len(f) = k
    BY <1>1, <1>4
  <2>. QED BY <1>2, <2>1
<1>. QED BY <1>1, <1>2, <1>3, <1>4

LEMMA LenEmpty == Len(<<>>) = 0
OBVIOUS

\* Short sequences of operations.
LEMMA Tuples ==
  /\ <<>> \in Seq(Operation) /\ Len(<<>>) = 0
  /\ \A f \in Seq(Operation) : f \o <<>> = f /\ <<>> \o f = f
  /\ \A a \in Operation : <<a>> \in Seq(Operation) /\ Len(<<a>>) = 1 /\ <<a>>[1] = a
  /\ \A a, b \in Operation :
       /\ <<a, b>> \in Seq(Operation) /\ Len(<<a, b>>) = 2
       /\ <<a, b>>[1] = a /\ <<a, b>>[2] = b
  /\ \A a, b, c \in Operation :
       /\ <<a, b, c>> \in Seq(Operation) /\ Len(<<a, b, c>>) = 3
       /\ <<a, b, c>>[1] = a /\ <<a, b, c>>[2] = b /\ <<a, b, c>>[3] = c
<1>1. \A f \in Seq(Operation) : f \o <<>> = f /\ <<>> \o f = f
  BY ConcatEmptySeq
<1>. QED BY <1>1

\* The operations of the caller's stream.
LEMMA MainAt ==
  ASSUME records \in Nat
  PROVE  /\ MainOps \in Seq(Operation)
         /\ hpc = "setup" => Len(MainOps) = 0
         /\ (hpc # "setup" /\ ~Joining => Len(MainOps) = 3) /\ (Joining => Len(MainOps) = 6)
         /\ hpc # "setup" => /\ MainOps[1] = Oob((0 - TILES_PER_CHUNK) .. -1)
                             /\ MainOps[2] = Seed /\ MainOps[3] = Record(1)
         /\ Joining => /\ MainOps[4] = Wait(records - 1) /\ MainOps[5] = Wait(records)
                       /\ MainOps[6] = GatherOp
<1>. DEFINE o == Oob((0 - TILES_PER_CHUNK) .. -1)
            f == IF hpc = "setup" THEN <<>> ELSE <<o, Seed, Record(1)>>
            g == IF Joining THEN <<Wait(records - 1), Wait(records), GatherOp>> ELSE <<>>
<1>1. o \in Operation /\ Seed \in Operation /\ Record(1) \in Operation
      /\ Wait(records - 1) \in Operation /\ Wait(records) \in Operation /\ GatherOp \in Operation
  BY PipelineAssumption, OperationTypes
<1>. HIDE DEF o
<1>2. /\ f \in Seq(Operation)
      /\ hpc = "setup" => Len(f) = 0
      /\ hpc # "setup" => Len(f) = 3 /\ f[1] = o /\ f[2] = Seed /\ f[3] = Record(1)
  BY <1>1, Tuples
<1>3. /\ g \in Seq(Operation)
      /\ ~Joining => Len(g) = 0
      /\ Joining => /\ Len(g) = 3 /\ g[1] = Wait(records - 1) /\ g[2] = Wait(records)
                    /\ g[3] = GatherOp
  BY <1>1, Tuples
<1>4. Joining => hpc # "setup"
  BY DEF Joining
<1>5. MainOps = f \o g
  BY DEF MainOps, o
<1>. HIDE DEF f, g
<1>6. /\ MainOps \in Seq(Operation) /\ Len(MainOps) = Len(f) + Len(g)
      /\ \A j \in Int : 1 <= j /\ j <= Len(f) => MainOps[j] = f[j]
      /\ \A j, k \in Int : 1 <= k /\ k <= Len(g) /\ j = Len(f) + k => MainOps[j] = g[k]
  BY <1>2, <1>3, <1>5, ConcatAt
<1>7. ASSUME hpc # "setup"
      PROVE  MainOps[1] = f[1] /\ MainOps[2] = f[2] /\ MainOps[3] = f[3]
  <2>1. Len(f) = 3
    BY <1>2, <1>7
  <2>. QED BY <1>6, <2>1
<1>8. ASSUME Joining
      PROVE  MainOps[4] = g[1] /\ MainOps[5] = g[2] /\ MainOps[6] = g[3] /\ Len(MainOps) = 6
  <2>1. Len(f) = 3 /\ Len(g) = 3
    BY <1>2, <1>3, <1>4, <1>8
  <2>. QED BY <1>6, <2>1
<1>9. ASSUME ~Joining
      PROVE  hpc = "setup" => Len(MainOps) = 0
             /\ (hpc # "setup" => Len(MainOps) = 3)
  <2>1. Len(g) = 0
    BY <1>3, <1>9
  <2>. QED BY <1>2, <1>6, <2>1
<1>. QED BY <1>2, <1>3, <1>4, <1>6, <1>7, <1>8, <1>9 DEF o

\* What reads a chunk.
LEMMA ReadingAt ==
  ASSUME NEW c, NEW k \in Nat, c # NoChunk => c.buffer \in Addresses,
         ticket_event \in [0 .. num_tickets - 1 -> Int]
  PROVE  /\ Reading(c, k) \in Seq(Operation)
         /\ c = NoChunk => /\ Len(Reading(c, k)) = 1
                           /\ Reading(c, k)[1] = Record(ticket_event[k % num_tickets])
         /\ c # NoChunk => /\ Len(Reading(c, k)) = 2
                           /\ Reading(c, k)[1] = Upload(k % num_tickets, c.buffer)
                           /\ Reading(c, k)[2] = Record(ticket_event[k % num_tickets])
<1>. DEFINE i == k % num_tickets
            event == Record(ticket_event[i])
            upload == Upload(i, c.buffer)
<1>1. i \in 0 .. num_tickets - 1
  BY DEF num_tickets
<1>2. i \in Int /\ ticket_event[i] \in Int
  BY <1>1 DEF num_tickets
<1>3. event \in Operation /\ (c # NoChunk => upload \in Operation)
  BY <1>2, OperationTypes
<1>4. Reading(c, k) = IF c = NoChunk THEN <<event>> ELSE <<upload, event>>
  BY DEF Reading
<1>. HIDE DEF event, upload
<1>5. CASE c = NoChunk
  BY <1>3, <1>4, <1>5, Tuples DEF event
<1>6. CASE c # NoChunk
  BY <1>3, <1>4, <1>6, Tuples DEF event, upload
<1>. QED BY <1>5, <1>6

\* What the scanning stream of a chunk has, from its three parts.
LEMMA TripleAt ==
  ASSUME NEW f \in Seq(Operation), NEW r \in Seq(Operation), NEW g \in Seq(Operation),
         NEW p, p = f \o r, NEW h, h = p \o g
  PROVE  /\ h \in Seq(Operation) /\ Len(h) = Len(f) + Len(r) + Len(g)
         /\ Len(f) \in Nat /\ Len(r) \in Nat /\ Len(g) \in Nat
         /\ \A j \in Int : 1 <= j /\ j <= Len(f) => h[j] = f[j]
         /\ \A j, k \in Int : 1 <= k /\ k <= Len(r) /\ j = Len(f) + k => h[j] = r[k]
         /\ \A j, k \in Int : 1 <= k /\ k <= Len(g) /\ j = Len(f) + Len(r) + k => h[j] = g[k]
<1>1. /\ p \in Seq(Operation) /\ Len(p) = Len(f) + Len(r) /\ Len(f) \in Nat /\ Len(r) \in Nat
      /\ \A j \in Int : 1 <= j /\ j <= Len(f) => p[j] = f[j]
      /\ \A j, k \in Int : 1 <= k /\ k <= Len(r) /\ j = Len(f) + k => p[j] = r[k]
  BY ConcatAt
<1>2. /\ h \in Seq(Operation) /\ Len(h) = Len(p) + Len(g) /\ Len(g) \in Nat
      /\ \A j \in Int : 1 <= j /\ j <= Len(p) => h[j] = p[j]
      /\ \A j, k \in Int : 1 <= k /\ k <= Len(g) /\ j = Len(p) + k => h[j] = g[k]
  BY <1>1, ConcatAt
<1>3. \A j, k \in Int : 1 <= k /\ k <= Len(r) /\ j = Len(f) + k
                          => 1 <= j /\ j <= Len(p) /\ p[j] = r[k]
  BY <1>1
<1>4. \A j \in Int : 1 <= j /\ j <= Len(f) => j <= Len(p)
  BY <1>1
<1>. QED BY <1>1, <1>2, <1>3, <1>4


\* What the invariant says of the host, in the form that is used.
LEMMA HostFacts ==
  ASSUME HostInv, ChunksInv, EventsInv
  PROVE  /\ Count \in Nat /\ Count % num_tickets \in Int /\ Tiles \subseteq Int
         /\ records \in Nat /\ last_launch_event \in Int
         /\ ticket_event \in [0 .. num_tickets - 1 -> Int]
         /\ hpc \in {"setup", "first", "loop", "read", "sync", "gather", "done"}
         /\ base_tile_idx \in Nat /\ TilesOf(Count) \in 1 .. TILES_PER_CHUNK
         /\ scan_stream \in Streams /\ read_stream \in Streams
         /\ scan_stream # read_stream /\ scan_stream # "main" /\ read_stream # "main"
         /\ Streams = {"main", scan_stream, read_stream}
         /\ Looping /\ Count < Chunks => /\ chunk # NoChunk /\ chunk.buffer \in Addresses
                                         /\ chunk.number = Count /\ chunk.number \in Int
         /\ Looping /\ ~(Count < Chunks) => chunk = NoChunk
         /\ hpc = "sync" /\ Count + 1 < Chunks => /\ next_chunk # NoChunk
                                                  /\ next_chunk.buffer \in Addresses
                                                  /\ next_chunk.number = Count + 1
         /\ hpc = "sync" /\ ~(Count + 1 < Chunks) => next_chunk = NoChunk
<1>1. Count \in Nat
  BY LenProperties DEF HostInv, Count
<1>2. Count % num_tickets \in Int
  BY <1>1 DEF num_tickets
<1>3. TilesOf(Count) \in 1 .. TILES_PER_CHUNK
  BY PipelineAssumption DEF HostInv, TilesOf
<1>4. base_tile_idx \in Nat
  <2>1. Count * TILES_PER_CHUNK \in Nat
    BY <1>1, PipelineAssumption
  <2>2. Count # 0 => (Count - 1) * TILES_PER_CHUNK \in Nat
    BY <1>1, PipelineAssumption
  <2>3. tail \in Nat
    BY PipelineAssumption DEF HostInv
  <2>. QED BY <2>1, <2>2, <2>3, <1>1 DEF HostInv
<1>5. Tiles \subseteq Int
  BY <1>3, <1>4 DEF Tiles
<1>6. /\ scan_stream \in Streams /\ read_stream \in Streams
      /\ scan_stream # read_stream /\ scan_stream # "main" /\ read_stream # "main"
      /\ Streams = {"main", scan_stream, read_stream}
  BY DEF HostInv, Streams
<1>7. Looping /\ Count < Chunks => /\ chunk # NoChunk /\ chunk.buffer \in Addresses
                                   /\ chunk.number = Count /\ chunk.number \in Int
  BY <1>1 DEF ChunksInv, ChunkIs, NoChunk, None
<1>8. Looping /\ ~(Count < Chunks) => chunk = NoChunk
  BY DEF ChunksInv, ChunkIs
<1>9. hpc = "sync" /\ Count + 1 < Chunks => /\ next_chunk # NoChunk
                                            /\ next_chunk.buffer \in Addresses
                                            /\ next_chunk.number = Count + 1
  BY <1>1 DEF ChunksInv, ChunkIs, NoChunk, None
<1>10. hpc = "sync" /\ ~(Count + 1 < Chunks) => next_chunk = NoChunk
  BY DEF ChunksInv, ChunkIs
<1>11. hpc \in {"setup", "first", "loop", "read", "sync", "gather", "done"}
       /\ records \in Nat /\ last_launch_event \in Int
       /\ ticket_event \in [0 .. num_tickets - 1 -> Int]
  BY DEF HostInv, EventsInv
<1>. QED BY <1>1, <1>2, <1>3, <1>4, <1>5, <1>6, <1>7, <1>8, <1>9, <1>10, <1>11

\* The operations of the stream of the chunk in hand.
LEMMA ScanAt ==
  ASSUME HostInv, ChunksInv, EventsInv
  PROVE  /\ ScanOps \in Seq(Operation)
         /\ hpc = "setup" => Len(ScanOps) = 0
         /\ hpc # "setup" => ScanOps[1] = Wait(1)
         /\ hpc = "first" => Len(ScanOps) = 1
         /\ Looping /\ chunk = NoChunk =>
              /\ ScanOps[2] = Record(ticket_event[Count % num_tickets])
              /\ hpc = "loop" => Len(ScanOps) = 2
              /\ Joining => Len(ScanOps) = 3 /\ ScanOps[3] = Record(JoinEvent(scan_stream))
         /\ Looping /\ chunk # NoChunk =>
              /\ ScanOps[2] = Upload(Count % num_tickets, chunk.buffer)
              /\ ScanOps[3] = Record(ticket_event[Count % num_tickets])
              /\ hpc = "loop" => Len(ScanOps) = 3
              /\ Joining => Len(ScanOps) = 4 /\ ScanOps[4] = Record(JoinEvent(scan_stream))
         /\ Scanning => /\ Len(ScanOps) = 6 /\ chunk # NoChunk
                        /\ ScanOps[4] = Reset(Tiles)
                        /\ ScanOps[5] = Wait(last_launch_event)
                        /\ ScanOps[6] = Scan(Tiles, chunk)
<1>. DEFINE f == IF hpc = "setup" THEN <<>> ELSE <<Wait(1)>>
            r == IF Looping THEN Reading(chunk, Count) ELSE <<>>
            j == JoinRecord(scan_stream)
            e == Record(JoinEvent(scan_stream))
            x == Reset(Tiles)
            y == Wait(last_launch_event)
            z == Scan(Tiles, chunk)
            g == IF Scanning THEN <<x, y, z>> ELSE j
            p == f \o r
            u == Upload(Count % num_tickets, chunk.buffer)
            v == Record(ticket_event[Count % num_tickets])
<1>1. /\ Wait(1) \in Operation /\ e \in Operation /\ x \in Operation /\ y \in Operation
      /\ chunk # NoChunk /\ Looping => z \in Operation
  BY HostFacts, OperationTypes DEF JoinEvent
<1>2. /\ Scanning => ~Joining /\ Looping /\ Count < Chunks /\ hpc # "setup" /\ hpc # "first"
      /\ Joining => ~Scanning /\ Looping
      /\ hpc \in {"setup", "first"} => ~Looping /\ ~Scanning /\ ~Joining
      /\ hpc = "loop" => ~Scanning /\ Looping /\ ~Joining
      /\ Looping => Scanning \/ Joining \/ hpc = "loop"
      /\ ~Looping => hpc \in {"setup", "first"}
      /\ Looping => hpc # "setup"
  BY HostFacts DEF Scanning, Joining, Looping, ChunksInv
<1>3. /\ f \in Seq(Operation)
      /\ hpc = "setup" => Len(f) = 0
      /\ hpc # "setup" => Len(f) = 1 /\ f[1] = Wait(1)
  BY <1>1, Tuples
<1>4. /\ r \in Seq(Operation)
      /\ ~Looping => Len(r) = 0
      /\ Looping /\ chunk = NoChunk => Len(r) = 1 /\ r[1] = v
      /\ Looping /\ chunk # NoChunk => Len(r) = 2 /\ r[1] = u /\ r[2] = v
  <2>1. CASE Looping
    <3>1. chunk # NoChunk => chunk.buffer \in Addresses
      BY <2>1, HostFacts
    <3>2. /\ Reading(chunk, Count) \in Seq(Operation)
          /\ chunk = NoChunk => Len(Reading(chunk, Count)) = 1 /\ Reading(chunk, Count)[1] = v
          /\ chunk # NoChunk => /\ Len(Reading(chunk, Count)) = 2
                                /\ Reading(chunk, Count)[1] = u /\ Reading(chunk, Count)[2] = v
      BY <3>1, HostFacts, ReadingAt
    <3>. QED BY <2>1, <3>2
  <2>2. CASE ~Looping
    BY <2>2, Tuples
  <2>. QED BY <2>1, <2>2
<1>5. /\ j \in Seq(Operation)
      /\ ~Joining => Len(j) = 0
      /\ Joining => Len(j) = 1 /\ j[1] = e
  BY <1>1, Tuples DEF JoinRecord
<1>6. /\ g \in Seq(Operation)
      /\ ~Joining /\ ~Scanning => Len(g) = 0
      /\ Joining => Len(g) = 1 /\ g[1] = e
      /\ Scanning => Len(g) = 3 /\ g[1] = x /\ g[2] = y /\ g[3] = z
  <2>1. CASE Scanning
    <3>1. x \in Operation /\ y \in Operation /\ z \in Operation
      BY <2>1, <1>1, <1>2, HostFacts
    <3>. HIDE DEF x, y, z
    <3>2. g = <<x, y, z>>
      BY <2>1
    <3>. QED BY <1>2, <2>1, <3>1, <3>2, Tuples
  <2>2. CASE ~Scanning
    <3>1. g = j
      BY <2>2
    <3>. HIDE DEF g, j, e, x, y, z
    <3>2. Joining => Len(g) = 1 /\ g[1] = e
      BY <3>1, <1>5
    <3>3. g \in Seq(Operation)
      BY <3>1, <1>5
    <3>4. ~Joining => Len(g) = 0
      BY <3>1, <1>5
    <3>. QED BY <2>2, <3>2, <3>3, <3>4
  <2>. QED BY <2>1, <2>2
<1>7. ScanOps = p \o g
  BY DEF ScanOps
<1>. HIDE DEF f, r, g, j, e, x, y, z, u, v
<1>8. p = f \o r
  OBVIOUS
<1>. HIDE DEF p
<1>9. /\ ScanOps \in Seq(Operation) /\ Len(ScanOps) = Len(f) + Len(r) + Len(g)
      /\ \A l \in Int : 1 <= l /\ l <= Len(f) => ScanOps[l] = f[l]
      /\ \A l, k \in Int : 1 <= k /\ k <= Len(r) /\ l = Len(f) + k => ScanOps[l] = r[k]
      /\ \A l, k \in Int : 1 <= k /\ k <= Len(g) /\ l = Len(f) + Len(r) + k => ScanOps[l] = g[k]
  <2>1. f \in Seq(Operation)
    BY <1>3
  <2>2. r \in Seq(Operation)
    BY <1>4
  <2>3. g \in Seq(Operation)
    BY <1>6
  <2>. QED BY <2>1, <2>2, <2>3, <1>7, <1>8, TripleAt
<1>10. CASE hpc = "setup"
  <2>1. Len(f) = 0 /\ Len(r) = 0 /\ Len(g) = 0
    BY <1>2, <1>3, <1>4, <1>6, <1>10
  <2>. QED BY <1>2, <1>9, <1>10, <2>1
<1>11. CASE hpc = "first"
  <2>1. Len(f) = 1 /\ Len(r) = 0 /\ Len(g) = 0 /\ f[1] = Wait(1)
    BY <1>2, <1>3, <1>4, <1>6, <1>11
  <2>. QED BY <1>2, <1>9, <1>11, <2>1
<1>12. CASE Looping /\ chunk = NoChunk
  <2>1. Len(f) = 1 /\ Len(r) = 1 /\ r[1] = v /\ f[1] = Wait(1) /\ hpc # "setup" /\ hpc # "first"
        /\ ~Scanning
    BY <1>2, <1>3, <1>4, <1>12, HostFacts
  <2>2. ScanOps[1] = Wait(1) /\ ScanOps[2] = v
    BY <1>9, <2>1
  <2>3. hpc = "loop" => Len(ScanOps) = 2
    BY <1>2, <1>6, <1>9, <2>1
  <2>4. ASSUME Joining PROVE Len(ScanOps) = 3 /\ ScanOps[3] = g[1] /\ g[1] = e
    <3>1. Len(g) = 1 /\ g[1] = e
      BY <1>6, <2>4
    <3>. QED BY <1>9, <2>1, <3>1
  <2>. QED BY <1>9, <1>12, <2>1, <2>2, <2>3, <2>4 DEF v, e
<1>13. CASE Looping /\ chunk # NoChunk
  <2>1. Len(f) = 1 /\ Len(r) = 2 /\ r[1] = u /\ r[2] = v /\ f[1] = Wait(1)
        /\ hpc # "setup" /\ hpc # "first"
    BY <1>2, <1>3, <1>4, <1>13, HostFacts
  <2>2. ScanOps[1] = Wait(1) /\ ScanOps[2] = u /\ ScanOps[3] = v
    BY <1>9, <2>1
  <2>3. hpc = "loop" => Len(ScanOps) = 3
    BY <1>2, <1>6, <1>9, <2>1
  <2>4. ASSUME Joining PROVE Len(ScanOps) = 4 /\ ScanOps[4] = g[1] /\ g[1] = e
    <3>1. Len(g) = 1 /\ g[1] = e
      BY <1>6, <2>4
    <3>. QED BY <1>9, <2>1, <3>1
  <2>5. ASSUME Scanning
        PROVE  Len(ScanOps) = 6 /\ ScanOps[4] = x /\ ScanOps[5] = y /\ ScanOps[6] = z
    <3>1. Len(g) = 3 /\ g[1] = x /\ g[2] = y /\ g[3] = z
      BY <1>6, <2>5
    <3>2. /\ ScanOps[4] = g[1] /\ ScanOps[5] = g[2] /\ ScanOps[6] = g[3]
          /\ Len(ScanOps) = 6
      BY <1>9, <2>1, <3>1
    <3>. QED BY <3>1, <3>2
  <2>. QED BY <1>9, <1>13, <2>1, <2>2, <2>3, <2>4, <2>5 DEF u, v, e, x, y, z
<1>. QED BY <1>2, <1>10, <1>11, <1>12, <1>13, HostFacts

\* The operations of the other stream: those before the ones that were put there
\* last are two, or one at the beginning.
LEMMA ReadAt ==
  ASSUME HostInv, ChunksInv, EventsInv, NEW prev, Count > 0 => prev \in Addresses
  PROVE  LET b == IF Count = 0 THEN 1 ELSE 2
             f == ReadOps(prev)
         IN  /\ f \in Seq(Operation)
             /\ hpc = "setup" => Len(f) = 0
             /\ hpc # "setup" /\ Count = 0 => f[1] = Wait(1)
             /\ Count # 0 => /\ f[1] = CopyChars([buffer |-> prev])
                             /\ f[2] = Record(last_launch_event)
             /\ hpc \in {"first", "loop", "read"} => Len(f) = b
             /\ Joining => Len(f) = b + 1 /\ f[b + 1] = Record(JoinEvent(read_stream))
             /\ hpc = "sync" /\ next_chunk = NoChunk =>
                  /\ Len(f) = b + 1
                  /\ f[b + 1] = Record(ticket_event[(Count + 1) % num_tickets])
             /\ hpc = "sync" /\ next_chunk # NoChunk =>
                  /\ Len(f) = b + 2
                  /\ f[b + 1] = Upload((Count + 1) % num_tickets, next_chunk.buffer)
                  /\ f[b + 2] = Record(ticket_event[(Count + 1) % num_tickets])
<1>. DEFINE b == IF Count = 0 THEN 1 ELSE 2
            o == CopyChars([buffer |-> prev])
            a == Record(last_launch_event)
            f == IF hpc = "setup" THEN <<>> ELSE IF Count = 0 THEN <<Wait(1)>> ELSE <<o, a>>
            e == Record(JoinEvent(read_stream))
            r == Reading(next_chunk, Count + 1)
            g == IF hpc = "sync" THEN r ELSE JoinRecord(read_stream)
            h == ReadOps(prev)
            u == Upload((Count + 1) % num_tickets, next_chunk.buffer)
            v == Record(ticket_event[(Count + 1) % num_tickets])
<1>1. /\ Wait(1) \in Operation /\ e \in Operation /\ a \in Operation
      /\ Count # 0 => o \in Operation
  <2>1. Count # 0 => prev \in Addresses
    BY HostFacts
  <2>. QED BY <2>1, HostFacts, OperationTypes DEF JoinEvent
<1>2. /\ hpc \in {"setup", "first", "loop", "read", "sync"} => ~Joining
      /\ hpc = "setup" => Count = 0
      /\ Joining => hpc # "setup" /\ hpc # "sync"
      /\ b \in Nat
  BY DEF Joining, Looping, HostInv
<1>. HIDE DEF o, a, e
<1>3. /\ f \in Seq(Operation)
      /\ hpc = "setup" => Len(f) = 0
      /\ hpc # "setup" => Len(f) = b
      /\ hpc # "setup" /\ Count = 0 => f[1] = Wait(1)
      /\ Count # 0 => f[1] = o /\ f[2] = a
  BY <1>1, <1>2, Tuples
<1>4. CASE hpc = "sync"
  <2>1. next_chunk # NoChunk => next_chunk.buffer \in Addresses
    BY <1>4, HostFacts
  <2>2. Count + 1 \in Nat
    BY HostFacts
  <2>. HIDE DEF f, u, v
  <2>3. /\ r \in Seq(Operation)
        /\ next_chunk = NoChunk => Len(r) = 1 /\ r[1] = v
        /\ next_chunk # NoChunk => Len(r) = 2 /\ r[1] = u /\ r[2] = v
    BY <2>1, <2>2, HostFacts, ReadingAt DEF u, v
  <2>4. h = f \o r
    BY <1>4 DEF ReadOps, f, o, a
  <2>. HIDE DEF r, h, b
  <2>5. /\ h \in Seq(Operation) /\ Len(h) = Len(f) + Len(r)
        /\ \A j \in Int : 1 <= j /\ j <= Len(f) => h[j] = f[j]
        /\ \A j, k \in Int : 1 <= k /\ k <= Len(r) /\ j = Len(f) + k => h[j] = r[k]
    BY <1>3, <2>3, <2>4, ConcatAt
  <2>6. Len(f) = b
    BY <1>3, <1>4
  <2>7. /\ Count = 0 => h[1] = f[1]
        /\ Count # 0 => h[1] = f[1] /\ h[2] = f[2]
    BY <1>2, <2>5, <2>6 DEF b
  <2>8. ASSUME next_chunk = NoChunk PROVE Len(h) = b + 1 /\ h[b + 1] = v
    <3>1. Len(r) = 1 /\ r[1] = v
      BY <2>3, <2>8
    <3>2. h[b + 1] = r[1] /\ Len(h) = b + 1
      BY <1>2, <2>5, <2>6, <3>1
    <3>. QED BY <3>1, <3>2
  <2>9. ASSUME next_chunk # NoChunk PROVE Len(h) = b + 2 /\ h[b + 1] = u /\ h[b + 2] = v
    <3>1. Len(r) = 2 /\ r[1] = u /\ r[2] = v
      BY <2>3, <2>9
    <3>2. h[b + 1] = r[1] /\ h[b + 2] = r[2] /\ Len(h) = b + 2
      BY <1>2, <2>5, <2>6, <3>1
    <3>. QED BY <3>1, <3>2
  <2>. QED BY <1>2, <1>3, <1>4, <2>5, <2>7, <2>8, <2>9 DEF h, b, o, a, u, v
<1>5. CASE Joining
  <2>1. <<e>> \in Seq(Operation) /\ Len(<<e>>) = 1 /\ <<e>>[1] = e
    BY <1>1, Tuples
  <2>2. h = f \o <<e>>
    BY <1>2, <1>5 DEF ReadOps, JoinRecord, f, o, a, e
  <2>. HIDE DEF f, h, b
  <2>3. /\ h \in Seq(Operation) /\ Len(h) = Len(f) + 1
        /\ \A j \in Int : 1 <= j /\ j <= Len(f) => h[j] = f[j]
        /\ \A j, k \in Int : 1 <= k /\ k <= 1 /\ j = Len(f) + k => h[j] = <<e>>[k]
    BY <1>3, <2>1, <2>2, ConcatAt
  <2>4. Len(f) = b
    BY <1>2, <1>3, <1>5
  <2>5. /\ Count = 0 => h[1] = f[1]
        /\ Count # 0 => h[1] = f[1] /\ h[2] = f[2]
    BY <1>2, <2>3, <2>4 DEF b
  <2>6. Len(h) = b + 1 /\ h[b + 1] = e
    BY <1>2, <2>1, <2>3, <2>4
  <2>. QED BY <1>2, <1>3, <1>5, <2>3, <2>5, <2>6 DEF h, b, o, a, e
<1>6. CASE hpc # "sync" /\ ~Joining
  <2>1. h = f \o <<>>
    BY <1>6 DEF ReadOps, JoinRecord, f, o, a
  <2>2. h = f
    BY <1>3, <2>1, Tuples
  <2>. HIDE DEF f, h
  <2>. QED BY <1>2, <1>3, <1>6, <2>2 DEF h, b, o, a
<1>. QED BY <1>4, <1>5, <1>6

\* The kinds of the operations.
LEMMA Kinds ==
  /\ \A x : Record(x).op = "record" /\ Wait(x).op = "wait" /\ Record(x).event = x
            /\ Wait(x).event = x
  /\ \A x : Oob(x).op = "init" /\ Reset(x).op = "init" /\ Oob(x).status = "oob"
            /\ Reset(x).status = "invalid" /\ Oob(x).tiles = x /\ Reset(x).tiles = x
  /\ Seed.op = "seed" /\ GatherOp.op = "gather"
  /\ \A x, y : Upload(x, y).op = "upload" /\ Upload(x, y).ticket = x /\ Upload(x, y).buffer = y
  /\ \A x, c : Scan(x, c).op = "scan" /\ Scan(x, c).tiles = x /\ Scan(x, c).buffer = c.buffer
               /\ Scan(x, c).number = c.number
  /\ \A c : CopyChars(c).op = "chars" /\ CopyChars(c).buffer = c.buffer
BY DEF Record, Wait, Oob, Reset, Seed, GatherOp, Upload, Scan, CopyChars

\* What is at the head of the caller's stream.
LEMMA MainHead ==
  ASSUME HostInv, ChunksInv, EventsInv, Rest(queue["main"], MainOps), queue["main"] # <<>>
  PROVE  LET o == Head(queue["main"])
             left == Len(queue["main"])
         IN  /\ hpc # "setup" /\ left \in Nat \ {0}
             /\ \/ left = Len(MainOps) /\ o = Oob((0 - TILES_PER_CHUNK) .. -1)
                \/ left = Len(MainOps) - 1 /\ o = Seed
                \/ left = Len(MainOps) - 2 /\ o = Record(1)
                \/ Joining /\ left = 3 /\ o = Wait(records - 1)
                \/ Joining /\ left = 2 /\ o = Wait(records)
                \/ Joining /\ left = 1 /\ o = GatherOp
<1>. DEFINE q == queue["main"]
            left == Len(q)
<1>. HIDE DEF q
<1>1. left \in Nat \ {0} /\ left <= Len(MainOps) /\ Head(q) = MainOps[Len(MainOps) - left + 1]
  BY RestPop, EmptySeq, LenProperties DEF Rest, q
<1>2. records \in Nat
  BY HostFacts
<1>. HIDE DEF left
<1>3. hpc # "setup"
  BY <1>1, <1>2, MainAt
<1>4. CASE Joining
  <2>1. Len(MainOps) = 6
    BY <1>2, <1>4, MainAt
  <2>2. left \in {1, 2, 3, 4, 5, 6}
    BY <1>1, <2>1
  <2>3. CASE left = 6
    BY <1>1, <1>2, <1>3, <2>1, <2>3, MainAt DEF q, left
  <2>4. CASE left = 5
    BY <1>1, <1>2, <1>3, <2>1, <2>4, MainAt DEF q, left
  <2>5. CASE left = 4
    BY <1>1, <1>2, <1>3, <2>1, <2>5, MainAt DEF q, left
  <2>6. CASE left = 3
    BY <1>1, <1>2, <1>3, <1>4, <2>1, <2>6, MainAt DEF q, left
  <2>7. CASE left = 2
    BY <1>1, <1>2, <1>3, <1>4, <2>1, <2>7, MainAt DEF q, left
  <2>8. CASE left = 1
    BY <1>1, <1>2, <1>3, <1>4, <2>1, <2>8, MainAt DEF q, left
  <2>. QED BY <2>2, <2>3, <2>4, <2>5, <2>6, <2>7, <2>8
<1>5. CASE ~Joining
  <2>1. Len(MainOps) = 3
    BY <1>2, <1>3, <1>5, MainAt
  <2>2. left \in {1, 2, 3}
    BY <1>1, <2>1
  <2>3. CASE left = 3
    BY <1>1, <1>2, <1>3, <2>1, <2>3, MainAt DEF q, left
  <2>4. CASE left = 2
    BY <1>1, <1>2, <1>3, <2>1, <2>4, MainAt DEF q, left
  <2>5. CASE left = 1
    BY <1>1, <1>2, <1>3, <2>1, <2>5, MainAt DEF q, left
  <2>. QED BY <2>2, <2>3, <2>4, <2>5
<1>. QED BY <1>4, <1>5

\* What is at the head of the stream of the chunk in hand.
LEMMA ScanHead ==
  ASSUME HostInv, ChunksInv, EventsInv, Rest(queue[scan_stream], ScanOps),
         queue[scan_stream] # <<>>
  PROVE  LET o == Head(queue[scan_stream])
             left == Len(queue[scan_stream])
         IN  /\ hpc # "setup" /\ left \in Nat \ {0}
             /\ \/ left = Len(ScanOps) /\ o = Wait(1)
                \/ /\ left = Len(ScanOps) - 1 /\ o = Upload(Count % num_tickets, chunk.buffer)
                   /\ Looping /\ chunk # NoChunk
                \/ \E e : o = Record(e)
                \/ Scanning /\ left = 3 /\ o = Reset(Tiles)
                \/ Scanning /\ left = 2 /\ o = Wait(last_launch_event)
                \/ Scanning /\ left = 1 /\ o = Scan(Tiles, chunk)
<1>. DEFINE q == queue[scan_stream]
            left == Len(q)
            i == Len(ScanOps) - left + 1
<1>. HIDE DEF q
<1>1. left \in Nat \ {0} /\ left <= Len(ScanOps) /\ Head(q) = ScanOps[i] /\ Len(ScanOps) \in Nat
  BY RestPop, EmptySeq, LenProperties DEF Rest, q
<1>7. i = Len(ScanOps) - left + 1 /\ i \in Int
  BY <1>1
<1>. HIDE DEF left, i
<1>. DEFINE L == Len(ScanOps)
<1>8. i \in 1 .. L /\ L \in Nat
  BY <1>1, <1>7
<1>. HIDE DEF L
<1>9. i = 1 => left = Len(ScanOps)
  BY <1>1, <1>7
<1>2. hpc # "setup" /\ ScanOps[1] = Wait(1)
  BY <1>1, <1>7, ScanAt
<1>3. CASE hpc = "first"
  <2>1. Len(ScanOps) = 1
    BY <1>3, ScanAt
  <2>2. left = Len(ScanOps) /\ i = 1
    BY <1>1, <1>7, <2>1
  <2>. QED BY <1>1, <1>7, <1>2, <2>2 DEF q, left
<1>4. CASE Looping /\ chunk = NoChunk
  <2>1. /\ ScanOps[2] = Record(ticket_event[Count % num_tickets])
        /\ \/ Len(ScanOps) = 2
           \/ Len(ScanOps) = 3 /\ ScanOps[3] = Record(JoinEvent(scan_stream))
    <3>1. hpc = "loop" \/ Joining
      BY <1>4, HostFacts, ScanAt DEF Looping, Joining, Scanning
    <3>. QED BY <1>4, <3>1, ScanAt
  <2>6. L = 2 \/ L = 3
    BY <2>1 DEF L
  <2>2. (i = 1 \/ i = 2 \/ i = 3) /\ (i = 3 => L = 3)
    BY <1>8, <2>6
  <2>3. CASE i = 1
    BY <1>1, <1>2, <1>9, <2>3 DEF q, left
  <2>4. CASE i = 2
    BY <1>1, <1>7, <1>2, <2>1, <2>4 DEF q, left
  <2>5. CASE i = 3
    BY <1>1, <1>7, <1>2, <2>1, <2>2, <2>5 DEF q, left, L
  <2>. QED BY <2>2, <2>3, <2>4, <2>5
<1>5. CASE Looping /\ chunk # NoChunk
  <2>1. /\ ScanOps[2] = Upload(Count % num_tickets, chunk.buffer)
        /\ ScanOps[3] = Record(ticket_event[Count % num_tickets])
    BY <1>5, ScanAt
  <2>2. CASE Scanning
    <3>8. Len(ScanOps) = 6
      BY <2>2, ScanAt
    <3>1. Len(ScanOps) = 6 /\ i = 7 - left /\ left \in {1, 2, 3, 4, 5, 6}
      BY <1>1, <1>7, <3>8
    <3>2. CASE left = 6
      BY <1>1, <1>7, <1>2, <3>1, <3>2 DEF q, left
    <3>3. CASE left = 5
      BY <1>1, <1>7, <1>2, <1>5, <2>1, <3>1, <3>3 DEF q, left
    <3>4. CASE left = 4
      BY <1>1, <1>7, <1>2, <2>1, <3>1, <3>4 DEF q, left
    <3>5. CASE left = 3
      BY <1>1, <1>7, <1>2, <2>2, <3>1, <3>5, ScanAt DEF q, left
    <3>6. CASE left = 2
      BY <1>1, <1>7, <1>2, <2>2, <3>1, <3>6, ScanAt DEF q, left
    <3>7. CASE left = 1
      BY <1>1, <1>7, <1>2, <2>2, <3>1, <3>7, ScanAt DEF q, left
    <3>. QED BY <3>1, <3>2, <3>3, <3>4, <3>5, <3>6, <3>7
  <2>3. CASE ~Scanning
    <3>1. hpc = "loop" \/ Joining
      BY <1>5, <2>3, HostFacts DEF Looping, Joining, Scanning
    <3>2. \/ Len(ScanOps) = 3
          \/ Len(ScanOps) = 4 /\ ScanOps[4] = Record(JoinEvent(scan_stream))
      BY <1>5, <3>1, ScanAt
    <3>8. L = 3 \/ L = 4
      BY <3>2 DEF L
    <3>3. (i = 1 \/ i = 2 \/ i = 3 \/ i = 4) /\ (i = 4 => L = 4)
      BY <1>8, <3>8
    <3>4. CASE i = 1
      BY <1>1, <1>2, <1>9, <3>4 DEF q, left
    <3>5. CASE i = 2
      <4>1. left = Len(ScanOps) - 1
        BY <1>1, <1>7, <3>5
      <4>2. Head(q) = Upload(Count % num_tickets, chunk.buffer)
        BY <1>1, <2>1, <3>5
      <4>. QED BY <1>1, <1>2, <1>5, <4>1, <4>2 DEF q, left
    <3>6. CASE i = 3
      BY <1>1, <1>7, <1>2, <2>1, <3>6 DEF q, left
    <3>7. CASE i = 4
      BY <1>1, <1>2, <3>2, <3>3, <3>7 DEF q, left, L
    <3>. QED BY <3>3, <3>4, <3>5, <3>6, <3>7
  <2>. QED BY <2>2, <2>3
<1>6. hpc = "first" \/ Looping
  BY <1>2, HostFacts DEF Looping
<1>. QED BY <1>3, <1>4, <1>5, <1>6

\* What is at the head of the other stream.
LEMMA ReadHead ==
  ASSUME HostInv, ChunksInv, EventsInv, NEW prev, Count > 0 => prev \in Addresses,
         Rest(queue[read_stream], ReadOps(prev)), queue[read_stream] # <<>>
  PROVE  LET o == Head(queue[read_stream])
             left == Len(queue[read_stream])
         IN  /\ hpc # "setup" /\ left \in Nat \ {0}
             /\ \/ Count = 0 /\ o = Wait(1)
                \/ CharsLeft(prev) /\ o = CopyChars([buffer |-> prev])
                \/ \E e : o = Record(e)
                \/ /\ hpc = "sync" /\ next_chunk # NoChunk /\ left = 2
                   /\ o = Upload((Count + 1) % num_tickets, next_chunk.buffer)
<1>. DEFINE q == queue[read_stream]
            left == Len(q)
            f == ReadOps(prev)
            L == Len(f)
            i == L - left + 1
            b == IF Count = 0 THEN 1 ELSE 2
            g1 == f[b + 1]
            g2 == f[b + 2]
<1>. HIDE DEF q
<1>1. left \in Nat \ {0} /\ left <= L /\ Head(q) = f[i] /\ L \in Nat
  BY RestPop, EmptySeq, LenProperties DEF Rest, q
<1>2. /\ hpc = "setup" => L = 0
      /\ hpc # "setup" /\ Count = 0 => f[1] = Wait(1)
      /\ Count # 0 => f[1] = CopyChars([buffer |-> prev]) /\ f[2] = Record(last_launch_event)
  BY ReadAt
<1>3. /\ hpc \in {"first", "loop", "read"} => L = b
      /\ Joining => L = b + 1 /\ \E e : g1 = Record(e)
      /\ hpc = "sync" /\ next_chunk = NoChunk => L = b + 1 /\ \E e : g1 = Record(e)
      /\ hpc = "sync" /\ next_chunk # NoChunk =>
           /\ L = b + 2 /\ g1 = Upload((Count + 1) % num_tickets, next_chunk.buffer)
           /\ \E e : g2 = Record(e)
  BY ReadAt
<1>4. Count \in Nat
  BY HostFacts
<1>5. /\ b = 1 \/ b = 2
      /\ b \in Nat
      /\ b = 1 <=> Count = 0
  BY <1>4
<1>6. hpc # "setup"
  BY <1>1, <1>2
<1>7. hpc \in {"first", "loop", "read", "sync"} \/ Joining
  BY <1>6, HostFacts DEF Joining
<1>8. i \in Int /\ left = L - i + 1 /\ 1 <= i /\ i <= L
  BY <1>1
<1>9. g1 = f[b + 1] /\ g2 = f[b + 2]
  OBVIOUS
<1>. HIDE DEF f, L, left, i, b, g1, g2
<1>10. i = 1 \/ (i = 2 /\ b = 2) \/ i = b + 1 \/ i = b + 2 \/ i > b + 2
  BY <1>5, <1>8
<1>11. CASE i = 1 /\ Count = 0
  BY <1>1, <1>2, <1>6, <1>11 DEF q, left
<1>12. CASE i = 1 /\ Count # 0
  <2>1. left = L /\ Head(q) = CopyChars([buffer |-> prev]) /\ Count > 0
    BY <1>1, <1>2, <1>4, <1>8, <1>12
  <2>. QED BY <1>1, <1>6, <2>1 DEF CharsLeft, q, left, f, L
<1>13. CASE i = 2 /\ b = 2
  <2>1. Head(q) = Record(last_launch_event)
    BY <1>1, <1>2, <1>5, <1>13
  <2>. QED BY <1>1, <1>6, <2>1 DEF q, left
<1>14. CASE i = b + 1
  <2>1. Head(q) = g1
    BY <1>1, <1>9, <1>14
  <2>2. L # b
    BY <1>5, <1>8, <1>14
  <2>3. CASE \E e : g1 = Record(e)
    BY <1>1, <1>6, <2>1, <2>3 DEF q, left
  <2>4. CASE ~ \E e : g1 = Record(e)
    <3>1. /\ hpc = "sync" /\ next_chunk # NoChunk /\ L = b + 2
          /\ g1 = Upload((Count + 1) % num_tickets, next_chunk.buffer)
      BY <1>3, <1>7, <2>2, <2>4
    <3>2. left = 2
      BY <1>5, <1>8, <1>14, <3>1
    <3>. QED BY <1>1, <1>6, <2>1, <3>1, <3>2 DEF q, left
  <2>. QED BY <2>3, <2>4
<1>15. CASE i = b + 2
  <2>1. Head(q) = g2
    BY <1>1, <1>9, <1>15
  <2>2. L # b /\ L # b + 1
    BY <1>5, <1>8, <1>15
  <2>3. \E e : g2 = Record(e)
    BY <1>3, <1>7, <2>2
  <2>. QED BY <1>1, <1>6, <2>1, <2>3 DEF q, left
<1>16. CASE i > b + 2
  <2>1. L # b /\ L # b + 1 /\ L # b + 2
    BY <1>5, <1>8, <1>16
  <2>. QED BY <1>3, <1>7, <2>1
<1>. QED BY <1>4, <1>10, <1>11, <1>12, <1>13, <1>14, <1>15, <1>16

\* What the operation at the head of a stream says about where the streams are.
LEMMA HeadIs ==
  ASSUME NEW prev, PInv(prev), NEW s \in Streams, queue[s] # <<>>
  PROVE  LET o == Head(queue[s])
             left == Len(queue[s])
         IN  /\ hpc # "setup" /\ left \in Nat \ {0}
             /\ o.op = "init" =>
                  \/ s = "main" /\ left = Len(MainOps) /\ o = Oob((0 - TILES_PER_CHUNK) .. -1)
                  \/ s = scan_stream /\ Scanning /\ left = 3 /\ o = Reset(Tiles)
             /\ o.op = "seed" => s = "main" /\ left = Len(MainOps) - 1
             /\ o.op = "upload" =>
                  \/ /\ s = scan_stream /\ left = Len(ScanOps) - 1 /\ Looping /\ chunk # NoChunk
                     /\ o = Upload(Count % num_tickets, chunk.buffer)
                  \/ /\ s = read_stream /\ hpc = "sync" /\ next_chunk # NoChunk /\ left = 2
                     /\ o = Upload((Count + 1) % num_tickets, next_chunk.buffer)
             /\ o.op = "chars" =>
                  s = read_stream /\ CharsLeft(prev) /\ o = CopyChars([buffer |-> prev])
             /\ o.op = "gather" => s = "main" /\ Joining /\ left = 1
             /\ o.op = "scan" => s = scan_stream /\ Scanning /\ left = 1 /\ o = Scan(Tiles, chunk)
             /\ o.op = "wait" =>
                  \/ s = "main" /\ Joining /\ left = 3 /\ o.event = records - 1
                  \/ s = "main" /\ Joining /\ left = 2 /\ o.event = records
                  \/ s = scan_stream /\ left = Len(ScanOps) /\ o.event = 1
                  \/ s = scan_stream /\ Scanning /\ left = 2 /\ o.event = last_launch_event
                  \/ s = read_stream
<1>. DEFINE q == queue[s]
            o == Head(q)
            left == Len(q)
<1>1. /\ HostInv /\ ChunksInv /\ EventsInv
      /\ Rest(queue["main"], MainOps) /\ Rest(queue[scan_stream], ScanOps)
      /\ Rest(queue[read_stream], ReadOps(prev))
      /\ Count > 0 => prev \in Addresses
  BY DEF PInv, Queues, DataInv
<1>2. s = "main" \/ s = scan_stream \/ s = read_stream
  BY <1>1, HostFacts
<1>3. scan_stream # read_stream /\ scan_stream # "main" /\ read_stream # "main"
  BY <1>1, HostFacts
<1>4. CASE s = "main"
  <2>1. /\ hpc # "setup" /\ left \in Nat \ {0}
        /\ \/ left = Len(MainOps) /\ o = Oob((0 - TILES_PER_CHUNK) .. -1)
           \/ left = Len(MainOps) - 1 /\ o = Seed
           \/ left = Len(MainOps) - 2 /\ o = Record(1)
           \/ Joining /\ left = 3 /\ o = Wait(records - 1)
           \/ Joining /\ left = 2 /\ o = Wait(records)
           \/ Joining /\ left = 1 /\ o = GatherOp
    BY <1>1, <1>4, MainHead
  <2>. HIDE DEF o, left
  <2>2. CASE left = Len(MainOps) /\ o = Oob((0 - TILES_PER_CHUNK) .. -1)
    BY <1>4, <2>1, <2>2, Kinds DEF o, left
  <2>3. CASE left = Len(MainOps) - 1 /\ o = Seed
    BY <1>4, <2>1, <2>3, Kinds DEF o, left
  <2>4. CASE o = Record(1)
    BY <1>4, <2>1, <2>4, Kinds DEF o, left
  <2>5. CASE Joining /\ left = 3 /\ o = Wait(records - 1)
    BY <1>4, <2>1, <2>5, Kinds DEF o, left
  <2>6. CASE Joining /\ left = 2 /\ o = Wait(records)
    BY <1>4, <2>1, <2>6, Kinds DEF o, left
  <2>7. CASE Joining /\ left = 1 /\ o = GatherOp
    BY <1>4, <2>1, <2>7, Kinds DEF o, left
  <2>. QED BY <2>1, <2>2, <2>3, <2>4, <2>5, <2>6, <2>7
<1>5. CASE s = scan_stream
  <2>1. /\ hpc # "setup" /\ left \in Nat \ {0}
        /\ \/ left = Len(ScanOps) /\ o = Wait(1)
           \/ /\ left = Len(ScanOps) - 1 /\ o = Upload(Count % num_tickets, chunk.buffer)
              /\ Looping /\ chunk # NoChunk
           \/ \E e : o = Record(e)
           \/ Scanning /\ left = 3 /\ o = Reset(Tiles)
           \/ Scanning /\ left = 2 /\ o = Wait(last_launch_event)
           \/ Scanning /\ left = 1 /\ o = Scan(Tiles, chunk)
    BY <1>1, <1>5, ScanHead
  <2>. HIDE DEF o, left
  <2>2. CASE left = Len(ScanOps) /\ o = Wait(1)
    BY <1>5, <2>1, <2>2, Kinds DEF o, left
  <2>3. CASE /\ left = Len(ScanOps) - 1 /\ o = Upload(Count % num_tickets, chunk.buffer)
             /\ Looping /\ chunk # NoChunk
    BY <1>5, <2>1, <2>3, Kinds DEF o, left
  <2>4. CASE \E e : o = Record(e)
    BY <1>5, <2>1, <2>4, Kinds DEF o, left
  <2>5. CASE Scanning /\ left = 3 /\ o = Reset(Tiles)
    BY <1>5, <2>1, <2>5, Kinds DEF o, left
  <2>6. CASE Scanning /\ left = 2 /\ o = Wait(last_launch_event)
    BY <1>5, <2>1, <2>6, Kinds DEF o, left
  <2>7. CASE Scanning /\ left = 1 /\ o = Scan(Tiles, chunk)
    BY <1>5, <2>1, <2>7, Kinds DEF o, left
  <2>. QED BY <2>1, <2>2, <2>3, <2>4, <2>5, <2>6, <2>7
<1>6. CASE s = read_stream
  <2>1. /\ hpc # "setup" /\ left \in Nat \ {0}
        /\ \/ Count = 0 /\ o = Wait(1)
           \/ CharsLeft(prev) /\ o = CopyChars([buffer |-> prev])
           \/ \E e : o = Record(e)
           \/ /\ hpc = "sync" /\ next_chunk # NoChunk /\ left = 2
              /\ o = Upload((Count + 1) % num_tickets, next_chunk.buffer)
    BY <1>1, <1>6, ReadHead
  <2>. HIDE DEF o, left
  <2>2. CASE o = Wait(1)
    BY <1>6, <2>1, <2>2, Kinds DEF o, left
  <2>3. CASE CharsLeft(prev) /\ o = CopyChars([buffer |-> prev])
    BY <1>6, <2>1, <2>3, Kinds DEF o, left
  <2>4. CASE \E e : o = Record(e)
    BY <1>6, <2>1, <2>4, Kinds DEF o, left
  <2>5. CASE /\ hpc = "sync" /\ next_chunk # NoChunk /\ left = 2
             /\ o = Upload((Count + 1) % num_tickets, next_chunk.buffer)
    BY <1>6, <2>1, <2>5, Kinds DEF o, left
  <2>. QED BY <2>1, <2>2, <2>3, <2>4, <2>5
<1>. QED BY <1>2, <1>4, <1>5, <1>6

\* An operation is taken from a stream, and the host does nothing.
LEMMA HostKept ==
  ASSUME UNCHANGED hostVars
  PROVE  /\ Count' = Count /\ Tiles' = Tiles /\ (Scanning' <=> Scanning)
         /\ (Joining' <=> Joining) /\ (Looping' <=> Looping)
         /\ MainOps' = MainOps /\ ScanOps' = ScanOps /\ \A p : ReadOps(p)' = ReadOps(p)
         /\ HostInv => HostInv'
         /\ ChunksInv => ChunksInv'
BY DEF hostVars, Count, Tiles, TilesOf, Scanning, Joining, Looping, MainOps, ScanOps, ReadOps,
       Reading, JoinRecord, JoinEvent, HostInv, ChunksInv, ChunkIs

\* The queues stay what is left of the same operations, and the records that are
\* left are still to come.
LEMMA PopKeeps ==
  ASSUME NEW prev, PInv(prev), NEW s \in Streams, queue[s] # <<>>, Pop(s), UNCHANGED hostVars,
         \/ complete' = complete
         \/ /\ Head(queue[s]).op = "record"
            /\ complete' = complete \cup {Head(queue[s]).event}
  PROVE  /\ queue' \in [Streams -> Seq(Operation)]
         /\ Queues(prev)' /\ HostInv' /\ ChunksInv' /\ EventsInv'
         /\ Len(queue'[s]) = Len(queue[s]) - 1
         /\ \A r \in Streams \ {s} : queue'[r] = queue[r]
         /\ \A r \in Streams : Len(queue[r]) \in Nat /\ Len(queue'[r]) \in Nat
<1>1. /\ HostInv /\ ChunksInv /\ EventsInv /\ queue \in [Streams -> Seq(Operation)]
      /\ Rest(queue["main"], MainOps) /\ Rest(queue[scan_stream], ScanOps)
      /\ Rest(queue[read_stream], ReadOps(prev))
  BY DEF PInv, Queues, Shape
<1>2. scan_stream' = scan_stream /\ read_stream' = read_stream /\ records' = records
      /\ ticket_event' = ticket_event /\ last_launch_event' = last_launch_event
  BY DEF hostVars
<1>3. scan_stream # read_stream /\ scan_stream # "main" /\ read_stream # "main"
      /\ Streams = {"main", scan_stream, read_stream}
  BY <1>1, HostFacts
<1>4. \E f : Rest(queue[s], f)
  BY <1>1, <1>3
<1>5. \A f : Rest(queue[s], f) => Rest(Tail(queue[s]), f)
  BY RestPop
<1>6. /\ Tail(queue[s]) \in Seq(Operation) /\ Len(Tail(queue[s])) = Len(queue[s]) - 1
      /\ Head(queue[s]) = queue[s][1] /\ 1 \in 1 .. Len(queue[s])
      /\ \A j \in 1 .. Len(Tail(queue[s])) :
           j + 1 \in 1 .. Len(queue[s]) /\ Tail(queue[s])[j] = queue[s][j + 1]
  <2>1. PICK f : Rest(queue[s], f)
    BY <1>4
  <2>2. Len(queue[s]) \in Nat
    BY <1>1, LenProperties
  <2>. QED BY <2>1, <2>2, RestPop DEF Rest
<1>7. queue' = [queue EXCEPT ![s] = Tail(queue[s])]
  BY DEF Pop
<1>8. /\ queue' \in [Streams -> Seq(Operation)] /\ queue'[s] = Tail(queue[s])
      /\ \A r \in Streams \ {s} : queue'[r] = queue[r]
  BY <1>1, <1>6, <1>7
<1>9. Queues(prev)'
  <2>1. Rest(queue'["main"], MainOps)
    BY <1>1, <1>3, <1>5, <1>8
  <2>2. Rest(queue'[scan_stream], ScanOps)
    BY <1>1, <1>3, <1>5, <1>8
  <2>3. Rest(queue'[read_stream], ReadOps(prev))
    BY <1>1, <1>3, <1>5, <1>8
  <2>4. MainOps' = MainOps /\ ScanOps' = ScanOps /\ ReadOps(prev)' = ReadOps(prev)
    BY HostKept
  <2>. QED BY <1>2, <2>1, <2>2, <2>3, <2>4 DEF Queues, Rest
<1>10. HostInv' /\ ChunksInv'
  BY <1>1, HostKept
<1>11. \A r \in Streams : Len(queue[r]) \in Nat /\ Len(queue'[r]) \in Nat
  BY <1>1, <1>8, LenProperties
<1>12. EventsInv'
  <2>. DEFINE from(r, j) == IF r = s THEN j + 1 ELSE j
  <2>1. \A r \in Streams : \A j \in 1 .. Len(queue'[r]) :
          from(r, j) \in 1 .. Len(queue[r]) /\ queue'[r][j] = queue[r][from(r, j)]
    BY <1>6, <1>8
  <2>2. \A j \in 1 .. Len(queue'[s]) : from(s, j) # 1
    BY <1>11
  <2>3. \A r \in Streams : \A j \in 1 .. Len(queue'[r]), k \in 1 .. Len(queue'[r]) :
          from(r, j) = from(r, k) => j = k
    BY <1>11
  <2>. DEFINE o == Head(queue[s])
  <2>4. /\ records \in Nat /\ last_launch_event \in 0 .. records /\ complete \subseteq 0 .. records
        /\ ticket_event \in [0 .. num_tickets - 1 -> Int]
        /\ \A r \in Streams : \A j \in 1 .. Len(queue[r]) :
             queue[r][j].op = "record" => queue[r][j].event \in (1 .. records) \ complete
        /\ \A r, x \in Streams : \A j \in 1 .. Len(queue[r]), k \in 1 .. Len(queue[x]) :
             queue[r][j].op = "record" /\ queue[x][k] = queue[r][j] => r = x /\ j = k
    BY <1>1 DEF EventsInv
  <2>5. o = queue[s][1] /\ 1 \in 1 .. Len(queue[s])
    BY <1>6
  <2>6. complete' \subseteq 0 .. records
    BY <2>4, <2>5
  <2>7. \A r \in Streams : \A j \in 1 .. Len(queue[r]) : queue[r][j] \in Operation
    BY <1>1, ElementOfSeq
  <2>8. \A x, y \in Operation : x.op = "record" /\ y.op = "record" /\ x.event = y.event => x = y
    BY DEF Operation
  <2>. HIDE DEF from, o
  <2>9. ASSUME NEW r \in Streams, NEW j \in 1 .. Len(queue'[r]), queue'[r][j].op = "record"
        PROVE  queue'[r][j].event \in (1 .. records) \ complete'
    <3>. DEFINE k == from(r, j)
    <3>1. /\ k \in 1 .. Len(queue[r]) /\ queue'[r][j] = queue[r][k]
          /\ r = s => k # 1
      BY <2>1, <2>2
    <3>. HIDE DEF k
    <3>2. queue[r][k].event \in (1 .. records) \ complete
      BY <2>4, <2>9, <3>1
    <3>3. ASSUME o.op = "record", o.event = queue[r][k].event PROVE FALSE
      <4>1. queue[r][k] = queue[s][1]
        BY <2>5, <2>7, <2>8, <2>9, <3>1, <3>3
      <4>2. queue[s][1].op = "record"
        BY <2>5, <3>3
      <4>. QED BY <2>4, <2>5, <3>1, <4>1, <4>2
    <3>. QED BY <3>1, <3>2, <3>3 DEF o
  <2>10. ASSUME NEW r \in Streams, NEW x \in Streams, NEW j \in 1 .. Len(queue'[r]),
                NEW k \in 1 .. Len(queue'[x]), queue'[r][j].op = "record",
                queue'[x][k] = queue'[r][j]
         PROVE  r = x /\ j = k
    <3>1. /\ from(r, j) \in 1 .. Len(queue[r]) /\ queue'[r][j] = queue[r][from(r, j)]
          /\ from(x, k) \in 1 .. Len(queue[x]) /\ queue'[x][k] = queue[x][from(x, k)]
      BY <2>1
    <3>2. r = x /\ from(r, j) = from(x, k)
      BY <2>4, <2>10, <3>1
    <3>. QED BY <2>3, <3>2
  <2>. QED BY <1>2, <2>4, <2>6, <2>9, <2>10 DEF EventsInv
<1>. QED BY <1>6, <1>8, <1>9, <1>10, <1>11, <1>12

\* What the place of the streams says about the operation at the head.
LEMMA HeadAt ==
  ASSUME NEW prev, PInv(prev), NEW s \in Streams, queue[s] # <<>>
  PROVE  LET o == Head(queue[s])
             left == Len(queue[s])
         IN  /\ s = scan_stream /\ left = Len(ScanOps) => o = Wait(1)
             /\ s = scan_stream /\ Looping /\ chunk # NoChunk /\ left = Len(ScanOps) - 1 =>
                  o = Upload(Count % num_tickets, chunk.buffer)
             /\ s = scan_stream /\ Scanning /\ left = 3 => o = Reset(Tiles)
             /\ s = scan_stream /\ Scanning /\ left = 2 => o = Wait(last_launch_event)
             /\ s = scan_stream /\ Scanning /\ left = 1 => o = Scan(Tiles, chunk)
             /\ s = read_stream /\ CharsLeft(prev) => o = CopyChars([buffer |-> prev])
             /\ s = read_stream /\ hpc = "first" /\ left = 1 => o = Wait(1)
             /\ s = read_stream /\ hpc = "sync" /\ next_chunk # NoChunk /\ left = 2 =>
                  o = Upload((Count + 1) % num_tickets, next_chunk.buffer)
             /\ s = "main" /\ left = Len(MainOps) - 1 => o = Seed
             /\ s = "main" /\ Joining /\ left = 3 => o = Wait(records - 1)
             /\ s = "main" /\ Joining /\ left = 2 => o = Wait(records)
             /\ s = "main" /\ Joining /\ left = 1 => o = GatherOp
<1>. DEFINE o == Head(queue[s])
            left == Len(queue[s])
<1>1. /\ HostInv /\ ChunksInv /\ EventsInv
      /\ Rest(queue["main"], MainOps) /\ Rest(queue[scan_stream], ScanOps)
      /\ Rest(queue[read_stream], ReadOps(prev))
      /\ Count > 0 => prev \in Addresses
  BY DEF PInv, Queues, DataInv
<1>2. records \in Nat /\ Count \in Nat
  BY <1>1, HostFacts
<1>3. left \in Nat \ {0}
  BY HeadIs
<1>4. hpc # "setup"
  BY HeadIs
<1>5. ASSUME s = scan_stream PROVE o = ScanOps[Len(ScanOps) - left + 1]
  BY <1>1, <1>5, RestPop
<1>6. ASSUME s = read_stream PROVE o = ReadOps(prev)[Len(ReadOps(prev)) - left + 1]
  BY <1>1, <1>6, RestPop
<1>7. ASSUME s = "main" PROVE o = MainOps[Len(MainOps) - left + 1]
  BY <1>1, <1>7, RestPop
<1>8. Len(ScanOps) \in Nat /\ Len(MainOps) \in Nat /\ Len(ReadOps(prev)) \in Nat
  BY <1>1, LenProperties DEF Rest
<1>. HIDE DEF o, left
<1>9. ASSUME s = scan_stream, left = Len(ScanOps) PROVE o = Wait(1)
  <2>1. o = ScanOps[1]
    BY <1>5, <1>8, <1>9
  <2>. QED BY <1>1, <1>4, <2>1, ScanAt
<1>10. ASSUME s = scan_stream, Looping, chunk # NoChunk, left = Len(ScanOps) - 1
       PROVE  o = Upload(Count % num_tickets, chunk.buffer)
  <2>1. o = ScanOps[2]
    BY <1>5, <1>8, <1>10
  <2>. QED BY <1>1, <1>10, <2>1, ScanAt
<1>11. ASSUME s = scan_stream, Scanning
       PROVE  /\ left = 3 => o = Reset(Tiles)
              /\ left = 2 => o = Wait(last_launch_event)
              /\ left = 1 => o = Scan(Tiles, chunk)
  <2>1. Len(ScanOps) = 6
    BY <1>1, <1>11, ScanAt
  <2>2. ScanOps[4] = Reset(Tiles) /\ ScanOps[5] = Wait(last_launch_event)
        /\ ScanOps[6] = Scan(Tiles, chunk)
    BY <1>1, <1>11, ScanAt
  <2>3. left = 3 => o = ScanOps[4]
    BY <1>5, <1>11, <2>1
  <2>4. left = 2 => o = ScanOps[5]
    BY <1>5, <1>11, <2>1
  <2>5. left = 1 => o = ScanOps[6]
    BY <1>5, <1>11, <2>1
  <2>. QED BY <2>2, <2>3, <2>4, <2>5
<1>12. ASSUME s = read_stream, CharsLeft(prev) PROVE o = CopyChars([buffer |-> prev])
  <2>1. Count # 0 /\ left = Len(ReadOps(prev))
    BY <1>2, <1>12 DEF CharsLeft, left
  <2>2. o = ReadOps(prev)[1]
    BY <1>6, <1>8, <1>12, <2>1
  <2>. QED BY <1>1, <2>1, <2>2, ReadAt
<1>13. ASSUME s = read_stream, hpc = "sync", next_chunk # NoChunk, left = 2
       PROVE  o = Upload((Count + 1) % num_tickets, next_chunk.buffer)
  <2>. DEFINE b == IF Count = 0 THEN 1 ELSE 2
              f == ReadOps(prev)
  <2>1. Len(f) = b + 2 /\ f[b + 1] = Upload((Count + 1) % num_tickets, next_chunk.buffer)
    BY <1>1, <1>13, ReadAt
  <2>2. b \in Nat /\ o = f[Len(f) - left + 1]
    BY <1>6, <1>13
  <2>. HIDE DEF b, f
  <2>3. Len(f) - left + 1 = b + 1
    BY <1>13, <2>1, <2>2
  <2>. QED BY <2>1, <2>2, <2>3
<1>14. ASSUME s = "main", left = Len(MainOps) - 1 PROVE o = Seed
  <2>1. o = MainOps[2]
    BY <1>7, <1>8, <1>14
  <2>. QED BY <1>2, <1>4, <2>1, MainAt
<1>15. ASSUME s = "main", Joining
       PROVE  /\ left = 3 => o = Wait(records - 1)
              /\ left = 2 => o = Wait(records)
              /\ left = 1 => o = GatherOp
  <2>1. Len(MainOps) = 6
    BY <1>2, <1>15, MainAt
  <2>2. MainOps[4] = Wait(records - 1) /\ MainOps[5] = Wait(records) /\ MainOps[6] = GatherOp
    BY <1>2, <1>15, MainAt
  <2>3. left = 3 => o = MainOps[4]
    BY <1>7, <1>15, <2>1
  <2>4. left = 2 => o = MainOps[5]
    BY <1>7, <1>15, <2>1
  <2>5. left = 1 => o = MainOps[6]
    BY <1>7, <1>15, <2>1
  <2>. QED BY <2>2, <2>3, <2>4, <2>5
<1>16. ASSUME s = read_stream, hpc = "first", left = 1 PROVE o = Wait(1)
  <2>1. Count = 0
    BY <1>1, <1>16 DEF HostInv, Looping
  <2>2. Len(ReadOps(prev)) = 1
    BY <1>1, <1>2, <1>16, <2>1, ReadAt
  <2>3. o = ReadOps(prev)[1]
    BY <1>6, <1>16, <2>2
  <2>. QED BY <1>1, <1>4, <2>1, <2>3, ReadAt
<1>. QED BY <1>9, <1>10, <1>11, <1>12, <1>13, <1>14, <1>15, <1>16 DEF o, left

\* An operation is carried out and taken from its stream.
Taken(s) == \/ RunEvent(s) \/ RunInit(s) \/ RunSeed(s) \/ RunUpload(s) \/ RunChars(s)
            \/ RunGather(s) \/ EndScan(s)

LEMMA Effects ==
  ASSUME NEW s, Taken(s)
  PROVE  LET o == Head(queue[s])
         IN  /\ queue[s] # <<>> /\ Pop(s) /\ UNCHANGED hostVars
             /\ o.op \in {"record", "wait", "init", "seed", "upload", "chars", "gather", "scan"}
             /\ \/ complete' = complete
                \/ o.op = "record" /\ complete' = complete \cup {o.event}
             /\ o.op = "wait" => o.event \in complete
             /\ tile_partial' = tile_partial /\ block' = block
             /\ o.op = "init" =>
                  tile_status' = [i \in DOMAIN tile_status |->
                                    IF i \in {Slot(t) : t \in o.tiles} THEN o.status
                                    ELSE tile_status[i]]
             /\ o.op = "seed" =>
                  tile_status' = [tile_status EXCEPT ![Slot(-1)] = "inclusive"]
                  /\ tile_inclusive' = [tile_inclusive EXCEPT ![Slot(-1)] = <<>>]
             /\ o.op \notin {"init", "seed"} => tile_status' = tile_status
             /\ o.op # "seed" => tile_inclusive' = tile_inclusive
             /\ o.op = "upload" => memory' = [memory EXCEPT ![o.buffer] = tickets[o.ticket]]
             /\ o.op # "upload" => memory' = memory
             /\ o.op = "chars" => char_storage' = Append(char_storage, memory[o.buffer])
             /\ o.op # "chars" => char_storage' = char_storage
             /\ o.op = "gather" => output' = char_storage
             /\ o.op # "gather" => output' = output
             /\ o.op = "scan" => launched = o.tiles /\ launched' = {}
                                 /\ \A t \in launched : block[t].pc = "done"
             /\ o.op # "scan" => launched' = launched
<1>1. CASE RunEvent(s)
  BY <1>1 DEF RunEvent, Heads, scanVars
<1>2. CASE RunInit(s)
  BY <1>2 DEF RunInit, Heads
<1>3. CASE RunSeed(s)
  BY <1>3 DEF RunSeed, Heads
<1>4. CASE RunUpload(s)
  BY <1>4 DEF RunUpload, Heads, scanVars
<1>5. CASE RunChars(s)
  BY <1>5 DEF RunChars, Heads, scanVars
<1>6. CASE RunGather(s)
  BY <1>6 DEF RunGather, Heads, scanVars
<1>7. CASE EndScan(s)
  BY <1>7 DEF EndScan, Heads
<1>. QED BY <1>1, <1>2, <1>3, <1>4, <1>5, <1>6, <1>7 DEF Taken

\* When both streams are joined, the characters of every chunk were copied.
LEMMA JoinDone ==
  ASSUME NEW prev, PInv(prev), Joining, records \in complete, records - 1 \in complete
  PROVE  ~CharsLeft(prev)
<1>. DEFINE q == queue[read_stream]
            f == ReadOps(prev)
            b == IF Count = 0 THEN 1 ELSE 2
<1>1. /\ HostInv /\ ChunksInv /\ EventsInv /\ Rest(q, f)
      /\ Count > 0 => prev \in Addresses
  BY DEF PInv, Queues, DataInv
<1>2. SUFFICES ASSUME CharsLeft(prev) PROVE FALSE
  OBVIOUS
<1>3. Len(f) = b + 1 /\ f[b + 1] = Record(JoinEvent(read_stream))
  BY <1>1, ReadAt
<1>4. Len(q) = Len(f)
  BY <1>2 DEF CharsLeft
<1>5. b \in Nat
  OBVIOUS
<1>. HIDE DEF q, f, b
<1>6. \A j \in 1 .. Len(q) : q[j] = f[Len(f) - Len(q) + j]
  BY <1>1 DEF Rest
<1>7. b + 1 \in 1 .. Len(q) /\ Len(f) - Len(q) + (b + 1) = b + 1
  BY <1>3, <1>4, <1>5
<1>8. q[b + 1] = Record(JoinEvent(read_stream))
  BY <1>3, <1>6, <1>7
<1>9. read_stream \in Streams
  BY <1>1, HostFacts
<1>10. JoinEvent(read_stream) \notin complete
  BY <1>1, <1>7, <1>8, <1>9, Kinds DEF EventsInv, q
<1>. QED BY <1>10 DEF JoinEvent

LEMMA PopWaits ==
  ASSUME NEW prev, PInv(prev), NEW s \in Streams, Taken(s)
  PROVE  WaitsInv'
<1>. DEFINE o == Head(queue[s])
            left == Len(queue[s])
            scan == Len(queue[scan_stream])
            main == Len(queue["main"])
<1>1. WaitsInv /\ HostInv /\ ChunksInv /\ EventsInv
  BY DEF PInv
<1>2. queue[s] # <<>> /\ Pop(s) /\ UNCHANGED hostVars
      /\ (\/ complete' = complete
          \/ o.op = "record" /\ complete' = complete \cup {o.event})
      /\ (o.op = "wait" => o.event \in complete)
      /\ (o.op = "gather" => output' = char_storage) /\ (o.op # "gather" => output' = output)
  BY Effects
<1>3. complete \subseteq complete'
  BY <1>2
<1>4. /\ Len(queue'[s]) = left - 1
      /\ \A r \in Streams \ {s} : queue'[r] = queue[r]
      /\ \A r \in Streams : Len(queue[r]) \in Nat
  BY <1>2, PopKeeps
<1>5. hpc' = hpc /\ scan_stream' = scan_stream /\ last_launch_event' = last_launch_event
      /\ records' = records
  BY <1>2 DEF hostVars
<1>6. Count' = Count /\ ScanOps' = ScanOps /\ (Looping' <=> Looping) /\ (Joining' <=> Joining)
      /\ (Scanning' <=> Scanning)
  BY <1>2, HostKept
<1>7. scan_stream \in Streams /\ "main" \in Streams
  BY <1>1, HostFacts
<1>8. scan \in Nat /\ main \in Nat /\ left \in Nat
      /\ (Len(queue'[scan_stream]) = IF s = scan_stream THEN scan - 1 ELSE scan)
      /\ (Len(queue'["main"]) = IF s = "main" THEN main - 1 ELSE main)
  BY <1>4, <1>7
<1>9. /\ s = scan_stream /\ left = Len(ScanOps) => o = Wait(1)
      /\ s = scan_stream /\ Scanning /\ left = 2 => o = Wait(last_launch_event)
      /\ s = "main" /\ Joining /\ left = 3 => o = Wait(records - 1)
      /\ s = "main" /\ Joining /\ left = 2 => o = Wait(records)
      /\ s = "main" /\ Joining /\ left = 1 => o = GatherOp
  BY <1>2, HeadAt
<1>16. /\ s = scan_stream => left = scan
       /\ s = "main" => left = main
  OBVIOUS
<1>17. left # 0
  BY <1>2, HeadIs
<1>18. Scanning /\ scan < 2 => last_launch_event \in complete
  BY <1>1 DEF WaitsInv
<1>19. Joining => /\ main < 3 => records - 1 \in complete
                  /\ main < 2 => records \in complete
                  /\ main < 1 => output = Upto(Count)
  BY <1>1 DEF WaitsInv
<1>20. Looping => 1 \in complete \/ (Count = 0 /\ scan = Len(ScanOps))
  BY <1>1 DEF WaitsInv
<1>. DEFINE scanAfter == Len(queue'[scan_stream])
            mainAfter == Len(queue'["main"])
<1>21. /\ scanAfter = IF s = scan_stream THEN scan - 1 ELSE scan
       /\ mainAfter = IF s = "main" THEN main - 1 ELSE main
  BY <1>8
<1>. HIDE DEF left, scan, main, scanAfter, mainAfter
<1>10. \A x : o = Wait(x) => x \in complete
  BY <1>2, Kinds
<1>11. Looping => 1 \in complete' \/ (Count = 0 /\ scanAfter = Len(ScanOps))
  <2>1. CASE s = scan_stream /\ scan = Len(ScanOps)
    BY <1>3, <1>9, <1>10, <1>16, <2>1
  <2>2. CASE s = scan_stream /\ scan # Len(ScanOps)
    BY <1>3, <1>20, <2>2
  <2>3. CASE s # scan_stream
    BY <1>3, <1>20, <1>21, <2>3
  <2>. QED BY <2>1, <2>2, <2>3
<1>12. Scanning /\ scanAfter < 2 => last_launch_event \in complete'
  <2>1. CASE s = scan_stream /\ scan = 2
    BY <1>3, <1>9, <1>10, <1>16, <2>1
  <2>2. CASE ~(s = scan_stream /\ scan = 2)
    <3>1. scanAfter < 2 => scan < 2
      BY <1>8, <1>21, <2>2
    <3>. QED BY <1>3, <1>18, <3>1
  <2>. QED BY <2>1, <2>2
<1>13. Joining => /\ mainAfter < 3 => records - 1 \in complete'
                  /\ mainAfter < 2 => records \in complete'
  <2>. SUFFICES ASSUME Joining
                PROVE  /\ mainAfter < 3 => records - 1 \in complete'
                       /\ mainAfter < 2 => records \in complete'
    OBVIOUS
  <2>1. CASE s = "main" /\ main = 3
    <3>1. records - 1 \in complete' /\ mainAfter = 2
      BY <1>3, <1>9, <1>10, <1>16, <1>21, <2>1
    <3>. QED BY <3>1
  <2>2. CASE s = "main" /\ main = 2
    <3>1. records - 1 \in complete
      BY <1>19, <2>2
    <3>. QED BY <1>3, <1>9, <1>10, <1>16, <2>2, <3>1
  <2>3. CASE s = "main" /\ main # 3 /\ main # 2
    <3>1. (mainAfter < 3 => main < 3) /\ (mainAfter < 2 => main < 2)
      BY <1>8, <1>21, <2>3
    <3>. QED BY <1>3, <1>19, <3>1
  <2>4. CASE s # "main"
    <3>1. mainAfter = main
      BY <1>21, <2>4
    <3>. QED BY <1>3, <1>19, <3>1
  <2>. QED BY <2>1, <2>2, <2>3, <2>4
<1>14. Joining /\ mainAfter < 1 => output' = Upto(Count)
  <2>. SUFFICES ASSUME Joining, mainAfter < 1 PROVE output' = Upto(Count)
    OBVIOUS
  <2>1. CASE s = "main"
    <3>1. left = 1 /\ main = 1
      BY <1>8, <1>16, <1>17, <1>21, <2>1
    <3>2. o = GatherOp
      BY <1>9, <2>1, <3>1
    <3>3. output' = char_storage
      BY <1>2, <3>2, Kinds
    <3>4. records - 1 \in complete /\ records \in complete
      BY <1>19, <3>1
    <3>5. char_storage = Upto(Count)
      BY <3>4, JoinDone DEF PInv, DataInv
    <3>. QED BY <3>3, <3>5
  <2>2. CASE s # "main"
    <3>1. main < 1
      BY <1>21, <2>2
    <3>2. output = Upto(Count)
      BY <1>19, <3>1
    <3>3. o.op # "gather"
      BY <1>2, <2>2, HeadIs
    <3>. QED BY <1>2, <3>2, <3>3
  <2>. QED BY <2>1, <2>2
<1>15. hpc = "done" => queue'["main"] = <<>>
  <2>. SUFFICES ASSUME hpc = "done" PROVE queue'["main"] = <<>>
    OBVIOUS
  <2>1. queue["main"] = <<>>
    BY <1>1 DEF WaitsInv
  <2>. QED BY <1>2, <1>4, <1>7, <2>1
<1>22. hpc = "first" => 1 \in complete' \/ Len(queue'[read_stream]) = 1
  <2>. SUFFICES ASSUME hpc = "first" PROVE 1 \in complete' \/ Len(queue'[read_stream]) = 1
    OBVIOUS
  <2>1. CASE 1 \in complete
    BY <1>3, <2>1
  <2>2. CASE 1 \notin complete
    <3>1. Len(queue[read_stream]) = 1
      BY <1>1, <2>2 DEF WaitsInv
    <3>2. s = read_stream => o = Wait(1)
      BY <1>2, <3>1, HeadAt
    <3>3. s # read_stream
      BY <1>10, <2>2, <3>2
    <3>4. read_stream \in Streams
      BY <1>1, HostFacts
    <3>. QED BY <1>4, <3>1, <3>3, <3>4
  <2>. QED BY <2>1, <2>2
<1>23. read_stream' = read_stream
  BY <1>2 DEF hostVars
<1>. QED BY <1>5, <1>6, <1>11, <1>12, <1>13, <1>14, <1>15, <1>22, <1>23 DEF WaitsInv, Upto, scanAfter, mainAfter

\* The sequences of tiles and of chunks.
LEMMA UptoFacts ==
  /\ \A n \in Nat : Upto(n) \in Seq(Int) /\ Len(Upto(n)) = n
  /\ Upto(0) = <<>>
  /\ \A n \in Nat : Append(Upto(n), n) = Upto(n + 1) /\ Upto(n) \o <<n>> = Upto(n + 1)
<1>1. \A n \in Nat : Upto(n) \in Seq(Int) /\ Len(Upto(n)) = n
  BY DEF Upto
<1>2. Upto(0) = <<>>
  BY <1>1, EmptySeq
<1>3. ASSUME NEW n \in Nat
      PROVE  Append(Upto(n), n) = Upto(n + 1) /\ Upto(n) \o <<n>> = Upto(n + 1)
  <2>. DEFINE f == Upto(n)
              g == Upto(n + 1)
              h == Append(f, n)
  <2>1. f \in Seq(Int) /\ Len(f) = n /\ g \in Seq(Int) /\ Len(g) = n + 1
    BY <1>1
  <2>2. h \in Seq(Int) /\ Len(h) = n + 1 /\ h[n + 1] = n /\ \A i \in 1 .. n : h[i] = f[i]
    BY <2>1, AppendProperties
  <2>3. \A i \in 1 .. n + 1 : g[i] = i - 1
    BY DEF Upto
  <2>4. \A i \in 1 .. n : f[i] = i - 1
    BY DEF Upto
  <2>. HIDE DEF f, g, h
  <2>5. \A i \in 1 .. n + 1 : h[i] = g[i]
    BY <2>2, <2>3, <2>4
  <2>6. h = g
    BY <2>1, <2>2, <2>5, SeqEqual
  <2>7. f \o <<n>> = h
    BY <2>1, AppendIsConcat DEF h
  <2>. QED BY <2>6, <2>7 DEF f, g, h
<1>. QED BY <1>1, <1>2, <1>3

LEMMA SpanFacts ==
  /\ \A a, b \in Int : a <= b => Span(a, b) \in Seq(Int) /\ Len(Span(a, b)) = b - a
  /\ \A a \in Int : Span(a, a) = <<>>
  /\ \A a, b \in Int : a < b => <<a>> \o Span(a + 1, b) = Span(a, b)
  /\ \A n, b \in Nat : n <= b => Upto(n) \o Span(n, b) = Upto(b)
<1>1. ASSUME NEW a \in Int, NEW b \in Int, a <= b
      PROVE  /\ Span(a, b) \in Seq(Int) /\ Len(Span(a, b)) = b - a
             /\ \A i \in 1 .. b - a : Span(a, b)[i] = a + i - 1
  <2>1. b - a \in Nat
    BY <1>1
  <2>. QED BY <2>1 DEF Span
<1>2. \A a \in Int : Span(a, a) = <<>>
  BY <1>1, EmptySeq
<1>3. ASSUME NEW a \in Int, NEW b \in Int, a < b PROVE <<a>> \o Span(a + 1, b) = Span(a, b)
  <2>. DEFINE f == Span(a + 1, b)
              g == Span(a, b)
              h == <<a>> \o f
              n == b - a
  <2>1. /\ f \in Seq(Int) /\ Len(f) = n - 1
        /\ \A i \in 1 .. n - 1 : f[i] = a + i
    BY <1>1, <1>3
  <2>2. /\ g \in Seq(Int) /\ Len(g) = n
        /\ \A i \in 1 .. n : g[i] = a + i - 1
    BY <1>1, <1>3
  <2>3. n \in Nat
    BY <1>3
  <2>4. <<a>> \in Seq(Int) /\ Len(<<a>>) = 1 /\ <<a>>[1] = a
    OBVIOUS
  <2>. HIDE DEF f, g, n
  <2>5. h \in Seq(Int) /\ Len(h) = 1 + (n - 1)
        /\ \A i \in 1 .. 1 + (n - 1) : h[i] = IF i <= 1 THEN <<a>>[i] ELSE f[i - 1]
    BY <2>1, <2>4, ConcatProperties
  <2>6. ASSUME NEW i \in 1 .. n PROVE h[i] = g[i]
    <3>0. i \in 1 .. 1 + (n - 1)
      BY <2>3
    <3>. HIDE DEF h
    <3>1. g[i] = a + i - 1
      BY <2>2
    <3>2. CASE i = 1
      <4>1. h[1] = <<a>>[1]
        BY <2>5, <3>0, <3>2
      <4>. QED BY <2>4, <3>1, <3>2, <4>1
    <3>3. CASE i > 1
      <4>1. i - 1 \in 1 .. n - 1
        BY <2>3, <3>3
      <4>2. h[i] = f[i - 1] /\ f[i - 1] = a + (i - 1)
        BY <2>1, <2>5, <3>0, <3>3, <4>1
      <4>. QED BY <3>1, <4>2
    <3>. QED BY <3>2, <3>3
  <2>. HIDE DEF h
  <2>7. h = g
    BY <2>2, <2>3, <2>5, <2>6, SeqEqual
  <2>. QED BY <2>7 DEF f, g, h
<1>4. ASSUME NEW n \in Nat, NEW b \in Nat, n <= b PROVE Upto(n) \o Span(n, b) = Upto(b)
  <2>. DEFINE f == Upto(n)
              g == Span(n, b)
              h == f \o g
              u == Upto(b)
              m == b - n
  <2>1. /\ f \in Seq(Int) /\ Len(f) = n /\ \A i \in 1 .. n : f[i] = i - 1
    BY DEF Upto
  <2>2. /\ u \in Seq(Int) /\ Len(u) = b /\ \A i \in 1 .. b : u[i] = i - 1
    BY DEF Upto
  <2>3. /\ g \in Seq(Int) /\ Len(g) = m /\ \A i \in 1 .. m : g[i] = n + i - 1
    BY <1>1, <1>4
  <2>7. m \in Nat /\ n + m = b
    BY <1>4
  <2>. HIDE DEF f, g, u, m
  <2>4. h \in Seq(Int) /\ Len(h) = n + m
        /\ \A i \in 1 .. n + m : h[i] = IF i <= n THEN f[i] ELSE g[i - n]
    BY <2>1, <2>3, ConcatProperties
  <2>5. \A i \in 1 .. b : h[i] = u[i]
    BY <1>4, <2>1, <2>2, <2>3, <2>4, <2>7
  <2>. HIDE DEF h
  <2>6. h = u
    BY <2>2, <2>4, <2>5, <2>7, SeqEqual
  <2>. QED BY <2>6 DEF f, g, h, u
<1>. QED BY <1>1, <1>2, <1>3, <1>4

LEMMA PopData ==
  ASSUME NEW prev, PInv(prev), NEW s \in Streams, Taken(s)
  PROVE  DataInv(prev)'
<1>. DEFINE o == Head(queue[s])
            left == Len(queue[s])
            scan == Len(queue[scan_stream])
            read == Len(queue[read_stream])
            scanAfter == Len(queue'[scan_stream])
            readAfter == Len(queue'[read_stream])
            scanAll == Len(ScanOps)
            readAll == Len(ReadOps(prev))
<1>1. DataInv(prev) /\ HostInv /\ ChunksInv /\ EventsInv
      /\ Rest(queue[scan_stream], ScanOps) /\ Rest(queue[read_stream], ReadOps(prev))
  BY DEF PInv, Queues
<1>2. queue[s] # <<>> /\ Pop(s) /\ UNCHANGED hostVars
      /\ (\/ complete' = complete
          \/ o.op = "record" /\ complete' = complete \cup {o.event})
      /\ (o.op = "upload" => memory' = [memory EXCEPT ![o.buffer] = tickets[o.ticket]])
      /\ (o.op # "upload" => memory' = memory)
      /\ (o.op = "chars" => char_storage' = Append(char_storage, memory[o.buffer]))
      /\ (o.op # "chars" => char_storage' = char_storage)
  BY Effects
<1>3. /\ Len(queue'[s]) = left - 1
      /\ \A r \in Streams \ {s} : queue'[r] = queue[r]
      /\ \A r \in Streams : Len(queue[r]) \in Nat
  BY <1>2, PopKeeps
<1>4. /\ Count' = Count /\ ScanOps' = ScanOps /\ ReadOps(prev)' = ReadOps(prev)
      /\ (Looping' <=> Looping) /\ hpc' = hpc
      /\ scan_stream' = scan_stream /\ read_stream' = read_stream
      /\ chunk' = chunk /\ next_chunk' = next_chunk /\ owner' = owner /\ tickets' = tickets
  BY <1>2, HostKept DEF hostVars
<1>5. scan_stream \in Streams /\ read_stream \in Streams /\ scan_stream # read_stream
      /\ Count \in Nat
  BY <1>1, HostFacts
<1>6. /\ scan \in Nat /\ read \in Nat
      /\ scanAfter = IF s = scan_stream THEN scan - 1 ELSE scan
      /\ readAfter = IF s = read_stream THEN read - 1 ELSE read
      /\ scan <= scanAll /\ read <= readAll /\ scanAll \in Nat /\ readAll \in Nat
  BY <1>1, <1>3, <1>5, LenProperties DEF Rest
<1>7. /\ o.op = "upload" =>
           \/ /\ s = scan_stream /\ left = Len(ScanOps) - 1 /\ Looping /\ chunk # NoChunk
              /\ o = Upload(Count % num_tickets, chunk.buffer)
           \/ /\ s = read_stream /\ hpc = "sync" /\ next_chunk # NoChunk /\ left = 2
              /\ o = Upload((Count + 1) % num_tickets, next_chunk.buffer)
      /\ o.op = "chars" =>
           s = read_stream /\ CharsLeft(prev) /\ o = CopyChars([buffer |-> prev])
  BY <1>2, HeadIs
<1>8. /\ s = scan_stream /\ Looping /\ chunk # NoChunk /\ scan = scanAll - 1 => o.op = "upload"
      /\ s = read_stream /\ CharsLeft(prev) => o.op = "chars"
      /\ s = read_stream /\ hpc = "sync" /\ next_chunk # NoChunk /\ read = 2 => o.op = "upload"
  <2>1. ASSUME s = scan_stream, Looping, chunk # NoChunk, scan = scanAll - 1
        PROVE  o.op = "upload"
    <3>1. o = Upload(Count % num_tickets, chunk.buffer)
      BY <1>2, <2>1, HeadAt
    <3>. QED BY <3>1, Kinds
  <2>2. ASSUME s = read_stream, CharsLeft(prev) PROVE o.op = "chars"
    <3>1. o = CopyChars([buffer |-> prev])
      BY <1>2, <2>2, HeadAt
    <3>. QED BY <3>1, Kinds
  <2>3. ASSUME s = read_stream, hpc = "sync", next_chunk # NoChunk, read = 2
        PROVE  o.op = "upload"
    <3>1. o = Upload((Count + 1) % num_tickets, next_chunk.buffer)
      BY <1>2, <2>3, HeadAt
    <3>. QED BY <3>1, Kinds
  <2>. QED BY <2>1, <2>2, <2>3
<1>9. /\ Looping /\ chunk # NoChunk => /\ Count < Chunks /\ chunk.buffer \in Addresses
                                       /\ tickets[Count % num_tickets] = Count
      /\ hpc = "sync" /\ next_chunk # NoChunk =>
           /\ Count + 1 < Chunks /\ next_chunk.buffer \in Addresses
           /\ tickets[(Count + 1) % num_tickets] = Count + 1
           /\ next_chunk.buffer # chunk.buffer
      /\ Looping /\ Count < Chunks => chunk # NoChunk
      /\ hpc = "sync" /\ Count + 1 < Chunks => next_chunk # NoChunk
      /\ hpc = "sync" => Looping
  BY <1>1, HostFacts DEF ChunksInv, ChunkIs, Looping
<1>10. /\ memory \in [Addresses -> Int]
       /\ Looping /\ Count < Chunks /\ Uploaded => memory[chunk.buffer] = Count
       /\ hpc = "sync" /\ Count + 1 < Chunks /\ read < 2
            => memory[next_chunk.buffer] = Count + 1
       /\ Count > 0 => prev \in Addresses /\ (Count < Chunks => prev # chunk.buffer)
       /\ CharsLeft(prev) => memory[prev] = Count - 1
       /\ char_storage = Upto(IF CharsLeft(prev) THEN Count - 1 ELSE Count)
  BY <1>1 DEF DataInv
<1>11. /\ Uploaded <=> scan + 2 <= scanAll
       /\ Uploaded' <=> scanAfter + 2 <= scanAll
       /\ CharsLeft(prev) <=> Count > 0 /\ read = readAll
       /\ CharsLeft(prev)' <=> Count > 0 /\ readAfter = readAll
  BY <1>4 DEF Uploaded, CharsLeft
<1>12. (s = scan_stream => left = scan) /\ (s = read_stream => left = read)
  OBVIOUS
<1>. HIDE DEF o, left, scan, read, scanAfter, readAfter, scanAll, readAll
\* What an upload writes.
<1>13. CASE o.op = "upload"
  <2>. DEFINE b == o.buffer
              n == tickets[o.ticket]
  <2>1. memory' = [memory EXCEPT ![b] = n] /\ char_storage' = char_storage
    BY <1>2, <1>13
  <2>2. CASE /\ s = scan_stream /\ left = Len(ScanOps) - 1 /\ Looping /\ chunk # NoChunk
             /\ o = Upload(Count % num_tickets, chunk.buffer)
    <3>1. b = chunk.buffer /\ n = Count /\ b \in Addresses /\ Count < Chunks
      BY <1>9, <2>2, Kinds
    <3>. HIDE DEF b, n
    <3>2. /\ memory' \in [Addresses -> Int] /\ memory'[chunk.buffer] = Count
          /\ \A a \in Addresses : a # chunk.buffer => memory'[a] = memory[a]
      BY <1>5, <1>10, <2>1, <3>1
    <3>3. readAfter = read
      BY <1>5, <1>6, <2>2
    <3>4. hpc = "sync" /\ Count + 1 < Chunks /\ readAfter < 2
            => memory'[next_chunk.buffer] = Count + 1
      BY <1>9, <1>10, <3>2, <3>3
    <3>5. CharsLeft(prev)' <=> CharsLeft(prev)
      BY <1>11, <3>3
    <3>6. CharsLeft(prev) => memory'[prev] = Count - 1
      BY <1>5, <1>10, <1>11, <3>1, <3>2
    <3>7. char_storage' = Upto(IF CharsLeft(prev)' THEN Count - 1 ELSE Count)
      BY <1>10, <2>1, <3>5
    <3>. QED BY <1>1, <1>4, <1>10, <3>2, <3>4, <3>5, <3>6, <3>7 DEF DataInv, Upto, readAfter
  <2>3. CASE /\ s = read_stream /\ hpc = "sync" /\ next_chunk # NoChunk /\ left = 2
             /\ o = Upload((Count + 1) % num_tickets, next_chunk.buffer)
    <3>1. b = next_chunk.buffer /\ n = Count + 1 /\ b \in Addresses /\ b # chunk.buffer
      BY <1>9, <2>3, Kinds
    <3>. HIDE DEF b, n
    <3>2. /\ memory' \in [Addresses -> Int] /\ memory'[next_chunk.buffer] = Count + 1
          /\ \A a \in Addresses : a # next_chunk.buffer => memory'[a] = memory[a]
      BY <1>5, <1>10, <2>1, <3>1
    <3>3. scanAfter = scan
      BY <1>5, <1>6, <2>3
    <3>4. Looping /\ Count < Chunks /\ Uploaded' => memory'[chunk.buffer] = Count
      BY <1>9, <1>10, <1>11, <3>1, <3>2, <3>3
    <3>5. ~CharsLeft(prev)'
      BY <1>6, <1>11, <2>3
    <3>6. ~CharsLeft(prev)
      <4>1. o.op # "chars"
        BY <1>13
      <4>. QED BY <1>8, <2>3, <4>1
    <3>7. char_storage' = Upto(Count)
      BY <1>10, <2>1, <3>6
    <3>. QED BY <1>1, <1>4, <1>10, <3>2, <3>4, <3>5, <3>7 DEF DataInv, Upto
  <2>. QED BY <1>7, <1>13, <2>2, <2>3
\* What a copy takes.
<1>14. CASE o.op = "chars"
  <2>1. s = read_stream /\ CharsLeft(prev) /\ o.buffer = prev /\ memory' = memory
    BY <1>2, <1>7, <1>14, Kinds
  <2>2. ~CharsLeft(prev)' /\ scanAfter = scan /\ readAfter = read - 1 /\ Count > 0
    BY <1>5, <1>6, <1>11, <2>1
  <2>3. char_storage' = Append(Upto(Count - 1), Count - 1)
    BY <1>2, <1>10, <1>14, <2>1
  <2>4. Count - 1 \in Nat /\ (Count - 1) + 1 = Count
    BY <1>5, <2>2
  <2>5. char_storage' = Upto(Count)
    <3>1. Append(Upto(Count - 1), Count - 1) = Upto((Count - 1) + 1)
      BY <2>4, UptoFacts
    <3>. QED BY <2>3, <2>4, <3>1
  <2>6. hpc = "sync" /\ Count + 1 < Chunks /\ readAfter < 2
          => memory'[next_chunk.buffer] = Count + 1
    <3>1. read # 2 \/ ~(hpc = "sync" /\ next_chunk # NoChunk)
      BY <1>8, <1>14, <2>1
    <3>. QED BY <1>6, <1>9, <1>10, <2>1, <2>2, <3>1
  <2>7. Looping /\ Count < Chunks /\ Uploaded' => memory'[chunk.buffer] = Count
    BY <1>10, <1>11, <2>1, <2>2
  <2>. QED BY <1>1, <1>4, <1>10, <2>1, <2>2, <2>5, <2>6, <2>7 DEF DataInv, Upto, readAfter
<1>15. CASE o.op \notin {"upload", "chars"}
  <2>1. memory' = memory /\ char_storage' = char_storage
    BY <1>2, <1>15
  <2>2. Looping /\ Count < Chunks /\ Uploaded' => memory'[chunk.buffer] = Count
    <3>1. ~(s = scan_stream /\ Looping /\ chunk # NoChunk /\ scan = scanAll - 1)
      BY <1>8, <1>15
    <3>2. Looping /\ Count < Chunks /\ Uploaded' => Uploaded
      BY <1>6, <1>9, <1>11, <3>1
    <3>. QED BY <1>10, <2>1, <3>2
  <2>3. hpc = "sync" /\ Count + 1 < Chunks /\ readAfter < 2
          => memory'[next_chunk.buffer] = Count + 1
    <3>1. ~(s = read_stream /\ hpc = "sync" /\ next_chunk # NoChunk /\ read = 2)
      BY <1>8, <1>15
    <3>2. hpc = "sync" /\ Count + 1 < Chunks /\ readAfter < 2 => read < 2
      BY <1>6, <1>9, <3>1
    <3>. QED BY <1>10, <2>1, <3>2
  <2>4. CharsLeft(prev)' <=> CharsLeft(prev)
    <3>1. ~(s = read_stream /\ CharsLeft(prev))
      BY <1>8, <1>15
    <3>. QED BY <1>6, <1>11, <3>1
  <2>5. char_storage' = Upto(IF CharsLeft(prev)' THEN Count - 1 ELSE Count)
    BY <1>10, <2>1, <2>4
  <2>. QED BY <1>1, <1>4, <1>10, <2>1, <2>2, <2>3, <2>4, <2>5 DEF DataInv, Upto, readAfter
<1>. QED BY <1>13, <1>14, <1>15

\* The tiles of a chunk and the one before them have places of their own.
LEMMA SlotApart ==
  ASSUME HostInv, ChunksInv, EventsInv
  PROVE  /\ \A t \in base_tile_idx - 1 .. base_tile_idx + TilesOf(Count) - 1 :
              Slot(t) \in 0 .. num_tile_states - 1
         /\ \A t, u \in base_tile_idx - 1 .. base_tile_idx + TilesOf(Count) - 1 :
              Slot(t) = Slot(u) => t = u
<1>. DEFINE N == num_tile_states
            n == TilesOf(Count)
<1>1. base_tile_idx \in Nat /\ n \in 1 .. TILES_PER_CHUNK
  BY HostFacts
<1>2. N \in Nat \ {0} /\ TILES_PER_CHUNK \in Nat /\ N > TILES_PER_CHUNK
  BY PipelineAssumption DEF num_tile_states
<1>3. \A t : Slot(t) = (t + N) % N
  BY DEF Slot
<1>. HIDE DEF N, n
<1>4. ASSUME NEW t \in base_tile_idx - 1 .. base_tile_idx + n - 1
      PROVE  t + N \in Nat /\ t \in Int
  BY <1>1, <1>2
<1>5. ASSUME NEW t \in base_tile_idx - 1 .. base_tile_idx + n - 1 PROVE Slot(t) \in 0 .. N - 1
  BY <1>2, <1>3, <1>4, ModRange
<1>6. ASSUME NEW t \in base_tile_idx - 1 .. base_tile_idx + n - 1,
             NEW u \in base_tile_idx - 1 .. base_tile_idx + n - 1, Slot(t) = Slot(u)
      PROVE  t = u
  <2>1. (t + N) - (u + N) < N /\ (u + N) - (t + N) < N
    BY <1>1, <1>2
  <2>2. (t + N) % N = (u + N) % N
    BY <1>3, <1>6
  <2>3. t + N \in Nat /\ u + N \in Nat /\ t \in Int /\ u \in Int
    BY <1>4
  <2>4. t + N = u + N
    BY <1>2, <2>1, <2>2, <2>3, ModSame
  <2>. QED BY <1>2, <2>3, <2>4
<1>. QED BY <1>5, <1>6 DEF N, n

LEMMA TilesIn ==
  ASSUME HostInv, ChunksInv, EventsInv, Scanning
  PROVE  /\ Tiles \subseteq AllTiles /\ base_tile_idx = Count * TILES_PER_CHUNK
         /\ Count < Chunks /\ base_tile_idx + TilesOf(Count) - 1 \in Tiles
<1>. DEFINE n == TilesOf(Count)
            T == TILES_PER_CHUNK
<1>1. /\ Count \in Nat /\ base_tile_idx \in Nat /\ n \in 1 .. T
      /\ T \in Nat \ {0} /\ Chunks \in Nat
  BY HostFacts, PipelineAssumption
<1>2. Count < Chunks
  BY DEF ChunksInv
<1>3. base_tile_idx = Count * T
  BY <1>2 DEF HostInv
<1>. HIDE DEF n, T
<1>4. (Chunks - Count - 1) * T >= 0
  BY <1>1, <1>2
<1>5. (Chunks - Count - 1) * T = Chunks * T - Count * T - T
  BY <1>1
<1>6. base_tile_idx + n - 1 <= Chunks * T - 1
  <2>1. Count * T \in Int /\ Chunks * T \in Int
    BY <1>1
  <2>. DEFINE x == Count * T
              y == Chunks * T
              z == (Chunks - Count - 1) * T
  <2>2. z \in Int
    BY <1>1
  <2>. HIDE DEF x, y, z
  <2>3. z >= 0 /\ z = y - x - T /\ base_tile_idx = x /\ x \in Int /\ y \in Int
    BY <1>3, <1>4, <1>5, <2>1 DEF x, y, z
  <2>4. base_tile_idx + n - 1 <= y - 1
    BY <1>1, <2>3
  <2>. QED BY <2>4 DEF y
<1>7. \A t \in base_tile_idx .. base_tile_idx + n - 1 : t \in 0 .. Chunks * T - 1
  <2>1. Chunks * T \in Int
    BY <1>1
  <2>. DEFINE y == Chunks * T
  <2>. HIDE DEF y
  <2>. QED BY <1>1, <1>6, <2>1 DEF y
<1>8. base_tile_idx + n - 1 \in base_tile_idx .. base_tile_idx + n - 1
  BY <1>1
<1>. QED BY <1>2, <1>3, <1>7, <1>8 DEF Tiles, AllTiles, n, T

\* Before the identity is in its place, no other stream has begun.
LEMMA Early ==
  ASSUME NEW prev, PInv(prev), hpc # "setup", ~Seeded
  PROVE  /\ Count = 0 /\ base_tile_idx = 0
         /\ Looping => Len(queue[scan_stream]) = Len(ScanOps)
         /\ launched = {} /\ ~ (Scanning /\ Len(queue[scan_stream]) <= 2)
         /\ \A t \in AllTiles : block[t].pc = "idle"
<1>. DEFINE q == queue["main"]
            main == Len(q)
            all == Len(MainOps)
            scan == Len(queue[scan_stream])
<1>1. /\ HostInv /\ ChunksInv /\ EventsInv /\ WaitsInv /\ ScanInv /\ Rest(q, MainOps)
  BY DEF PInv, Queues
<1>2. /\ records \in Nat /\ Count \in Nat /\ scan_stream \in Streams /\ "main" \in Streams
  BY <1>1, HostFacts
<1>3. all = 3 \/ all = 6
  BY <1>2, MainAt
<1>4. main \in Nat /\ main <= all /\ main + 2 > all
  BY <1>1, LenProperties DEF Rest, Seeded
<1>5. \A j \in 1 .. main : q[j] = MainOps[all - main + j]
  BY <1>1 DEF Rest
<1>6. MainOps[3] = Record(1)
  BY <1>2, MainAt
<1>. HIDE DEF q, main, all
<1>7. \E j \in 1 .. main : all - main + j = 3
  <2>. DEFINE j == 3 - (all - main)
  <2>1. j \in 1 .. main /\ all - main + j = 3
    BY <1>3, <1>4
  <2>. QED BY <2>1
<1>8. \E j \in 1 .. main : q[j] = Record(1)
  BY <1>5, <1>6, <1>7
<1>9. 1 \notin complete
  BY <1>1, <1>2, <1>8, Kinds DEF EventsInv, q, main
<1>10. Count = 0 /\ (Looping => scan = Len(ScanOps))
  <2>1. ~Looping => Count = 0
    BY <1>1 DEF HostInv
  <2>2. Looping => (Count = 0 /\ scan = Len(ScanOps))
    BY <1>1, <1>9 DEF WaitsInv
  <2>. QED BY <2>1, <2>2
<1>11. base_tile_idx = 0
  <2>1. base_tile_idx = Count * TILES_PER_CHUNK
    BY <1>1, <1>10 DEF HostInv
  <2>. QED BY <1>10, <2>1, PipelineAssumption
<1>12. Scanning => scan = 6
  <2>1. Scanning => Looping
    BY DEF Scanning, Looping
  <2>. QED BY <1>1, <1>10, <2>1, ScanAt
<1>. HIDE DEF scan
<1>13. launched = {}
  BY <1>1, <1>12 DEF ScanInv, scan
<1>14. ASSUME NEW t \in AllTiles PROVE block[t].pc = "idle"
  <2>1. t >= base_tile_idx
    BY <1>11 DEF AllTiles
  <2>2. block[t].pc # "idle" => Scanning /\ scan = 0
    BY <1>1, <1>13, <2>1 DEF ScanInv, Scanned, scan
  <2>. QED BY <1>12, <2>2
<1>15. ~ (Scanning /\ scan <= 2)
  BY <1>12
<1>. QED BY <1>10, <1>11, <1>13, <1>14, <1>15 DEF scan

LEMMA PopScan ==
  ASSUME NEW prev, PInv(prev), NEW s \in Streams, Taken(s)
  PROVE  ScanInv'
<1>. DEFINE o == Head(queue[s])
            left == Len(queue[s])
            scan == Len(queue[scan_stream])
            scanAfter == Len(queue'[scan_stream])
<1>1. ScanInv /\ HostInv /\ ChunksInv /\ EventsInv
  BY DEF PInv
<1>2. queue[s] # <<>> /\ Pop(s) /\ UNCHANGED hostVars /\ block' = block
      /\ (\/ complete' = complete
          \/ o.op = "record" /\ complete' = complete \cup {o.event})
      /\ (o.op = "scan" => launched = o.tiles /\ launched' = {}
                           /\ \A t \in launched : block[t].pc = "done")
      /\ (o.op # "scan" => launched' = launched)
  BY Effects
<1>3. /\ Len(queue'[s]) = left - 1
      /\ \A r \in Streams \ {s} : queue'[r] = queue[r]
      /\ \A r \in Streams : Len(queue[r]) \in Nat
  BY <1>2, PopKeeps
<1>4. /\ Tiles' = Tiles /\ (Scanning' <=> Scanning) /\ scan_stream' = scan_stream
      /\ base_tile_idx' = base_tile_idx
  BY <1>2, HostKept DEF hostVars
<1>5. scan_stream \in Streams
  BY <1>1, HostFacts
<1>6. /\ scan \in Nat /\ scanAfter = IF s = scan_stream THEN scan - 1 ELSE scan
      /\ left \in Nat \ {0} /\ (s = scan_stream => left = scan)
  BY <1>2, <1>3, <1>5, HeadIs
<1>7. s = scan_stream /\ Scanning /\ left = 1 => o = Scan(Tiles, chunk)
  BY <1>2, HeadAt
<1>8. o.op = "scan" =>
        s = scan_stream /\ Scanning /\ left = 1 /\ o = Scan(Tiles, chunk)
  BY <1>2, HeadIs
<1>9. /\ launched # {} => Scanning /\ launched = Tiles /\ scan = 1
      /\ \A t \in AllTiles :
           /\ t < base_tile_idx => block[t].pc = "done"
           /\ t >= base_tile_idx /\ block[t].pc # "idle"
                => Scanning /\ t \in Tiles /\ (launched # {} \/ scan = 0)
           /\ Scanning /\ scan = 0 /\ t \in Tiles => block[t].pc = "done"
  BY <1>1 DEF ScanInv, Scanned
<1>. HIDE DEF o, left, scan, scanAfter
<1>10. /\ launched' # {} => Scanning /\ launched' = Tiles /\ scanAfter = 1
       /\ \A t \in AllTiles :
            /\ t < base_tile_idx => block[t].pc = "done"
            /\ t >= base_tile_idx /\ block[t].pc # "idle"
                 => Scanning /\ t \in Tiles /\ (launched' # {} \/ scanAfter = 0)
            /\ Scanning /\ scanAfter = 0 /\ t \in Tiles => block[t].pc = "done"
  <2>1. CASE o.op = "scan"
    <3>1. s = scan_stream /\ Scanning /\ scanAfter = 0 /\ launched' = {} /\ launched = Tiles
          /\ \A t \in Tiles : block[t].pc = "done"
      BY <1>2, <1>6, <1>8, <2>1, Kinds
    <3>. QED BY <1>9, <3>1
  <2>2. CASE o.op # "scan"
    <3>1. launched' = launched /\ ~(s = scan_stream /\ Scanning /\ scan = 1)
      BY <1>2, <1>6, <1>7, <2>2, Kinds
    <3>2. Scanning => ((scanAfter = 0 => scan = 0) /\ (scan = 0 => scanAfter = 0))
      BY <1>6, <3>1
    <3>3. Scanning /\ scan = 1 => scanAfter = 1
      BY <1>6, <3>1
    <3>. QED BY <1>9, <3>1, <3>2, <3>3
  <2>. QED BY <2>1, <2>2
<1>. QED BY <1>2, <1>4, <1>10 DEF ScanInv, Scanned, scanAfter

\* What is published stays so while its place in the ring is left alone.
LEMMA PublishedKept ==
  ASSUME NEW t, base_tile_idx' = base_tile_idx, tile_status'[Slot(t)] = tile_status[Slot(t)],
         tile_partial'[Slot(t)] = tile_partial[Slot(t)],
         tile_inclusive'[Slot(t)] = tile_inclusive[Slot(t)]
  PROVE  Published(t) <=> Published(t)'
BY DEF Published, Slot, num_tile_states, Upto

LEMMA PopRing ==
  ASSUME NEW prev, PInv(prev), NEW s \in Streams, Taken(s)
  PROVE  RingInv'
<1>. DEFINE o == Head(queue[s])
            left == Len(queue[s])
            scan == Len(queue[scan_stream])
            scanAfter == Len(queue'[scan_stream])
            main == Len(queue["main"])
            mainAfter == Len(queue'["main"])
            all == Len(MainOps)
            last == base_tile_idx - 1
<1>1. RingInv /\ Shape /\ HostInv /\ ChunksInv /\ EventsInv /\ ScanInv
      /\ Rest(queue["main"], MainOps)
  BY DEF PInv, Queues
<1>2. queue[s] # <<>> /\ Pop(s) /\ UNCHANGED hostVars /\ block' = block
      /\ (\/ complete' = complete
          \/ o.op = "record" /\ complete' = complete \cup {o.event})
      /\ tile_partial' = tile_partial
      /\ (o.op = "init" =>
            tile_status' = [i \in DOMAIN tile_status |->
                              IF i \in {Slot(t) : t \in o.tiles} THEN o.status
                              ELSE tile_status[i]])
      /\ (o.op = "seed" => tile_status' = [tile_status EXCEPT ![Slot(-1)] = "inclusive"]
                           /\ tile_inclusive' = [tile_inclusive EXCEPT ![Slot(-1)] = <<>>])
      /\ (o.op \notin {"init", "seed"} => tile_status' = tile_status)
      /\ (o.op # "seed" => tile_inclusive' = tile_inclusive)
  BY Effects
<1>3. /\ Len(queue'[s]) = left - 1
      /\ \A r \in Streams \ {s} : queue'[r] = queue[r]
      /\ \A r \in Streams : Len(queue[r]) \in Nat
  BY <1>2, PopKeeps
<1>4. /\ Tiles' = Tiles /\ (Scanning' <=> Scanning) /\ scan_stream' = scan_stream
      /\ base_tile_idx' = base_tile_idx /\ hpc' = hpc /\ MainOps' = MainOps
  BY <1>2, HostKept DEF hostVars
<1>5. scan_stream \in Streams /\ "main" \in Streams /\ scan_stream # "main"
      /\ base_tile_idx \in Nat /\ TilesOf(Count) \in 1 .. TILES_PER_CHUNK
  BY <1>1, HostFacts
<1>6. /\ scan \in Nat /\ scanAfter = IF s = scan_stream THEN scan - 1 ELSE scan
      /\ main \in Nat /\ mainAfter = IF s = "main" THEN main - 1 ELSE main
      /\ left \in Nat \ {0} /\ (s = scan_stream => left = scan) /\ (s = "main" => left = main)
      /\ hpc # "setup" /\ all \in Nat /\ main <= all
  BY <1>1, <1>2, <1>3, <1>5, HeadIs, LenProperties DEF Rest
<1>7. /\ s = scan_stream /\ Scanning /\ left = 3 => o = Reset(Tiles)
      /\ s = "main" /\ left = all - 1 => o = Seed
  BY <1>2, HeadAt
<1>8. /\ o.op = "init" => \/ s = "main" /\ left = all
                          \/ s = scan_stream /\ Scanning /\ left = 3 /\ o = Reset(Tiles)
      /\ o.op = "seed" => s = "main" /\ left = all - 1
  BY <1>2, HeadIs
<1>9. /\ main + 2 <= all => Published(last) /\ tile_status[Slot(last)] = "inclusive"
      /\ Scanning /\ scan <= 2 =>
           \A t \in Tiles :
             /\ Published(t)
             /\ block[t].pc = "partial_status" => tile_partial[Slot(t)] = <<t>>
             /\ block[t].pc = "inclusive_status" => tile_inclusive[Slot(t)] = Upto(t + 1)
             /\ block[t].pc = "done" => tile_status[Slot(t)] = "inclusive"
  BY <1>1, <1>6 DEF RingInv, Placed, Seeded
<1>10. main + 2 > all => last = -1 /\ ~(Scanning /\ scan <= 2)
  <2>1. ASSUME main + 2 > all PROVE last = -1 /\ ~(Scanning /\ scan <= 2)
    <3>1. ~Seeded
      BY <1>6, <2>1 DEF Seeded
    <3>2. base_tile_idx = 0
      BY <1>6, <3>1, Early
    <3>. QED BY <1>6, <3>1, <3>2, Early
  <2>. QED BY <2>1
<1>11. \A t : t \in Tiles => t \in last .. last + TilesOf(Count)
  BY <1>5 DEF Tiles
<1>12. /\ \A t \in last .. last + TilesOf(Count) : Slot(t) \in 0 .. num_tile_states - 1
       /\ \A t, u \in last .. last + TilesOf(Count) : Slot(t) = Slot(u) => t = u
       /\ last \in last .. last + TilesOf(Count) /\ last \notin Tiles
  <2>1. last + TilesOf(Count) = base_tile_idx + TilesOf(Count) - 1
    BY <1>5
  <2>2. last \in last .. last + TilesOf(Count) /\ last \notin Tiles
    BY <1>5 DEF Tiles
  <2>. QED BY <1>1, <2>1, <2>2, SlotApart
<1>13. /\ tile_status \in [0 .. num_tile_states - 1 -> {"invalid", "oob", "partial", "inclusive"}]
       /\ tile_inclusive \in [0 .. num_tile_states - 1 -> Seq(Int)]
  BY <1>1 DEF Shape
<1>. DEFINE last2 == last
<1>14. last' = last
  BY <1>4
<1>. HIDE DEF o, left, scan, scanAfter, main, mainAfter, all
<1>15. /\ mainAfter + 2 <= all => Published(last)' /\ tile_status'[Slot(last)] = "inclusive"
       /\ Scanning /\ scanAfter <= 2 =>
            \A t \in Tiles :
              /\ Published(t)'
              /\ block[t].pc = "partial_status" => tile_partial[Slot(t)] = <<t>>
              /\ block[t].pc = "inclusive_status" => tile_inclusive'[Slot(t)] = Upto(t + 1)
              /\ block[t].pc = "done" => tile_status'[Slot(t)] = "inclusive"
\* The first tiles are marked before the identity is put there.
  <2>1. CASE s = "main" /\ left = all
    <3>1. ~(mainAfter + 2 <= all) /\ main + 2 > all /\ scanAfter = scan
      BY <1>5, <1>6, <2>1
    <3>. QED BY <1>10, <3>1
  <2>2. CASE o.op = "seed"
    <3>1. s = "main" /\ main + 2 > all /\ scanAfter = scan
      BY <1>5, <1>6, <1>8, <2>2
    <3>2. last = -1
      BY <1>10, <3>1
    <3>3. tile_status'[Slot(last)] = "inclusive" /\ tile_inclusive'[Slot(last)] = <<>>
      BY <1>2, <1>12, <1>13, <2>2, <3>2
    <3>4. Upto(last + 1) = <<>>
      BY <3>2, UptoFacts
    <3>5. Published(last)'
      BY <1>14, <3>3, <3>4 DEF Published, Slot, num_tile_states, Upto
    <3>. QED BY <1>10, <3>1, <3>3, <3>5
\* The states of a chunk's tiles are set before its scan.
  <2>3. CASE s = scan_stream /\ Scanning /\ left = 3 /\ o = Reset(Tiles)
    <3>1. main + 2 <= all /\ mainAfter = main
      <4>1. Scanning => Looping
        BY DEF Scanning, Looping
      <4>2. Scanning => Len(ScanOps) = 6
        BY <1>1, ScanAt
      <4>3. scan # 6
        BY <1>6, <2>3
      <4>4. main + 2 > all => ~Seeded
        BY <1>6 DEF Seeded, main, all
      <4>5. ~(main + 2 > all)
        BY <1>6, <2>3, <4>1, <4>2, <4>3, <4>4, Early DEF scan
      <4>. QED BY <1>5, <1>6, <2>3, <4>5
    <3>2. /\ tile_status' = [i \in DOMAIN tile_status |->
                               IF i \in {Slot(t) : t \in Tiles} THEN "invalid"
                               ELSE tile_status[i]]
          /\ tile_inclusive' = tile_inclusive
      BY <1>2, <2>3 DEF Reset
    <3>3. \A t \in Tiles : tile_status'[Slot(t)] = "invalid"
      BY <1>11, <1>12, <1>13, <3>2
    <3>4. Slot(last) \notin {Slot(t) : t \in Tiles}
      BY <1>11, <1>12
    <3>5. tile_status'[Slot(last)] = tile_status[Slot(last)]
      BY <1>12, <1>13, <3>2, <3>4
    <3>6. Published(last)' /\ tile_status'[Slot(last)] = "inclusive"
      <4>1. Published(last) /\ tile_status[Slot(last)] = "inclusive"
        BY <1>9, <3>1
      <4>. HIDE DEF last
      <4>2. Published(last) <=> Published(last)'
        BY <1>2, <1>4, <1>14, <3>2, <3>5 DEF Published, Slot, num_tile_states, Upto
      <4>. QED BY <3>5, <4>1, <4>2
    <3>7. \A t \in Tiles : Published(t)'
      BY <3>3 DEF Published, Slot, num_tile_states
    <3>8. \A t \in Tiles : block[t].pc = "idle"
      <4>3. launched # {} => scan = 1
        BY <1>1 DEF ScanInv, scan
      <4>1. launched = {} /\ scan # 0
        BY <1>6, <2>3, <4>3
      <4>2. \A t \in Tiles : t \in AllTiles /\ t >= base_tile_idx
        BY <1>1, <1>5, <2>3, TilesIn DEF Tiles
      <4>. QED BY <1>1, <4>1, <4>2 DEF ScanInv, Scanned, scan
    <3>. QED BY <3>6, <3>7, <3>8
  <2>4. CASE o.op \notin {"init", "seed"} /\ ~(s = "main" /\ left = all)
    <3>1. tile_status' = tile_status /\ tile_inclusive' = tile_inclusive
      BY <1>2, <2>4
    <3>2. mainAfter + 2 <= all => main + 2 <= all
      <4>1. ~(s = "main" /\ main = all - 1)
        BY <1>6, <1>7, <2>4, Kinds
      <4>2. main + 2 > all => main = all - 1 \/ main = all
        BY <1>6
      <4>3. ~(s = "main" /\ main = all)
        BY <1>6, <2>4
      <4>. QED BY <1>6, <4>1, <4>2, <4>3
    <3>3. Scanning /\ scanAfter <= 2 => scan <= 2
      <4>1. ~(s = scan_stream /\ Scanning /\ scan = 3)
        BY <1>6, <1>7, <2>4, Kinds
      <4>. QED BY <1>6, <4>1
    <3>4. \A t : Published(t) <=> Published(t)'
      BY <1>2, <1>4, <3>1 DEF Published, Slot, num_tile_states, Upto
    <3>5. Published(last) <=> Published(last)'
      BY <1>2, <1>4, <3>1 DEF Published, Slot, num_tile_states, Upto
    <3>. QED BY <1>9, <3>1, <3>2, <3>3, <3>4, <3>5
  <2>. QED BY <1>8, <2>1, <2>2, <2>3, <2>4
<1>. QED BY <1>2, <1>4, <1>15 DEF RingInv, Placed, Seeded, Slot, num_tile_states, Upto, scanAfter, mainAfter,
                               all

LEMMA PopBlock ==
  ASSUME NEW prev, PInv(prev), NEW s \in Streams, Taken(s)
  PROVE  Shape' /\ BlockInv'
<1>. DEFINE o == Head(queue[s])
            States == {"invalid", "oob", "partial", "inclusive"}
            Ring == 0 .. num_tile_states - 1
<1>1. BlockInv /\ Shape /\ HostInv /\ ChunksInv /\ EventsInv
  BY DEF PInv
<1>2. queue[s] # <<>> /\ Pop(s) /\ UNCHANGED hostVars /\ block' = block
      /\ (\/ complete' = complete
          \/ o.op = "record" /\ complete' = complete \cup {o.event})
      /\ tile_partial' = tile_partial
      /\ (o.op = "init" =>
            tile_status' = [i \in DOMAIN tile_status |->
                              IF i \in {Slot(t) : t \in o.tiles} THEN o.status
                              ELSE tile_status[i]])
      /\ (o.op = "seed" => tile_status' = [tile_status EXCEPT ![Slot(-1)] = "inclusive"]
                           /\ tile_inclusive' = [tile_inclusive EXCEPT ![Slot(-1)] = <<>>])
      /\ (o.op \notin {"init", "seed"} => tile_status' = tile_status)
      /\ (o.op # "seed" => tile_inclusive' = tile_inclusive)
  BY Effects
<1>3. queue' \in [Streams -> Seq(Operation)]
  BY <1>2, PopKeeps
<1>4. base_tile_idx' = base_tile_idx
  BY <1>2 DEF hostVars
<1>5. /\ o.op = "init" => o.status \in {"oob", "invalid"}
      /\ o.op = "seed" => s = "main" /\ Len(queue[s]) = Len(MainOps) - 1
      /\ hpc # "setup"
  <2>1. o.op = "init" => (\E x : o = Oob(x) \/ o = Reset(x))
    BY <1>2, HeadIs
  <2>2. o.op = "init" => o.status \in {"oob", "invalid"}
    BY <2>1, Kinds
  <2>. QED BY <1>2, <2>2, HeadIs
<1>6. tile_status \in [Ring -> States] /\ tile_inclusive \in [Ring -> Seq(Int)]
  BY <1>1 DEF Shape
<1>. HIDE DEF o
<1>7. tile_status' \in [Ring -> States]
  <2>1. CASE o.op = "init"
    BY <1>2, <1>5, <1>6, <2>1
  <2>2. CASE o.op # "init"
    BY <1>2, <1>6, <2>2
  <2>. QED BY <2>1, <2>2
<1>8. tile_inclusive' \in [Ring -> Seq(Int)]
  <2>1. CASE o.op = "seed"
    <3>1. <<>> \in Seq(Int)
      OBVIOUS
    <3>. QED BY <1>2, <1>6, <2>1, <3>1
  <2>2. CASE o.op # "seed"
    BY <1>2, <1>6, <2>2
  <2>. QED BY <2>1, <2>2
<1>9. Shape'
  <2>1. /\ tile_partial \in [Ring -> Seq(Int)]
        /\ block \in [AllTiles -> [pc : {"idle", "partial", "partial_status", "look", "value",
                                         "inclusive", "inclusive_status", "done"},
                                   aggregate : Seq(Int), window : Seq(Int), predecessor : Int,
                                   status : States]]
    BY <1>1 DEF Shape
  <2>. QED BY <1>2, <1>3, <1>7, <1>8, <2>1
           DEF Shape, AllTiles, num_tile_states, Streams, Operation
<1>10. BlockInv'
  <2>1. CASE o.op = "seed"
    <3>1. ~Seeded
      <4>1. s = "main" /\ Len(queue["main"]) = Len(MainOps) - 1
        BY <1>5, <2>1
      <4>2. Len(MainOps) \in Nat
        BY <1>1, HostFacts, MainAt, LenProperties
      <4>. QED BY <4>1, <4>2 DEF Seeded
    <3>2. \A t \in AllTiles : block[t].pc = "idle"
      BY <1>5, <3>1, Early
    <3>. QED BY <1>1, <1>2, <3>2 DEF BlockInv, Knows
  <2>2. CASE o.op # "seed"
    <3>1. tile_inclusive' = tile_inclusive
      BY <1>2, <2>2
    <3>2. block' = block /\ tile_partial' = tile_partial
      BY <1>2
    <3>3. BlockInv
      BY <1>1
    <3>. QED BY <1>4, <3>1, <3>2, <3>3
             DEF BlockInv, Knows, Upto, Span, Slot, num_tile_states, AllTiles
  <2>. QED BY <2>1, <2>2
<1>. QED BY <1>9, <1>10

LEMMA PopAll ==
  ASSUME NEW prev, PInv(prev), NEW s \in Streams, Taken(s)
  PROVE  PInv(prev)'
<1>1. /\ queue[s] # <<>> /\ Pop(s) /\ UNCHANGED hostVars
      /\ (\/ complete' = complete
          \/ Head(queue[s]).op = "record" /\ complete' = complete \cup {Head(queue[s]).event})
  BY Effects
<1>2. Queues(prev)' /\ HostInv' /\ ChunksInv' /\ EventsInv'
  BY <1>1, PopKeeps
<1>3. WaitsInv' /\ DataInv(prev)' /\ ScanInv' /\ RingInv' /\ Shape' /\ BlockInv'
  BY PopWaits, PopData, PopScan, PopRing, PopBlock
<1>. QED BY <1>2, <1>3 DEF PInv

\* The host and the streams stand still.
LEMMA StreamsKept ==
  ASSUME NEW prev, PInv(prev),
         UNCHANGED <<hostVars, complete, queue, memory, char_storage, output>>
  PROVE  /\ HostInv' /\ ChunksInv' /\ EventsInv' /\ Queues(prev)' /\ WaitsInv' /\ DataInv(prev)'
         /\ (Scanning' <=> Scanning) /\ (Scanned' <=> Scanned) /\ (Seeded' <=> Seeded)
         /\ Tiles' = Tiles /\ base_tile_idx' = base_tile_idx
<1>1. /\ Count' = Count /\ Tiles' = Tiles /\ (Scanning' <=> Scanning)
      /\ (Joining' <=> Joining) /\ (Looping' <=> Looping)
      /\ MainOps' = MainOps /\ ScanOps' = ScanOps /\ ReadOps(prev)' = ReadOps(prev)
      /\ (HostInv => HostInv') /\ (ChunksInv => ChunksInv')
  BY HostKept
<1>2. /\ hpc' = hpc /\ scan_stream' = scan_stream /\ read_stream' = read_stream
      /\ records' = records /\ last_launch_event' = last_launch_event
      /\ ticket_event' = ticket_event /\ tickets' = tickets /\ owner' = owner
      /\ chunk' = chunk /\ next_chunk' = next_chunk /\ base_tile_idx' = base_tile_idx
      /\ complete' = complete /\ queue' = queue /\ memory' = memory
      /\ char_storage' = char_storage /\ output' = output
  BY DEF hostVars
<1>3. HostInv' /\ ChunksInv'
  BY <1>1 DEF PInv
<1>4. EventsInv'
  BY <1>2 DEF PInv, EventsInv, Streams, num_tickets
<1>5. Queues(prev)'
  BY <1>1, <1>2 DEF PInv, Queues, Rest, Operation
<1>6. WaitsInv'
  BY <1>1, <1>2 DEF PInv, WaitsInv, Upto
<1>7. DataInv(prev)'
  BY <1>1, <1>2 DEF PInv, DataInv, Uploaded, CharsLeft, Upto, Streams, num_tickets
<1>8. (Scanned' <=> Scanned) /\ (Seeded' <=> Seeded)
  BY <1>1, <1>2 DEF Scanned, Seeded
<1>. QED BY <1>1, <1>2, <1>3, <1>4, <1>5, <1>6, <1>7, <1>8

\* A scan begins.
LEMMA ScanBegins ==
  ASSUME NEW prev, PInv(prev), NEW s \in Streams, RunScan(s)
  PROVE  PInv(prev)'
<1>. DEFINE o == Head(queue[s])
<1>1. /\ queue[s] # <<>> /\ o.op = "scan" /\ launched = {} /\ launched' = o.tiles
      /\ UNCHANGED <<hostVars, complete, queue, memory, char_storage, output>>
      /\ UNCHANGED <<tile_status, tile_partial, tile_inclusive, block>>
  BY DEF RunScan, Heads
<1>2. /\ HostInv' /\ ChunksInv' /\ EventsInv' /\ Queues(prev)' /\ WaitsInv' /\ DataInv(prev)'
      /\ (Scanning' <=> Scanning) /\ (Scanned' <=> Scanned) /\ (Seeded' <=> Seeded)
      /\ Tiles' = Tiles /\ base_tile_idx' = base_tile_idx
  BY <1>1, StreamsKept
<1>3. s = scan_stream /\ Scanning /\ Len(queue[s]) = 1 /\ o = Scan(Tiles, chunk)
  BY <1>1, HeadIs
<1>4. launched' = Tiles
  BY <1>1, <1>3, Kinds
<1>5. Tiles # {}
  BY TilesIn, <1>3 DEF PInv
<1>6. queue' = queue /\ scan_stream' = scan_stream
  BY <1>1 DEF hostVars
<1>7. ScanInv'
  <2>1. ScanInv
    BY DEF PInv
  <2>. QED BY <1>1, <1>2, <1>3, <1>4, <1>5, <1>6, <2>1 DEF ScanInv, AllTiles
<1>8. RingInv'
  BY <1>1, <1>2, <1>6 DEF PInv, RingInv, Placed, Published, Slot, num_tile_states, Upto
<1>9. BlockInv'
  BY <1>1, <1>2 DEF PInv, BlockInv, Knows, Slot, num_tile_states, Upto, Span, AllTiles
<1>10. Shape'
  BY <1>1 DEF PInv, Shape, num_tile_states, AllTiles, Streams, Operation
<1>. QED BY <1>2, <1>7, <1>8, <1>9, <1>10 DEF PInv

----------------------------------------------------------------------------
(* The blocks.                                                             *)

\* Where everything is while a block runs.
LEMMA BlockAt ==
  ASSUME NEW prev, PInv(prev), NEW t \in AllTiles,
         block[t].pc \notin {"idle", "done"} \/ t \in launched
  PROVE  /\ Scanning /\ launched = Tiles /\ t \in Tiles /\ Len(queue[scan_stream]) = 1
         /\ t >= base_tile_idx /\ base_tile_idx \in Nat /\ t \in Nat /\ Seeded
         /\ Tiles \subseteq AllTiles
         /\ \A u \in Tiles : Published(u) /\ Placed(u)
         /\ \A u \in base_tile_idx - 1 .. t :
              /\ Published(u) /\ Slot(u) \in 0 .. num_tile_states - 1
              /\ u >= base_tile_idx => u \in Tiles
         /\ \A u, v \in Tiles \cup {base_tile_idx - 1} : Slot(u) = Slot(v) => u = v
         /\ \A u \in Tiles \cup {base_tile_idx - 1} : Slot(u) \in 0 .. num_tile_states - 1
         /\ Published(base_tile_idx - 1) /\ tile_status[Slot(base_tile_idx - 1)] = "inclusive"
<1>1. HostInv /\ ChunksInv /\ EventsInv /\ ScanInv /\ RingInv
  BY DEF PInv
<1>2. Scanning /\ launched = Tiles /\ t \in Tiles /\ Len(queue[scan_stream]) = 1
  <2>1. t \in launched => launched # {}
    OBVIOUS
  <2>2. CASE launched # {}
    <3>1. Scanning /\ launched = Tiles /\ Len(queue[scan_stream]) = 1
      BY <1>1, <2>2 DEF ScanInv
    <3>2. base_tile_idx \in Nat
      BY <1>1, HostFacts
    <3>3. block[t].pc \notin {"idle", "done"} => t \in Tiles
      BY <1>1, <3>2 DEF ScanInv, AllTiles
    <3>. QED BY <3>1, <3>3
  <2>3. CASE launched = {}
    <3>1. base_tile_idx \in Nat
      BY <1>1, HostFacts
    <3>2. block[t].pc \notin {"idle", "done"}
      BY <2>3
    <3>3. t >= base_tile_idx
      BY <1>1, <3>1, <3>2 DEF ScanInv, AllTiles
    <3>4. Scanning /\ t \in Tiles /\ Scanned
      BY <1>1, <2>3, <3>2, <3>3 DEF ScanInv
    <3>5. block[t].pc = "done"
      BY <1>1, <3>4 DEF ScanInv
    <3>. QED BY <3>2, <3>5
  <2>. QED BY <2>2, <2>3
<1>3. /\ base_tile_idx \in Nat /\ TilesOf(Count) \in 1 .. TILES_PER_CHUNK
      /\ hpc # "setup"
  BY <1>1, <1>2, HostFacts DEF Scanning
<1>4. t >= base_tile_idx /\ t \in Nat /\ t <= base_tile_idx + TilesOf(Count) - 1
  BY <1>2, <1>3 DEF Tiles
<1>5. Seeded
  BY <1>2, <1>3, Early
<1>6. Tiles \subseteq AllTiles
  BY <1>1, <1>2, TilesIn
<1>7. Published(base_tile_idx - 1) /\ tile_status[Slot(base_tile_idx - 1)] = "inclusive"
  BY <1>1, <1>5 DEF RingInv
<1>8. \A u \in Tiles : Published(u) /\ Placed(u)
  BY <1>1, <1>2 DEF RingInv
<1>. DEFINE R == base_tile_idx - 1 .. base_tile_idx + TilesOf(Count) - 1
<1>9. /\ \A u \in R : Slot(u) \in 0 .. num_tile_states - 1
      /\ \A u, v \in R : Slot(u) = Slot(v) => u = v
  BY <1>1, SlotApart
<1>10. Tiles \cup {base_tile_idx - 1} = R
  BY <1>3 DEF Tiles
<1>11. \A u \in base_tile_idx - 1 .. t : u \in R /\ (u >= base_tile_idx => u \in Tiles)
  BY <1>3, <1>4 DEF Tiles
<1>. HIDE DEF R
<1>12. \A u \in base_tile_idx - 1 .. t : Published(u)
  BY <1>3, <1>7, <1>8, <1>10, <1>11
<1>. QED BY <1>2, <1>3, <1>4, <1>5, <1>6, <1>7, <1>8, <1>9, <1>10, <1>11, <1>12

\* A step of one block: it is enough to look at the block and at its place.
LEMMA BlockStep ==
  ASSUME NEW prev, PInv(prev), NEW t \in AllTiles,
         block[t].pc \notin {"idle", "done"} \/ t \in launched,
         UNCHANGED <<hostVars, launched, complete, queue, memory, char_storage, output>>,
         Shape', \A u \in AllTiles \ {t} : block'[u] = block[u], block'[t].pc # "idle",
         \A i \in (0 .. num_tile_states - 1) \ {Slot(t)} :
           /\ tile_status'[i] = tile_status[i] /\ tile_partial'[i] = tile_partial[i]
           /\ tile_inclusive'[i] = tile_inclusive[i],
         tile_partial[Slot(t)] = <<t>> => tile_partial'[Slot(t)] = <<t>>,
         tile_inclusive[Slot(t)] = Upto(t + 1) => tile_inclusive'[Slot(t)] = Upto(t + 1),
         Published(t)', Placed(t)', Knows(t)'
  PROVE  PInv(prev)'
<1>1. /\ Scanning /\ launched = Tiles /\ t \in Tiles /\ Len(queue[scan_stream]) = 1
      /\ t >= base_tile_idx /\ base_tile_idx \in Nat /\ t \in Nat /\ Seeded
      /\ Tiles \subseteq AllTiles
      /\ \A u \in Tiles : Published(u) /\ Placed(u)
      /\ \A u, v \in Tiles \cup {base_tile_idx - 1} : Slot(u) = Slot(v) => u = v
      /\ \A u \in Tiles \cup {base_tile_idx - 1} : Slot(u) \in 0 .. num_tile_states - 1
      /\ Published(base_tile_idx - 1) /\ tile_status[Slot(base_tile_idx - 1)] = "inclusive"
  BY BlockAt
<1>2. /\ HostInv' /\ ChunksInv' /\ EventsInv' /\ Queues(prev)' /\ WaitsInv' /\ DataInv(prev)'
      /\ (Scanning' <=> Scanning) /\ (Scanned' <=> Scanned) /\ (Seeded' <=> Seeded)
      /\ Tiles' = Tiles /\ base_tile_idx' = base_tile_idx
  BY StreamsKept
<1>3. ~Scanned
  BY <1>1 DEF Scanned
<1>4. queue' = queue /\ scan_stream' = scan_stream
  BY DEF hostVars
<1>5. \A u \in AllTiles : u # t => block'[u] = block[u]
  OBVIOUS
<1>6. ScanInv'
  <2>1. ScanInv
    BY DEF PInv
  <2>2. launched' # {} => Scanning' /\ launched' = Tiles' /\ Len(queue'[scan_stream']) = 1
    BY <1>1, <1>2, <1>4
  <2>3. ASSUME NEW u \in AllTiles
        PROVE  /\ u < base_tile_idx' => block'[u].pc = "done"
               /\ u >= base_tile_idx' /\ block'[u].pc # "idle"
                    => Scanning' /\ u \in Tiles' /\ (launched' # {} \/ Scanned')
               /\ Scanning' /\ Scanned' /\ u \in Tiles' => block'[u].pc = "done"
    <3>1. CASE u = t
      BY <1>1, <1>2, <1>3, <3>1
    <3>2. CASE u # t
      BY <1>1, <1>2, <1>3, <1>5, <2>1, <3>2 DEF ScanInv
    <3>. QED BY <3>1, <3>2
  <2>. QED BY <2>2, <2>3 DEF ScanInv, AllTiles
<1>. DEFINE last == base_tile_idx - 1
<1>7. ASSUME NEW u \in Tiles \cup {last}, u # t
      PROVE  /\ tile_status'[Slot(u)] = tile_status[Slot(u)]
             /\ tile_partial'[Slot(u)] = tile_partial[Slot(u)]
             /\ tile_inclusive'[Slot(u)] = tile_inclusive[Slot(u)]
  <2>1. Slot(u) # Slot(t) /\ Slot(u) \in 0 .. num_tile_states - 1
    BY <1>1, <1>7
  <2>. QED BY <2>1
<1>8. last # t
  BY <1>1
<1>9. RingInv'
  <2>1. /\ Published(last)' /\ tile_status'[Slot(last)] = "inclusive" /\ last' = last
    <3>1. last' = last
      BY <1>2
    <3>2. Published(last) /\ tile_status[Slot(last)] = "inclusive"
      BY <1>1
    <3>3. /\ tile_status'[Slot(last)] = tile_status[Slot(last)]
          /\ tile_partial'[Slot(last)] = tile_partial[Slot(last)]
          /\ tile_inclusive'[Slot(last)] = tile_inclusive[Slot(last)]
      BY <1>7, <1>8
    <3>. HIDE DEF last
    <3>4. Published(last)'
      BY <1>2, <3>1, <3>2, <3>3 DEF Published, Slot, num_tile_states, Upto
    <3>. QED BY <3>1, <3>2, <3>3, <3>4
  <2>2. ASSUME NEW u \in Tiles PROVE Published(u)' /\ Placed(u)'
    <3>1. CASE u # t
      <4>1. Published(u) /\ Placed(u) /\ block'[u] = block[u]
        BY <1>1, <1>5, <3>1
      <4>2. /\ tile_status'[Slot(u)] = tile_status[Slot(u)]
            /\ tile_partial'[Slot(u)] = tile_partial[Slot(u)]
            /\ tile_inclusive'[Slot(u)] = tile_inclusive[Slot(u)]
        BY <1>7, <3>1
      <4>3. Published(u)'
        BY <1>2, <4>1, <4>2, PublishedKept
      <4>4. Placed(u)'
        BY <4>1, <4>2 DEF Placed, Slot, num_tile_states, Upto
      <4>. QED BY <4>3, <4>4
    <3>2. CASE u = t
      BY <3>2
    <3>. QED BY <3>1, <3>2
  <2>. QED BY <1>2, <2>1, <2>2 DEF RingInv, Slot, num_tile_states
<1>10. BlockInv'
  <2>1. ASSUME NEW u \in AllTiles PROVE Knows(u)'
    <3>1. CASE u = t
      BY <3>1
    <3>2. CASE u # t
      <4>1. Knows(u) /\ block'[u] = block[u] /\ base_tile_idx' = base_tile_idx
        BY <1>2, <1>5, <3>2 DEF PInv, BlockInv
      <4>. DEFINE p == block[u].predecessor
      <4>2. CASE block[u].pc = "value"
        <5>1. p \in base_tile_idx - 1 .. u - 1
          BY <4>1, <4>2 DEF Knows
        <5>2. u \in Tiles
          BY <4>2, BlockAt
        <5>3. p \in Tiles \cup {last}
          <6>1. TilesOf(Count) \in Int
            BY HostFacts DEF PInv
          <6>. HIDE DEF p
          <6>. QED BY <1>1, <5>1, <5>2, <6>1 DEF Tiles
        <5>. HIDE DEF p
        <5>4. /\ tile_partial[Slot(p)] = <<p>> => tile_partial'[Slot(p)] = <<p>>
              /\ tile_inclusive[Slot(p)] = Upto(p + 1) => tile_inclusive'[Slot(p)] = Upto(p + 1)
          <6>1. CASE p = t
            BY <6>1
          <6>2. CASE p # t
            BY <1>7, <5>3, <6>2
          <6>. QED BY <6>1, <6>2
        <5>. QED BY <4>1, <4>2, <5>4 DEF Knows, Slot, num_tile_states, Upto, Span, p
      <4>3. CASE block[u].pc # "value"
        BY <4>1, <4>3 DEF Knows, Slot, num_tile_states, Upto, Span
      <4>. QED BY <4>2, <4>3
    <3>. QED BY <3>1, <3>2
  <2>. QED BY <2>1 DEF BlockInv, AllTiles
<1>. QED BY <1>2, <1>6, <1>9, <1>10 DEF PInv

BlockRecord == [pc : {"idle", "partial", "partial_status", "look", "value",
                      "inclusive", "inclusive_status", "done"},
                aggregate : Seq(Int), window : Seq(Int), predecessor : Int,
                status : {"invalid", "oob", "partial", "inclusive"}]

\* What a step of a block leaves behind has the right shape.
LEMMA BlockShape ==
  ASSUME Shape, UNCHANGED queue, NEW t \in AllTiles,
         block' = [block EXCEPT ![t] = block'[t]], block'[t] \in BlockRecord,
         \/ tile_status' = tile_status
         \/ \E x \in {"invalid", "oob", "partial", "inclusive"} :
              tile_status' = [tile_status EXCEPT ![Slot(t)] = x],
         \/ tile_partial' = tile_partial
         \/ \E x \in Seq(Int) : tile_partial' = [tile_partial EXCEPT ![Slot(t)] = x],
         \/ tile_inclusive' = tile_inclusive
         \/ \E x \in Seq(Int) : tile_inclusive' = [tile_inclusive EXCEPT ![Slot(t)] = x]
  PROVE  /\ Shape' /\ \A u \in AllTiles \ {t} : block'[u] = block[u]
         /\ \A i \in (0 .. num_tile_states - 1) \ {Slot(t)} :
              /\ tile_status'[i] = tile_status[i] /\ tile_partial'[i] = tile_partial[i]
              /\ tile_inclusive'[i] = tile_inclusive[i]
<1>. DEFINE States == {"invalid", "oob", "partial", "inclusive"}
            Ring == 0 .. num_tile_states - 1
<1>1. /\ tile_status \in [Ring -> States] /\ tile_partial \in [Ring -> Seq(Int)]
      /\ tile_inclusive \in [Ring -> Seq(Int)] /\ block \in [AllTiles -> BlockRecord]
      /\ queue' \in [Streams -> Seq(Operation)]
  BY DEF Shape, BlockRecord
<1>. HIDE DEF Ring, States
<1>2. tile_status' \in [Ring -> States] /\ \A i \in Ring \ {Slot(t)} : tile_status'[i] = tile_status[i]
  BY <1>1 DEF States
<1>3. /\ tile_partial' \in [Ring -> Seq(Int)]
      /\ \A i \in Ring \ {Slot(t)} : tile_partial'[i] = tile_partial[i]
  BY <1>1
<1>4. /\ tile_inclusive' \in [Ring -> Seq(Int)]
      /\ \A i \in Ring \ {Slot(t)} : tile_inclusive'[i] = tile_inclusive[i]
  BY <1>1
<1>5. block' \in [AllTiles -> BlockRecord] /\ \A u \in AllTiles \ {t} : block'[u] = block[u]
  BY <1>1
<1>. QED BY <1>1, <1>2, <1>3, <1>4, <1>5
         DEF Shape, BlockRecord, AllTiles, num_tile_states, Streams, Operation, Ring, States

\* A block that starts reads its chunk's data.
LEMMA DispatchKeeps ==
  ASSUME NEW prev, PInv(prev), NEW t \in AllTiles, Dispatch(t)
  PROVE  PInv(prev)'
<1>. DEFINE r == [block[t] EXCEPT !.pc = "partial", !.aggregate = Aggregate(t)]
<1>1. /\ t \in launched /\ block[t].pc = "idle" /\ block' = [block EXCEPT ![t] = r]
      /\ UNCHANGED <<hostVars, launched, complete, queue, memory, char_storage, output>>
      /\ UNCHANGED <<tile_status, tile_partial, tile_inclusive>>
  BY DEF Dispatch, Goto
<1>2. /\ Scanning /\ launched = Tiles /\ t \in Tiles /\ Len(queue[scan_stream]) = 1
      /\ Published(t) /\ Placed(t) /\ t \in Nat
  BY <1>1, BlockAt
<1>3. Shape /\ Knows(t) /\ HostInv /\ ChunksInv /\ EventsInv /\ DataInv(prev)
  BY DEF PInv, BlockInv
<1>4. scan_stream \in Streams /\ chunk.number = Count /\ Count < Chunks /\ Looping
  <2>1. Looping
    BY <1>2 DEF Scanning, Looping
  <2>. QED BY <1>2, <1>3, <2>1, HostFacts, TilesIn
<1>5. queue[scan_stream] # <<>>
  <2>1. Len(queue[scan_stream]) = 1
    BY <1>2
  <2>. QED BY <2>1, LenEmpty
<1>6. Head(queue[scan_stream]) = Scan(Tiles, chunk)
  BY <1>2, <1>4, <1>5, HeadAt
<1>7. Aggregate(t) = <<t>>
  <2>. DEFINE P(x) == Heads(x, "scan") /\ Head(queue[x]).tiles = launched
              s == CHOOSE x \in Streams : P(x)
              o == Head(queue[s])
  <2>1. P(scan_stream)
    BY <1>2, <1>5, <1>6, Kinds DEF Heads
  <2>2. \A x \in Streams : P(x) => x = scan_stream
    BY HeadIs DEF Heads
  <2>3. s = scan_stream
    BY <1>4, <2>1, <2>2
  <2>4. Aggregate(t) = IF memory[o.buffer] = o.number THEN <<t>> ELSE <<None>>
    BY DEF Aggregate
  <2>. HIDE DEF s, P
  <2>5. o.buffer = chunk.buffer /\ o.number = Count
    BY <1>4, <1>6, <2>3, Kinds
  <2>6. Uploaded
    <3>1. Len(ScanOps) = 6
      BY <1>2, <1>3, ScanAt
    <3>. QED BY <1>2, <3>1 DEF Uploaded
  <2>7. memory[chunk.buffer] = Count
    BY <1>3, <1>4, <2>6 DEF DataInv
  <2>. QED BY <2>4, <2>5, <2>7
<1>8. block[t] \in BlockRecord /\ block \in [AllTiles -> BlockRecord]
  BY <1>3 DEF Shape, BlockRecord
<1>9. r = [block[t] EXCEPT !.pc = "partial", !.aggregate = <<t>>]
  BY <1>7
<1>10. /\ r \in BlockRecord /\ r.pc = "partial" /\ r.aggregate = <<t>>
       /\ r.window = block[t].window
  <2>1. <<t>> \in Seq(Int)
    BY <1>2
  <2>. HIDE DEF r
  <2>. QED BY <1>8, <1>9, <2>1 DEF BlockRecord
<1>. HIDE DEF r
<1>11. block'[t] = r
  BY <1>1, <1>8
<1>12. /\ Shape' /\ \A u \in AllTiles \ {t} : block'[u] = block[u]
       /\ \A i \in (0 .. num_tile_states - 1) \ {Slot(t)} :
            /\ tile_status'[i] = tile_status[i] /\ tile_partial'[i] = tile_partial[i]
            /\ tile_inclusive'[i] = tile_inclusive[i]
  BY <1>1, <1>3, <1>10, <1>11, BlockShape
<1>13. Published(t)'
  BY <1>1, <1>2, PublishedKept DEF hostVars
<1>14. Placed(t)'
  BY <1>10, <1>11 DEF Placed
<1>15. Knows(t)'
  BY <1>1, <1>3, <1>10, <1>11 DEF Knows
<1>. QED BY <1>1, <1>2, <1>10, <1>11, <1>12, <1>13, <1>14, <1>15, BlockStep

LEMMA SetPartialKeeps ==
  ASSUME NEW prev, PInv(prev), NEW t \in AllTiles, SetPartial(t)
  PROVE  PInv(prev)'
<1>. DEFINE r == [block[t] EXCEPT !.pc = "partial_status"]
<1>1. /\ block[t].pc = "partial" /\ block' = [block EXCEPT ![t] = r]
      /\ tile_partial' = [tile_partial EXCEPT ![Slot(t)] = block[t].aggregate]
      /\ UNCHANGED <<hostVars, launched, complete, queue, memory, char_storage, output>>
      /\ UNCHANGED <<tile_status, tile_inclusive>>
  BY DEF SetPartial, Goto
<1>2. t \in Tiles /\ Published(t) /\ Slot(t) \in 0 .. num_tile_states - 1 /\ t \in Nat
  BY <1>1, BlockAt
<1>3. Shape /\ Knows(t)
  BY DEF PInv, BlockInv
<1>4. block[t].aggregate = <<t>> /\ block[t].window = <<>>
  BY <1>1, <1>3 DEF Knows
<1>5. block[t] \in BlockRecord /\ block \in [AllTiles -> BlockRecord]
      /\ tile_partial \in [0 .. num_tile_states - 1 -> Seq(Int)]
  BY <1>3 DEF Shape, BlockRecord
<1>6. /\ r \in BlockRecord /\ r.pc = "partial_status" /\ r.aggregate = <<t>> /\ r.window = <<>>
  BY <1>4, <1>5 DEF BlockRecord
<1>. HIDE DEF r
<1>7. block'[t] = r /\ tile_partial'[Slot(t)] = <<t>> /\ <<t>> \in Seq(Int)
  BY <1>1, <1>2, <1>4, <1>5
<1>8. /\ Shape' /\ \A u \in AllTiles \ {t} : block'[u] = block[u]
      /\ \A i \in (0 .. num_tile_states - 1) \ {Slot(t)} :
           /\ tile_status'[i] = tile_status[i] /\ tile_partial'[i] = tile_partial[i]
           /\ tile_inclusive'[i] = tile_inclusive[i]
  BY <1>1, <1>3, <1>4, <1>6, <1>7, BlockShape
<1>9. Published(t)'
  <2>1. base_tile_idx' = base_tile_idx
    BY <1>1 DEF hostVars
  <2>. QED BY <1>1, <1>2, <1>7, <2>1 DEF Published, Slot, num_tile_states, Upto
<1>10. Placed(t)'
  BY <1>6, <1>7 DEF Placed, Slot, num_tile_states
<1>11. Knows(t)'
  BY <1>6, <1>7 DEF Knows
<1>. QED BY <1>1, <1>6, <1>7, <1>8, <1>9, <1>10, <1>11, BlockStep

LEMMA SetPartialStatusKeeps ==
  ASSUME NEW prev, PInv(prev), NEW t \in AllTiles, SetPartialStatus(t)
  PROVE  PInv(prev)'
<1>. DEFINE r == [block[t] EXCEPT !.pc = "look", !.predecessor = t - 1]
<1>1. /\ block[t].pc = "partial_status" /\ block' = [block EXCEPT ![t] = r]
      /\ tile_status' = [tile_status EXCEPT ![Slot(t)] = "partial"]
      /\ UNCHANGED <<hostVars, launched, complete, queue, memory, char_storage, output>>
      /\ UNCHANGED <<tile_partial, tile_inclusive>>
  BY DEF SetPartialStatus, Goto
<1>2. /\ t \in Tiles /\ Placed(t) /\ Slot(t) \in 0 .. num_tile_states - 1 /\ t \in Nat
      /\ t >= base_tile_idx /\ base_tile_idx \in Nat
  BY <1>1, BlockAt
<1>3. Shape /\ Knows(t)
  BY DEF PInv, BlockInv
<1>4. block[t].aggregate = <<t>> /\ block[t].window = <<>>
  BY <1>1, <1>3 DEF Knows
<1>5. block[t] \in BlockRecord /\ block \in [AllTiles -> BlockRecord]
      /\ tile_status \in [0 .. num_tile_states - 1 -> {"invalid", "oob", "partial", "inclusive"}]
  BY <1>3 DEF Shape, BlockRecord
<1>6. /\ r \in BlockRecord /\ r.pc = "look" /\ r.aggregate = <<t>> /\ r.window = <<>>
      /\ r.predecessor = t - 1
  <2>. DEFINE p == t - 1
  <2>1. p \in Int
    BY <1>2
  <2>. HIDE DEF p
  <2>2. /\ [block[t] EXCEPT !.pc = "look", !.predecessor = p] \in BlockRecord
        /\ [block[t] EXCEPT !.pc = "look", !.predecessor = p].predecessor = p
    BY <1>5, <2>1 DEF BlockRecord
  <2>3. r.pc = "look" /\ r.aggregate = <<t>> /\ r.window = <<>>
    BY <1>4, <1>5 DEF BlockRecord
  <2>. QED BY <2>2, <2>3 DEF p
<1>. HIDE DEF r
<1>7. block'[t] = r /\ tile_status'[Slot(t)] = "partial"
  BY <1>1, <1>2, <1>5
<1>8. /\ Shape' /\ \A u \in AllTiles \ {t} : block'[u] = block[u]
      /\ \A i \in (0 .. num_tile_states - 1) \ {Slot(t)} :
           /\ tile_status'[i] = tile_status[i] /\ tile_partial'[i] = tile_partial[i]
           /\ tile_inclusive'[i] = tile_inclusive[i]
  BY <1>1, <1>3, <1>6, <1>7, BlockShape
<1>9. base_tile_idx' = base_tile_idx
  BY <1>1 DEF hostVars
<1>10. tile_partial[Slot(t)] = <<t>>
  BY <1>1, <1>2 DEF Placed
<1>11. Published(t)'
  BY <1>1, <1>2, <1>7, <1>9, <1>10 DEF Published, Slot, num_tile_states
<1>12. Placed(t)'
  BY <1>6, <1>7 DEF Placed
<1>13. Knows(t)'
  <2>1. (t - 1) + 1 = t /\ t - 1 \in base_tile_idx - 1 .. t - 1
    BY <1>2
  <2>2. Span(t, t) = <<>>
    BY <1>2, SpanFacts
  <2>. QED BY <1>6, <1>7, <1>9, <2>1, <2>2 DEF Knows, Span
<1>. QED BY <1>1, <1>6, <1>7, <1>8, <1>11, <1>12, <1>13, BlockStep

\* What a block sees of a predecessor belongs to the predecessor.
LEMMA LoadStatusKeeps ==
  ASSUME NEW prev, PInv(prev), NEW t \in AllTiles, LoadStatus(t)
  PROVE  PInv(prev)'
<1>. DEFINE p == block[t].predecessor
            x == tile_status[Slot(p)]
            r == [block[t] EXCEPT !.pc = "value", !.status = x]
<1>1. /\ block[t].pc = "look" /\ block' = [block EXCEPT ![t] = r] /\ x # "invalid"
      /\ UNCHANGED <<hostVars, launched, complete, queue, memory, char_storage, output>>
      /\ UNCHANGED <<tile_status, tile_partial, tile_inclusive>>
  BY DEF LoadStatus, Goto
<1>2. /\ t \in Tiles /\ Published(t) /\ t \in Nat /\ base_tile_idx \in Nat
      /\ \A u \in base_tile_idx - 1 .. t : Published(u)
  BY <1>1, BlockAt
<1>3. Shape /\ Knows(t)
  BY DEF PInv, BlockInv
<1>4. /\ block[t].aggregate = <<t>> /\ p \in base_tile_idx - 1 .. t - 1
      /\ block[t].window = Span(p + 1, t)
  BY <1>1, <1>3 DEF Knows
<1>5. block[t] \in BlockRecord /\ block \in [AllTiles -> BlockRecord]
  BY <1>3 DEF Shape, BlockRecord
<1>6. p \in base_tile_idx - 1 .. t
  BY <1>2, <1>4
<1>7. Published(p)
  BY <1>2, <1>6
<1>8. /\ x \in {"partial", "inclusive"}
      /\ x = "partial" => p >= base_tile_idx /\ tile_partial[Slot(p)] = <<p>>
      /\ x = "inclusive" => tile_inclusive[Slot(p)] = Upto(p + 1)
  BY <1>1, <1>7 DEF Published
<1>9. /\ r \in BlockRecord /\ r.pc = "value" /\ r.aggregate = <<t>> /\ r.status = x
      /\ r.predecessor = p /\ r.window = Span(p + 1, t)
  <2>. HIDE DEF x
  <2>. QED BY <1>4, <1>5, <1>8 DEF BlockRecord
<1>. HIDE DEF r, x, p
<1>10. block'[t] = r
  BY <1>1, <1>5
<1>11. /\ Shape' /\ \A u \in AllTiles \ {t} : block'[u] = block[u]
       /\ \A i \in (0 .. num_tile_states - 1) \ {Slot(t)} :
            /\ tile_status'[i] = tile_status[i] /\ tile_partial'[i] = tile_partial[i]
            /\ tile_inclusive'[i] = tile_inclusive[i]
  BY <1>1, <1>3, <1>9, <1>10, BlockShape
<1>12. base_tile_idx' = base_tile_idx
  BY <1>1 DEF hostVars
<1>13. Published(t)'
  BY <1>1, <1>2, <1>12, PublishedKept
<1>14. Placed(t)'
  BY <1>9, <1>10 DEF Placed
<1>15. Knows(t)'
  BY <1>1, <1>4, <1>8, <1>9, <1>10, <1>12 DEF Knows, Span, Slot, num_tile_states, Upto
<1>. QED BY <1>1, <1>9, <1>10, <1>11, <1>13, <1>14, <1>15, BlockStep

\* A block takes the prefix of the predecessor before its own sum.
LEMMA LoadValueKeeps ==
  ASSUME NEW prev, PInv(prev), NEW t \in AllTiles, LoadValue(t)
  PROVE  PInv(prev)'
<1>. DEFINE p == block[t].predecessor
            x == block[t].status
            w == block[t].window
            prefix == IF x = "partial" THEN tile_partial[Slot(p)] ELSE tile_inclusive[Slot(p)]
            to == IF x = "inclusive" THEN "inclusive" ELSE "look"
            r == [block[t] EXCEPT !.window = prefix \o w, !.pc = to, !.predecessor = p - 1]
<1>1. /\ block[t].pc = "value"
      /\ UNCHANGED <<hostVars, launched, complete, queue, memory, char_storage, output>>
      /\ UNCHANGED <<tile_status, tile_partial, tile_inclusive>>
  BY DEF LoadValue, Goto
<1>16. block' = [block EXCEPT ![t] = r]
  BY DEF LoadValue, Goto
<1>2. /\ t \in Tiles /\ Published(t) /\ t \in Nat /\ base_tile_idx \in Nat
  BY <1>1, BlockAt
<1>3. Shape /\ Knows(t)
  BY DEF PInv, BlockInv
<1>4. /\ block[t].aggregate = <<t>> /\ p \in base_tile_idx - 1 .. t - 1
      /\ w = Span(p + 1, t) /\ x \in {"partial", "inclusive"}
      /\ x = "partial" => p >= base_tile_idx /\ tile_partial[Slot(p)] = <<p>>
      /\ x = "inclusive" => tile_inclusive[Slot(p)] = Upto(p + 1)
  BY <1>1, <1>3 DEF Knows
<1>5. block[t] \in BlockRecord /\ block \in [AllTiles -> BlockRecord]
  BY <1>3 DEF Shape, BlockRecord
<1>. DEFINE v == prefix \o w
            y == p - 1
<1>6. /\ x = "partial" => /\ v = Span(y + 1, t) /\ y \in base_tile_idx - 1 .. t - 1
                          /\ to = "look" /\ v \in Seq(Int)
      /\ x = "inclusive" => v = Upto(t) /\ to = "inclusive" /\ v \in Seq(Int)
      /\ y \in Int
  <2>1. CASE x = "partial"
    <3>1. p \in Int /\ p < t /\ t \in Int /\ y + 1 = p /\ y \in base_tile_idx - 1 .. t - 1
          /\ y \in Int
      BY <1>2, <1>4, <2>1
    <3>2. prefix = <<p>> /\ w = Span(p + 1, t)
      BY <1>4, <2>1
    <3>. HIDE DEF p, x, w, prefix, y
    <3>3. v = Span(p, t) /\ Span(p, t) \in Seq(Int)
      <4>1. \A a, b \in Int : a < b => <<a>> \o Span(a + 1, b) = Span(a, b)
        BY SpanFacts, Zenon
      <4>2. <<p>> \o Span(p + 1, t) = Span(p, t)
        BY <3>1, <4>1
      <4>3. Span(p, t) \in Seq(Int)
        BY <3>1, SpanFacts
      <4>4. v = <<p>> \o Span(p + 1, t)
        BY <3>2, Zenon
      <4>. QED BY <4>2, <4>3, <4>4, Zenon
    <3>. QED BY <2>1, <3>1, <3>3
  <2>2. CASE x = "inclusive"
    <3>1. p + 1 \in Nat /\ p + 1 <= t /\ y \in Int
      BY <1>2, <1>4
    <3>2. prefix = Upto(p + 1) /\ w = Span(p + 1, t)
      BY <1>4, <2>2
    <3>. HIDE DEF p, x, w, prefix, y
    <3>3. v = Upto(t) /\ Upto(t) \in Seq(Int)
      BY <1>2, <3>1, <3>2, SpanFacts, UptoFacts
    <3>. QED BY <2>2, <3>1, <3>3
  <2>. QED BY <1>4, <2>1, <2>2
<1>7. v \in Seq(Int) /\ y \in Int /\ to \in {"look", "inclusive"}
  BY <1>4, <1>6
<1>. HIDE DEF v, y, to
<1>8. r = [block[t] EXCEPT !.window = v, !.pc = to, !.predecessor = y]
  BY DEF v, y
<1>. HIDE DEF r, p, x, w, prefix
<1>9. /\ r \in BlockRecord /\ r.pc = to /\ r.aggregate = <<t>> /\ r.status = x
      /\ r.predecessor = y /\ r.window = v
  BY <1>4, <1>5, <1>7, <1>8 DEF BlockRecord, x
<1>10. block'[t] = r
  BY <1>5, <1>16
<1>11. /\ Shape' /\ \A u \in AllTiles \ {t} : block'[u] = block[u]
       /\ \A i \in (0 .. num_tile_states - 1) \ {Slot(t)} :
            /\ tile_status'[i] = tile_status[i] /\ tile_partial'[i] = tile_partial[i]
            /\ tile_inclusive'[i] = tile_inclusive[i]
  BY <1>1, <1>3, <1>9, <1>10, <1>16, BlockShape
<1>12. base_tile_idx' = base_tile_idx
  BY <1>1 DEF hostVars
<1>13. Published(t)'
  BY <1>1, <1>2, <1>12, PublishedKept
<1>14. Placed(t)'
  BY <1>7, <1>9, <1>10 DEF Placed
<1>15. Knows(t)'
  BY <1>4, <1>6, <1>9, <1>10, <1>12 DEF Knows, Span, Upto
<1>17. r.pc # "idle"
  BY <1>7, <1>9
<1>. QED BY <1>1, <1>10, <1>11, <1>13, <1>14, <1>15, <1>17, BlockStep

LEMMA SetInclusiveKeeps ==
  ASSUME NEW prev, PInv(prev), NEW t \in AllTiles, SetInclusive(t)
  PROVE  PInv(prev)'
<1>. DEFINE r == [block[t] EXCEPT !.pc = "inclusive_status"]
<1>1. /\ block[t].pc = "inclusive" /\ block' = [block EXCEPT ![t] = r]
      /\ tile_inclusive' = [tile_inclusive EXCEPT ![Slot(t)] =
                              block[t].window \o block[t].aggregate]
      /\ UNCHANGED <<hostVars, launched, complete, queue, memory, char_storage, output>>
      /\ UNCHANGED <<tile_status, tile_partial>>
  BY DEF SetInclusive, Goto
<1>2. t \in Tiles /\ Published(t) /\ Slot(t) \in 0 .. num_tile_states - 1 /\ t \in Nat
  BY <1>1, BlockAt
<1>3. Shape /\ Knows(t)
  BY DEF PInv, BlockInv
<1>4. block[t].aggregate = <<t>> /\ block[t].window = Upto(t)
  BY <1>1, <1>3 DEF Knows
<1>5. block[t] \in BlockRecord /\ block \in [AllTiles -> BlockRecord]
      /\ tile_inclusive \in [0 .. num_tile_states - 1 -> Seq(Int)]
  BY <1>3 DEF Shape, BlockRecord
<1>6. /\ r \in BlockRecord /\ r.pc = "inclusive_status" /\ r.aggregate = <<t>>
      /\ r.window = Upto(t)
  BY <1>4, <1>5 DEF BlockRecord
<1>. HIDE DEF r
<1>12. block[t].window \o block[t].aggregate = Upto(t + 1) /\ Upto(t + 1) \in Seq(Int)
  <2>1. Upto(t) \o <<t>> = Upto(t + 1)
    BY <1>2, UptoFacts, Zenon
  <2>2. Upto(t + 1) \in Seq(Int)
    BY <1>2, UptoFacts
  <2>. QED BY <1>4, <2>1, <2>2, Zenon
<1>13. tile_inclusive' = [tile_inclusive EXCEPT ![Slot(t)] = Upto(t + 1)]
  BY <1>1, <1>12
<1>7. block'[t] = r /\ tile_inclusive'[Slot(t)] = Upto(t + 1)
  BY <1>1, <1>2, <1>5, <1>13
<1>8. /\ Shape' /\ \A u \in AllTiles \ {t} : block'[u] = block[u]
      /\ \A i \in (0 .. num_tile_states - 1) \ {Slot(t)} :
           /\ tile_status'[i] = tile_status[i] /\ tile_partial'[i] = tile_partial[i]
           /\ tile_inclusive'[i] = tile_inclusive[i]
  BY <1>1, <1>3, <1>6, <1>7, <1>12, <1>13, BlockShape
<1>9. Published(t)'
  <2>1. base_tile_idx' = base_tile_idx
    BY <1>1 DEF hostVars
  <2>. QED BY <1>1, <1>2, <1>7, <2>1 DEF Published, Slot, num_tile_states, Upto
<1>10. Placed(t)'
  BY <1>6, <1>7 DEF Placed, Slot, num_tile_states, Upto
<1>11. Knows(t)'
  BY <1>6, <1>7 DEF Knows, Upto
<1>. QED BY <1>1, <1>6, <1>7, <1>8, <1>9, <1>10, <1>11, BlockStep

LEMMA SetInclusiveStatusKeeps ==
  ASSUME NEW prev, PInv(prev), NEW t \in AllTiles, SetInclusiveStatus(t)
  PROVE  PInv(prev)'
<1>. DEFINE r == [block[t] EXCEPT !.pc = "done"]
<1>1. /\ block[t].pc = "inclusive_status" /\ block' = [block EXCEPT ![t] = r]
      /\ tile_status' = [tile_status EXCEPT ![Slot(t)] = "inclusive"]
      /\ UNCHANGED <<hostVars, launched, complete, queue, memory, char_storage, output>>
      /\ UNCHANGED <<tile_partial, tile_inclusive>>
  BY DEF SetInclusiveStatus, Goto
<1>2. t \in Tiles /\ Placed(t) /\ Slot(t) \in 0 .. num_tile_states - 1 /\ t \in Nat
  BY <1>1, BlockAt
<1>3. Shape /\ Knows(t)
  BY DEF PInv, BlockInv
<1>4. block[t].aggregate = <<t>> /\ block[t].window = Upto(t)
      /\ tile_inclusive[Slot(t)] = Upto(t + 1)
  BY <1>1, <1>2, <1>3 DEF Knows, Placed
<1>5. block[t] \in BlockRecord /\ block \in [AllTiles -> BlockRecord]
      /\ tile_status \in [0 .. num_tile_states - 1 -> {"invalid", "oob", "partial", "inclusive"}]
  BY <1>3 DEF Shape, BlockRecord
<1>6. r \in BlockRecord /\ r.pc = "done" /\ r.aggregate = <<t>> /\ r.window = Upto(t)
  BY <1>4, <1>5 DEF BlockRecord
<1>. HIDE DEF r
<1>7. block'[t] = r /\ tile_status'[Slot(t)] = "inclusive"
  BY <1>1, <1>2, <1>5
<1>8. /\ Shape' /\ \A u \in AllTiles \ {t} : block'[u] = block[u]
      /\ \A i \in (0 .. num_tile_states - 1) \ {Slot(t)} :
           /\ tile_status'[i] = tile_status[i] /\ tile_partial'[i] = tile_partial[i]
           /\ tile_inclusive'[i] = tile_inclusive[i]
  BY <1>1, <1>3, <1>6, <1>7, BlockShape
<1>9. Published(t)'
  BY <1>1, <1>4, <1>7 DEF Published, Slot, num_tile_states, Upto
<1>10. Placed(t)'
  BY <1>6, <1>7 DEF Placed, Slot, num_tile_states
<1>11. Knows(t)'
  BY <1>6, <1>7 DEF Knows, Upto
<1>. QED BY <1>1, <1>6, <1>7, <1>8, <1>9, <1>10, <1>11, BlockStep

LEMMA BlockKeeps ==
  ASSUME NEW prev, PInv(prev), NEW t \in AllTiles, Block(t)
  PROVE  PInv(prev)'
BY DispatchKeeps, SetPartialKeeps, SetPartialStatusKeeps, LoadStatusKeeps, LoadValueKeeps,
   SetInclusiveKeeps, SetInclusiveStatusKeeps DEF Block

----------------------------------------------------------------------------
(* The host.                                                               *)

LEMMA NothingBehind ==
  /\ \A a : <<a>> \o <<>> = <<a>>
  /\ \A a, b : <<a, b>> \o <<>> = <<a, b>>
  /\ \A a, b, c : <<a, b, c>> \o <<>> = <<a, b, c>>
  /\ \A a, b : (<<a>> \o <<b>>) \o <<>> = <<a>> \o <<b>>
  /\ \A a, b, c : (<<a>> \o <<b, c>>) \o <<>> = <<a>> \o <<b, c>>
  /\ <<>> \o <<>> = <<>>
<1>1. ASSUME NEW a, NEW b, NEW c
      PROVE  /\ <<a>> \o <<>> = <<a>> /\ <<a, b>> \o <<>> = <<a, b>>
             /\ <<a, b, c>> \o <<>> = <<a, b, c>>
             /\ (<<a>> \o <<b>>) \o <<>> = <<a>> \o <<b>>
             /\ (<<a>> \o <<b, c>>) \o <<>> = <<a>> \o <<b, c>>
  <2>. DEFINE S == {a, b, c}
              x == <<a>>
              y == <<b>>
              z == <<b, c>>
              v == <<a, b>>
              w == <<a, b, c>>
  <2>1. x \in Seq(S) /\ y \in Seq(S) /\ z \in Seq(S) /\ v \in Seq(S) /\ w \in Seq(S)
    OBVIOUS
  <2>. HIDE DEF S, x, y, z, v, w
  <2>2. x \o y \in Seq(S) /\ x \o z \in Seq(S)
    BY <2>1, ConcatProperties
  <2>3. \A s \in Seq(S) : s \o <<>> = s
    BY ConcatEmptySeq
  <2>4. /\ x \o <<>> = x /\ v \o <<>> = v /\ w \o <<>> = w
        /\ (x \o y) \o <<>> = x \o y /\ (x \o z) \o <<>> = x \o z
    BY <2>1, <2>2, <2>3
  <2>. QED BY <2>4, Zenon DEF x, y, z, v, w
<1>2. <<>> \o <<>> = <<>>
  BY Tuples
<1>3. \A a : <<a>> \o <<>> = <<a>>
  BY <1>1, Zenon
<1>4. \A a, b : <<a, b>> \o <<>> = <<a, b>> /\ (<<a>> \o <<b>>) \o <<>> = <<a>> \o <<b>>
  BY <1>1, Zenon
<1>5. \A a, b, c : <<a, b, c>> \o <<>> = <<a, b, c>>
  BY <1>1
<1>6. \A a, b, c : (<<a>> \o <<b, c>>) \o <<>> = <<a>> \o <<b, c>>
  BY <1>1
<1>. QED BY <1>2, <1>3, <1>4, <1>5, <1>6, Zenon

\* What a stream begins with.
MainBase == <<Oob((0 - TILES_PER_CHUNK) .. -1), Seed, Record(1)>>
ScanBase == <<Wait(1)>> \o Reading(chunk, Count)
ReadBase(p) == IF Count = 0 THEN <<Wait(1)>>
               ELSE <<CopyChars([buffer |-> p]), Record(last_launch_event)>>

FormsHold ==
  /\ hpc = "setup" => MainOps = <<>> /\ ScanOps = <<>> /\ \A p : ReadOps(p) = <<>>
  /\ hpc \in {"first", "loop", "read", "sync"} => MainOps = MainBase
  /\ Joining => MainOps = MainBase \o <<Wait(records - 1), Wait(records), GatherOp>>
  /\ hpc = "first" => ScanOps = <<Wait(1)>>
  /\ hpc = "loop" => ScanOps = ScanBase
  /\ Scanning => ScanOps = ScanBase \o <<Reset(Tiles), Wait(last_launch_event), Scan(Tiles, chunk)>>
  /\ Joining => ScanOps = ScanBase \o <<Record(JoinEvent(scan_stream))>>
  /\ hpc \in {"first", "loop", "read"} => \A p : ReadOps(p) = ReadBase(p)
  /\ hpc = "sync" => \A p : ReadOps(p) = ReadBase(p) \o Reading(next_chunk, Count + 1)
  /\ Joining => \A p : ReadOps(p) = ReadBase(p) \o <<Record(JoinEvent(read_stream))>>

LEMMA Forms == FormsHold
<1>1. ASSUME hpc = "setup"
      PROVE  MainOps = <<>> /\ ScanOps = <<>> /\ \A p : ReadOps(p) = <<>>
  <2>1. ~Joining /\ ~Looping /\ ~Scanning
    BY <1>1 DEF Joining, Looping, Scanning
  <2>. QED BY <1>1, <2>1, NothingBehind DEF MainOps, ScanOps, ReadOps, JoinRecord
<1>2. ASSUME hpc \in {"first", "loop", "read", "sync"} PROVE MainOps = MainBase
  <2>1. ~Joining /\ hpc # "setup"
    BY <1>2 DEF Joining
  <2>. QED BY <2>1, NothingBehind, Zenon DEF MainOps, MainBase
<1>3. ASSUME Joining
      PROVE  MainOps = MainBase \o <<Wait(records - 1), Wait(records), GatherOp>>
  <2>1. hpc # "setup"
    BY <1>3 DEF Joining
  <2>. QED BY <1>3, <2>1, Zenon DEF MainOps, MainBase
<1>4. ASSUME hpc = "first" PROVE ScanOps = <<Wait(1)>>
  <2>1. ~Joining /\ ~Looping /\ ~Scanning /\ hpc # "setup"
    BY <1>4 DEF Joining, Looping, Scanning
  <2>2. <<Wait(1)>> \o <<>> = <<Wait(1)>>
    BY NothingBehind, Zenon
  <2>3. ScanOps = (<<Wait(1)>> \o <<>>) \o <<>>
    BY <2>1, Zenon DEF ScanOps, JoinRecord
  <2>. QED BY <2>2, <2>3, Zenon
<1>5. ScanBase \o <<>> = ScanBase
  <2>1. CASE chunk = NoChunk
    BY <2>1, NothingBehind, Zenon DEF ScanBase, Reading
  <2>2. CASE chunk # NoChunk
    BY <2>2, NothingBehind, Zenon DEF ScanBase, Reading
  <2>. QED BY <2>1, <2>2
<1>6. ASSUME hpc = "loop" PROVE ScanOps = ScanBase
  <2>1. ~Joining /\ Looping /\ ~Scanning /\ hpc # "setup"
    BY <1>6 DEF Joining, Looping, Scanning
  <2>2. ScanOps = ScanBase \o <<>>
    BY <2>1, Zenon DEF ScanOps, ScanBase, JoinRecord
  <2>. QED BY <1>5, <2>2
<1>7. ASSUME Scanning
      PROVE  ScanOps = ScanBase \o <<Reset(Tiles), Wait(last_launch_event), Scan(Tiles, chunk)>>
  <2>1. Looping /\ hpc # "setup"
    BY <1>7 DEF Looping, Scanning
  <2>. QED BY <1>7, <2>1, Zenon DEF ScanOps, ScanBase
<1>8. ASSUME Joining PROVE ScanOps = ScanBase \o <<Record(JoinEvent(scan_stream))>>
  <2>1. Looping /\ hpc # "setup" /\ ~Scanning
    BY <1>8 DEF Joining, Looping, Scanning
  <2>. QED BY <1>8, <2>1, Zenon DEF ScanOps, ScanBase, JoinRecord
<1>9. ASSUME hpc \in {"first", "loop", "read"}, NEW p PROVE ReadOps(p) = ReadBase(p)
  <2>1. ~Joining /\ hpc # "setup" /\ hpc # "sync"
    BY <1>9 DEF Joining
  <2>2. ReadOps(p) = ReadBase(p) \o <<>>
    BY <2>1, Zenon DEF ReadOps, ReadBase, JoinRecord
  <2>3. ReadBase(p) \o <<>> = ReadBase(p)
    <3>1. CASE Count = 0
      BY <3>1, NothingBehind, Zenon DEF ReadBase
    <3>2. CASE Count # 0
      BY <3>2, NothingBehind, Zenon DEF ReadBase
    <3>. QED BY <3>1, <3>2
  <2>. QED BY <2>2, <2>3
<1>10. ASSUME hpc = "sync", NEW p
       PROVE  ReadOps(p) = ReadBase(p) \o Reading(next_chunk, Count + 1)
  BY <1>10 DEF ReadOps, ReadBase
<1>11. ASSUME Joining, NEW p
       PROVE  ReadOps(p) = ReadBase(p) \o <<Record(JoinEvent(read_stream))>>
  <2>1. hpc # "setup" /\ hpc # "sync"
    BY <1>11 DEF Joining
  <2>. QED BY <1>11, <2>1, Zenon DEF ReadOps, ReadBase, JoinRecord
<1>. QED BY <1>1, <1>2, <1>3, <1>4, <1>6, <1>7, <1>8, <1>9, <1>10, <1>11 DEF FormsHold

LEMMA FormsNext == FormsHold'
BY Forms, PTL

\* New records come behind the old ones, on different streams.
LEMMA EventsGrow ==
  ASSUME EventsInv, queue \in [Streams -> Seq(Operation)], queue' \in [Streams -> Seq(Operation)],
         records' \in Nat, records <= records', complete' = complete,
         ticket_event' \in [0 .. num_tickets - 1 -> Int], last_launch_event' \in 0 .. records',
         NEW e \in [Streams -> Int],
         \A r \in Streams : \A j \in 1 .. Len(queue'[r]) :
           \/ j \in 1 .. Len(queue[r]) /\ queue'[r][j] = queue[r][j]
           \/ queue'[r][j].op # "record"
           \/ /\ j = Len(queue'[r]) /\ queue'[r][j].event = e[r]
              /\ e[r] \in (records + 1) .. records',
         \A r, x \in Streams : e[r] = e[x] /\ e[r] \in (records + 1) .. records' => r = x
  PROVE  EventsInv'
<1>1. /\ records \in Nat /\ complete \subseteq 0 .. records
      /\ \A s \in Streams : \A j \in 1 .. Len(queue[s]) :
           queue[s][j].op = "record" => queue[s][j].event \in (1 .. records) \ complete
      /\ \A s, r \in Streams : \A j \in 1 .. Len(queue[s]), k \in 1 .. Len(queue[r]) :
           queue[s][j].op = "record" /\ queue[r][k] = queue[s][j] => s = r /\ j = k
  BY DEF EventsInv
<1>2. complete \subseteq 0 .. records'
  BY <1>1
<1>3. ASSUME NEW r \in Streams, NEW j \in 1 .. Len(queue'[r]), queue'[r][j].op = "record"
      PROVE  queue'[r][j].event \in (1 .. records') \ complete
  <2>1. CASE j \in 1 .. Len(queue[r]) /\ queue'[r][j] = queue[r][j]
    BY <1>1, <1>3, <2>1
  <2>2. CASE queue'[r][j].event = e[r] /\ e[r] \in (records + 1) .. records'
    BY <1>1, <2>2
  <2>. QED BY <1>3, <2>1, <2>2
<1>4. ASSUME NEW s \in Streams, NEW r \in Streams, NEW j \in 1 .. Len(queue'[s]),
             NEW k \in 1 .. Len(queue'[r]), queue'[s][j].op = "record",
             queue'[r][k] = queue'[s][j]
      PROVE  s = r /\ j = k
  <2>1. queue'[r][k].op = "record"
    BY <1>4
  <2>2. \/ j \in 1 .. Len(queue[s]) /\ queue'[s][j] = queue[s][j]
        \/ /\ j = Len(queue'[s]) /\ queue'[s][j].event = e[s]
           /\ e[s] \in (records + 1) .. records'
    BY <1>4
  <2>3. \/ k \in 1 .. Len(queue[r]) /\ queue'[r][k] = queue[r][k]
        \/ /\ k = Len(queue'[r]) /\ queue'[r][k].event = e[r]
           /\ e[r] \in (records + 1) .. records'
    BY <2>1
  <2>4. CASE j \in 1 .. Len(queue[s]) /\ queue'[s][j] = queue[s][j]
    <3>1. CASE k \in 1 .. Len(queue[r]) /\ queue'[r][k] = queue[r][k]
      BY <1>1, <1>4, <2>4, <3>1
    <3>2. CASE queue'[r][k].event = e[r] /\ e[r] \in (records + 1) .. records'
      <4>1. queue[s][j].event \in 1 .. records
        BY <1>1, <1>4, <2>4
      <4>. QED BY <1>1, <1>4, <2>4, <3>2, <4>1
    <3>. QED BY <2>3, <3>1, <3>2
  <2>5. CASE /\ j = Len(queue'[s]) /\ queue'[s][j].event = e[s]
             /\ e[s] \in (records + 1) .. records'
    <3>1. CASE k \in 1 .. Len(queue[r]) /\ queue'[r][k] = queue[r][k]
      <4>1. queue[r][k].event \in 1 .. records
        BY <1>1, <2>1, <3>1
      <4>. QED BY <1>1, <1>4, <2>5, <3>1, <4>1
    <3>2. CASE k = Len(queue'[r]) /\ queue'[r][k].event = e[r]
      <4>1. e[r] = e[s]
        BY <1>4, <2>5, <3>2
      <4>2. r = s
        BY <2>5, <4>1
      <4>. QED BY <2>5, <3>2, <4>2
    <3>. QED BY <2>3, <3>1, <3>2
  <2>. QED BY <2>2, <2>4, <2>5
<1>. QED BY <1>2, <1>3, <1>4 DEF EventsInv, Streams, num_tickets

\* The host does something that the tiles do not see.
LEMMA TilesStay ==
  ASSUME ScanInv, RingInv, BlockInv, UNCHANGED scanVars,
         base_tile_idx' = base_tile_idx, Tiles' = Tiles, Seeded' => Seeded,
         Len(queue'[scan_stream']) \in Nat,
         Scanning => Scanning' /\ Len(queue'[scan_stream']) = Len(queue[scan_stream]),
         Scanning' => Scanning \/ Len(queue'[scan_stream']) > 2
  PROVE  ScanInv' /\ RingInv' /\ BlockInv'
<1>. DEFINE scan == Len(queue[scan_stream])
            scanAfter == Len(queue'[scan_stream'])
<1>1. /\ tile_status' = tile_status /\ tile_partial' = tile_partial
      /\ tile_inclusive' = tile_inclusive /\ block' = block /\ launched' = launched
  BY DEF scanVars
<1>2. scanAfter \in Nat /\ (Scanning => Scanning' /\ scanAfter = scan)
      /\ (Scanning' => Scanning \/ scanAfter > 2)
  OBVIOUS
<1>3. /\ launched # {} => Scanning /\ launched = Tiles /\ scan = 1
      /\ \A t \in AllTiles :
           /\ t < base_tile_idx => block[t].pc = "done"
           /\ t >= base_tile_idx /\ block[t].pc # "idle"
                => Scanning /\ t \in Tiles /\ (launched # {} \/ scan = 0)
           /\ Scanning /\ scan = 0 /\ t \in Tiles => block[t].pc = "done"
  BY DEF ScanInv, Scanned
<1>. HIDE DEF scan, scanAfter
<1>4. /\ launched # {} => Scanning' /\ launched = Tiles /\ scanAfter = 1
      /\ \A t \in AllTiles :
           /\ t < base_tile_idx => block[t].pc = "done"
           /\ t >= base_tile_idx /\ block[t].pc # "idle"
                => Scanning' /\ t \in Tiles /\ (launched # {} \/ scanAfter = 0)
           /\ Scanning' /\ scanAfter = 0 /\ t \in Tiles => block[t].pc = "done"
  BY <1>2, <1>3
<1>5. ScanInv'
  BY <1>1, <1>4 DEF ScanInv, Scanned, AllTiles, scanAfter
<1>6. /\ Seeded => Published(base_tile_idx - 1) /\ tile_status[Slot(base_tile_idx - 1)] = "inclusive"
      /\ Scanning /\ scan <= 2 => \A t \in Tiles : Published(t) /\ Placed(t)
  BY DEF RingInv, scan
<1>7. Scanning' /\ scanAfter <= 2 => \A t \in Tiles : Published(t) /\ Placed(t)
  BY <1>2, <1>6
<1>8. RingInv'
  BY <1>1, <1>6, <1>7 DEF RingInv, Published, Placed, Slot, num_tile_states, Upto, scanAfter
<1>9. BlockInv'
  BY <1>1 DEF BlockInv, Knows, Slot, num_tile_states, Upto, Span, AllTiles
<1>. QED BY <1>5, <1>8, <1>9

LEMMA SetupKeeps ==
  ASSUME NEW prev, PInv(prev), Setup
  PROVE  PInv(prev)'
<1>1. /\ Shape /\ HostInv /\ ChunksInv /\ EventsInv /\ Queues(prev) /\ DataInv(prev)
      /\ ScanInv /\ RingInv /\ BlockInv
  BY DEF PInv
<1>2. /\ hpc = "setup" /\ hpc' = "first" /\ records' = records + 1
      /\ UNCHANGED <<next, tail, read_stream, scan_stream, base_tile_idx, chunk, next_chunk,
                     tickets, ticket_event, last_launch_event, owner, offsets_read, scanVars,
                     complete, memory, char_storage, output>>
  BY DEF Setup
<1>3. /\ records = 0 /\ ~Looping /\ ~Scanning /\ ~Joining
      /\ ~Looping' /\ ~Scanning' /\ ~Joining' /\ Count' = Count /\ Tiles' = Tiles /\ Count = 0
  BY <1>1, <1>2 DEF HostInv, Looping, Scanning, Joining, Count, Tiles, TilesOf
<1>4. \A s \in Streams : queue[s] = <<>>
  <2>1. MainOps = <<>> /\ ScanOps = <<>> /\ ReadOps(prev) = <<>>
    BY <1>2, Forms DEF FormsHold
  <2>2. Rest(queue["main"], <<>>) /\ Rest(queue[scan_stream], <<>>) /\ Rest(queue[read_stream], <<>>)
    BY <1>1, <2>1 DEF Queues
  <2>3. \A q : Rest(q, <<>>) => q = <<>>
    BY LenProperties, EmptySeq, Tuples DEF Rest
  <2>. QED BY <1>1, <2>2, <2>3, HostFacts
<1>. DEFINE o == Oob((0 - TILES_PER_CHUNK) .. -1)
            m == <<o, Seed, Record(1)>>
            w == <<Wait(1)>>
<1>5. o \in Operation /\ Seed \in Operation /\ Record(1) \in Operation /\ Wait(1) \in Operation
  BY PipelineAssumption, OperationTypes
<1>6. /\ m \in Seq(Operation) /\ Len(m) = 3 /\ m[1] = o /\ m[2] = Seed /\ m[3] = Record(1)
      /\ w \in Seq(Operation) /\ Len(w) = 1 /\ w[1] = Wait(1)
  BY <1>5, Tuples
<1>7. queue' = [queue EXCEPT !["main"] = m, !["s0"] = w, !["s1"] = w]
  <2>1. queue' = Forked([queue EXCEPT !["main"] = queue["main"] \o <<o, Seed>>], records + 1)
    BY DEF Setup
  <2>2. records + 1 = 1
    BY <1>3
  <2>3. queue \in [Streams -> Seq(Operation)] /\ queue["main"] = <<>> /\ queue["s0"] = <<>>
        /\ queue["s1"] = <<>>
    BY <1>1, <1>4 DEF Shape, Streams
  <2>4. Append(<<>> \o <<o, Seed>>, Record(1)) = m
    <3>. DEFINE v == <<o, Seed>>
    <3>. HIDE DEF o
    <3>1. v \in Seq(Operation) /\ <<>> \o v = v
      BY <1>5, Tuples
    <3>2. Append(v, Record(1)) = m
      <4>1. /\ Append(v, Record(1)) \in Seq(Operation) /\ Len(Append(v, Record(1))) = Len(v) + 1
            /\ Append(v, Record(1))[Len(v) + 1] = Record(1)
            /\ \A i \in 1 .. Len(v) : Append(v, Record(1))[i] = v[i]
        BY <1>5, <3>1, AppendProperties
      <4>2. Len(v) = 2 /\ v[1] = o /\ v[2] = Seed
        OBVIOUS
      <4>. DEFINE a == Append(v, Record(1))
      <4>. HIDE DEF a, v
      <4>3. a \in Seq(Operation) /\ Len(a) = 3 /\ a[1] = o /\ a[2] = Seed /\ a[3] = Record(1)
        BY <4>1, <4>2 DEF a
      <4>4. \A i \in 1 .. 3 : a[i] = m[i]
        BY <1>6, <4>3
      <4>. HIDE DEF m
      <4>5. a = m
        BY <1>6, <4>3, <4>4, SeqEqual
      <4>. QED BY <4>5 DEF a
    <3>. QED BY <3>1, <3>2, Zenon
  <2>5. Append(<<>>, Wait(1)) = w
    BY <1>5
  <2>. HIDE DEF o, m, w
  <2>. QED BY <2>1, <2>2, <2>3, <2>4, <2>5 DEF Forked, Streams
<1>8. /\ queue' \in [Streams -> Seq(Operation)] /\ queue'["main"] = m /\ queue'["s0"] = w
      /\ queue'["s1"] = w
  BY <1>1, <1>6, <1>7 DEF Shape, Streams
<1>9. HostInv' /\ ChunksInv'
  <2>1. HostInv'
    <3>. HIDE DEF o, m, w
    <3>. QED BY <1>1, <1>2, <1>3 DEF HostInv
  <2>2. ChunksInv'
    BY <1>2, <1>3 DEF ChunksInv
  <2>. QED BY <2>1, <2>2
<1>. HIDE DEF o, m, w
<1>10. EventsInv'
  <2>. DEFINE e == [r \in Streams |-> IF r = "main" THEN 1 ELSE 0]
  <2>1. e \in [Streams -> Int] /\ e["main"] = 1 /\ \A r \in Streams : r # "main" => e[r] = 0
    BY DEF Streams
  <2>. HIDE DEF e
  <2>2. ASSUME NEW r \in Streams, NEW j \in 1 .. Len(queue'[r])
        PROVE  \/ queue'[r][j].op # "record"
               \/ /\ j = Len(queue'[r]) /\ queue'[r][j].event = e[r]
                  /\ e[r] \in (records + 1) .. records'
    <3>1. CASE r = "main"
      <4>0. Len(queue'[r]) = 3
        BY <1>6, <1>8, <3>1
      <4>1. j = 1 \/ j = 2 \/ j = 3
        BY <4>0
      <4>2. m[1].op # "record" /\ m[2].op # "record" /\ m[3].event = 1
        <5>1. o.op = "init" /\ Seed.op = "seed" /\ Record(1).event = 1
          BY Kinds DEF o
        <5>. QED BY <1>6, <5>1
      <4>3. queue'[r] = m /\ e[r] = 1 /\ records + 1 = 1 /\ records' = 1
        BY <1>2, <1>3, <1>8, <2>1, <3>1
      <4>. QED BY <4>0, <4>1, <4>2, <4>3
    <3>2. CASE r # "main"
      <4>2. queue'[r] = w /\ Len(queue'[r]) = 1
        BY <1>6, <1>8, <3>2 DEF Streams
      <4>1. j = 1 /\ queue'[r] = w
        BY <4>2
      <4>. QED BY <1>6, <4>1, Kinds
    <3>. QED BY <3>1, <3>2
  <2>3. ASSUME NEW r \in Streams, NEW x \in Streams, e[r] = e[x],
               e[r] \in (records + 1) .. records'
        PROVE  r = x
    <3>1. e[r] # 0 /\ e[x] # 0
      BY <1>2, <1>3, <2>3
    <3>2. r = "main" /\ x = "main"
      BY <2>1, <3>1
    <3>. QED BY <3>2
  <2>4. /\ records' \in Nat /\ records <= records' /\ complete' = complete
        /\ ticket_event' \in [0 .. num_tickets - 1 -> Int] /\ last_launch_event' \in 0 .. records'
        /\ queue \in [Streams -> Seq(Operation)]
    BY <1>1, <1>2, <1>3 DEF EventsInv, Shape
  <2>. QED BY <1>1, <1>8, <2>1, <2>2, <2>3, <2>4, EventsGrow
<1>11. Queues(prev)'
  <2>2. MainOps' = m /\ ScanOps' = w /\ ReadOps(prev)' = w
    <3>1. MainOps' = MainBase' /\ ScanOps' = <<Wait(1)>> /\ ReadOps(prev)' = ReadBase(prev)'
      BY <1>2, FormsNext DEF FormsHold
    <3>. QED BY <1>3, <3>1 DEF MainBase, ReadBase, o, m, w
  <2>3. scan_stream' = scan_stream /\ read_stream' = read_stream
        /\ queue'[scan_stream] = w /\ queue'[read_stream] = w
    BY <1>1, <1>2, <1>8, HostFacts DEF Streams
  <2>4. Rest(m, m) /\ Rest(w, w)
    BY <1>6, RestWhole
  <2>. QED BY <1>8, <2>2, <2>3, <2>4 DEF Queues, Rest
<1>12. WaitsInv' /\ DataInv(prev)'
  <2>1. WaitsInv'
    <3>1. Len(queue'[read_stream]) = 1 /\ read_stream' = read_stream
      BY <1>1, <1>2, <1>6, <1>8, HostFacts DEF Streams
    <3>. QED BY <1>2, <1>3, <3>1 DEF WaitsInv
  <2>2. ~CharsLeft(prev) /\ ~CharsLeft(prev)'
    BY <1>3 DEF CharsLeft
  <2>. QED BY <1>1, <1>2, <1>3, <2>1, <2>2 DEF DataInv, Upto, Streams, num_tickets
<1>13. ScanInv' /\ RingInv' /\ BlockInv'
  <2>1. ~Seeded'
    <3>2. Len(MainOps') = 3
      <4>1. MainOps' = MainBase'
        BY <1>2, FormsNext DEF FormsHold
      <4>2. MainOps' = m
        BY <4>1 DEF MainBase, o, m
      <4>. QED BY <1>6, <4>2
    <3>3. Len(queue'["main"]) = 3
      BY <1>6, <1>8
    <3>. QED BY <3>2, <3>3 DEF Seeded
  <2>2. Len(queue'[scan_stream']) \in Nat
    BY <1>1, <1>2, <1>6, <1>8, HostFacts DEF Streams
  <2>. QED BY <1>1, <1>2, <1>3, <2>1, <2>2, TilesStay
<1>14. Shape'
  BY <1>1, <1>2, <1>8 DEF Shape, scanVars, AllTiles, num_tile_states, Streams, Operation
<1>. QED BY <1>9, <1>10, <1>11, <1>12, <1>13, <1>14 DEF PInv

\* The next chunk is read: its buffer is nobody's, and what it leaves on the stream is
\* what Reading says.
LEMMA ChunkRead ==
  ASSUME NEW prev, PInv(prev), GetNextChunk(read_stream), NEW k \in Nat, k = next
  PROVE  LET i == k % num_tickets
             g == Reading(next_chunk, k)'
         IN  /\ queue' = [queue EXCEPT ![read_stream] = queue[read_stream] \o g]
             /\ queue' \in [Streams -> Seq(Operation)] /\ g \in Seq(Operation)
             /\ k < Chunks => Len(g) = 2 /\ next_chunk' # NoChunk
             /\ ~(k < Chunks) => Len(g) = 1
             /\ ChunkIs(next_chunk, k)'
             /\ \A a \in Addresses :
                  owner[a] = "live" => /\ owner'[a] = "live"
                                       /\ k < Chunks => next_chunk'.buffer # a
             /\ \A j : j # i => tickets'[j] = tickets[j] /\ ticket_event'[j] = ticket_event[j]
             /\ owner' \in [Addresses -> Streams \cup {"nobody", "live"}]
             /\ tickets' \in [0 .. num_tickets - 1 -> Int]
             /\ next' = k + 1 /\ EventsInv'
             /\ UNCHANGED <<tail, last_launch_event, thread_event, offsets_read, base_tile_idx,
                            scanVars, complete, memory, char_storage, output>>
<1>. DEFINE i == k % num_tickets
            g == Reading(next_chunk, k)'
            event == Record(records + 1)
<1>1. /\ Shape /\ HostInv /\ ChunksInv /\ EventsInv /\ DataInv(prev)
  BY DEF PInv
<1>2. /\ next' = k + 1 /\ records' = records + 1
      /\ ticket_event' = [ticket_event EXCEPT ![i] = records + 1]
      /\ UNCHANGED <<tail, last_launch_event, thread_event, offsets_read, base_tile_idx,
                     scanVars, complete, memory, char_storage, output>>
  BY DEF GetNextChunk
<1>3. /\ records \in Nat /\ read_stream \in Streams /\ queue \in [Streams -> Seq(Operation)]
      /\ ticket_event \in [0 .. num_tickets - 1 -> Int]
      /\ tickets \in [0 .. num_tickets - 1 -> Int]
      /\ owner \in [Addresses -> Streams \cup {"nobody", "live"}]
  BY <1>1, HostFacts DEF Shape, DataInv
<1>4. i \in 0 .. num_tickets - 1 /\ i \in Int
  BY DEF num_tickets
<1>5. num_tickets' = num_tickets
  BY DEF num_tickets
<1>6. ticket_event' \in [0 .. num_tickets - 1 -> Int] /\ ticket_event'[i] = records + 1
      /\ \A j : j # i => ticket_event'[j] = ticket_event[j]
  BY <1>2, <1>3, <1>4
<1>7. g = IF next_chunk' = NoChunk THEN <<event>> ELSE <<Upload(i, next_chunk'.buffer), event>>
  BY <1>6 DEF Reading, num_tickets, Record, Upload, NoChunk, None
<1>8. event \in Operation
  BY <1>3, OperationTypes
<1>9. ASSUME k < Chunks PROVE
      /\ queue' = [queue EXCEPT ![read_stream] = queue[read_stream] \o g]
      /\ g \in Seq(Operation)
      /\ k < Chunks => Len(g) = 2 /\ next_chunk' # NoChunk
      /\ ~(k < Chunks) => Len(g) = 1
      /\ ChunkIs(next_chunk, k)'
      /\ \A b \in Addresses :
           owner[b] = "live" => /\ owner'[b] = "live"
                                /\ k < Chunks => next_chunk'.buffer # b
      /\ \A j : j # i => tickets'[j] = tickets[j]
      /\ owner' \in [Addresses -> Streams \cup {"nobody", "live"}]
      /\ tickets' \in [0 .. num_tickets - 1 -> Int]
      /\ \A j \in 1 .. Len(g) :
           g[j].op # "record" \/ (j = Len(g) /\ g[j].event = records + 1)
  <2>1. PICK a \in Addresses :
          /\ owner[a] \in {"nobody", read_stream}
          /\ owner' = [owner EXCEPT ![a] = "live"]
          /\ tickets' = [tickets EXCEPT ![i] = k]
          /\ next_chunk' = [number |-> k, buffer |-> a, stream |-> read_stream]
          /\ queue' = [queue EXCEPT ![read_stream] =
                         queue[read_stream] \o <<Upload(i, a), event>>]
    BY <1>9 DEF GetNextChunk
  <2>. HIDE DEF event, i
  <2>2. next_chunk' # NoChunk /\ next_chunk'.buffer = a /\ next_chunk'.number = k
        /\ next_chunk'.stream = read_stream
    BY <2>1 DEF NoChunk, None
  <2>3. Upload(i, a) \in Operation
    BY <1>4, OperationTypes
  <2>. DEFINE u == Upload(i, a)
              v == <<u, event>>
  <2>4. g = v
    BY <1>7, <2>2
  <2>. HIDE DEF g, u
  <2>5. /\ v \in Seq(Operation) /\ Len(v) = 2 /\ v[1] = u /\ v[2] = event
    BY <1>8, <2>3, Tuples DEF u
  <2>. HIDE DEF v
  <2>6. queue' = [queue EXCEPT ![read_stream] = queue[read_stream] \o v]
    BY <2>1 DEF v, u
  <2>7. owner[a] # "live"
    BY <1>1, <2>1 DEF HostInv
  <2>8. /\ owner' \in [Addresses -> Streams \cup {"nobody", "live"}] /\ owner'[a] = "live"
        /\ \A b \in Addresses : owner[b] = "live" => owner'[b] = "live" /\ a # b
    BY <1>3, <2>1, <2>7
  <2>9. /\ tickets' \in [0 .. num_tickets - 1 -> Int] /\ tickets'[i] = k
        /\ \A j : j # i => tickets'[j] = tickets[j]
    BY <1>3, <1>4, <2>1
  <2>10. ChunkIs(next_chunk, k)'
    BY <1>3, <1>9, <2>2, <2>8, <2>9 DEF ChunkIs, num_tickets, i, Streams
  <2>11. u.op = "upload" /\ event.op = "record" /\ event.event = records + 1
    BY Kinds DEF u, event
  <2>12. \A j \in 1 .. Len(v) :
           v[j].op # "record" \/ (j = Len(v) /\ v[j].event = records + 1)
    <3>1. v[1].op # "record" /\ v[2].event = records + 1 /\ Len(v) = 2
      BY <2>5, <2>11
    <3>2. \A j \in 1 .. 2 : j = 1 \/ j = 2
      OBVIOUS
    <3>. QED BY <3>1, <3>2
  <2>13. owner' \in [Addresses -> Streams \cup {"nobody", "live"}]
    BY <2>8
  <2>. HIDE DEF v
  <2>. QED BY <1>9, <2>2, <2>4, <2>5, <2>6, <2>8, <2>9, <2>10, <2>12
<1>10. ASSUME ~(k < Chunks) PROVE
      /\ queue' = [queue EXCEPT ![read_stream] = queue[read_stream] \o g]
      /\ g \in Seq(Operation)
      /\ k < Chunks => Len(g) = 2 /\ next_chunk' # NoChunk
      /\ ~(k < Chunks) => Len(g) = 1
      /\ ChunkIs(next_chunk, k)'
      /\ \A b \in Addresses :
           owner[b] = "live" => /\ owner'[b] = "live"
                                /\ k < Chunks => next_chunk'.buffer # b
      /\ \A j : j # i => tickets'[j] = tickets[j]
      /\ owner' \in [Addresses -> Streams \cup {"nobody", "live"}]
      /\ tickets' \in [0 .. num_tickets - 1 -> Int]
      /\ \A j \in 1 .. Len(g) :
           g[j].op # "record" \/ (j = Len(g) /\ g[j].event = records + 1)
  <2>1. /\ next_chunk' = NoChunk /\ owner' = owner /\ tickets' = tickets
        /\ queue' = [queue EXCEPT ![read_stream] = Append(queue[read_stream], event)]
    BY <1>10 DEF GetNextChunk
  <2>. DEFINE v == <<event>>
  <2>2. g = v
    BY <1>7, <2>1
  <2>3. event.op = "record" /\ event.event = records + 1
    BY Kinds
  <2>. HIDE DEF event, g
  <2>4. v \in Seq(Operation) /\ Len(v) = 1 /\ v[1] = event
    BY <1>8, Tuples
  <2>5. Append(queue[read_stream], event) = queue[read_stream] \o v
    BY <1>3, <1>8, AppendIsConcat
  <2>6. queue' = [queue EXCEPT ![read_stream] = queue[read_stream] \o v]
    BY <2>1, <2>5
  <2>. HIDE DEF v
  <2>7. \A j \in 1 .. Len(v) :
          v[j].op # "record" \/ (j = Len(v) /\ v[j].event = records + 1)
    BY <2>3, <2>4
  <2>8. ChunkIs(next_chunk, k)'
    BY <1>10, <2>1 DEF ChunkIs, NoChunk, None
  <2>. QED BY <1>3, <1>10, <2>1, <2>2, <2>4, <2>6, <2>7, <2>8
<1>. HIDE DEF g
<1>11. /\ queue' = [queue EXCEPT ![read_stream] = queue[read_stream] \o g]
       /\ g \in Seq(Operation)
       /\ k < Chunks => Len(g) = 2 /\ next_chunk' # NoChunk
       /\ ~(k < Chunks) => Len(g) = 1
       /\ ChunkIs(next_chunk, k)'
       /\ \A b \in Addresses :
            owner[b] = "live" => /\ owner'[b] = "live"
                                 /\ k < Chunks => next_chunk'.buffer # b
       /\ \A j : j # i => tickets'[j] = tickets[j]
       /\ owner' \in [Addresses -> Streams \cup {"nobody", "live"}]
       /\ tickets' \in [0 .. num_tickets - 1 -> Int]
       /\ \A j \in 1 .. Len(g) :
            g[j].op # "record" \/ (j = Len(g) /\ g[j].event = records + 1)
  BY <1>9, <1>10
<1>12. queue' \in [Streams -> Seq(Operation)] /\ queue'[read_stream] = queue[read_stream] \o g
       /\ \A r \in Streams : r # read_stream => queue'[r] = queue[r]
  <2>1. queue[read_stream] \o g \in Seq(Operation)
    BY <1>3, <1>11, ConcatProperties
  <2>. QED BY <1>3, <1>11, <2>1
<1>13. EventsInv'
  <2>. DEFINE e == [r \in Streams |-> IF r = read_stream THEN records + 1 ELSE 0]
              q == queue[read_stream]
              f == queue'[read_stream]
  <2>1. e \in [Streams -> Int] /\ e[read_stream] = records + 1
        /\ \A r \in Streams : r # read_stream => e[r] = 0
    BY <1>3
  <2>. HIDE DEF e
  <2>2. q \in Seq(Operation) /\ Len(q) \in Nat /\ Len(g) \in Nat
    BY <1>3, <1>11, LenProperties
  <2>3. /\ Len(f) = Len(q) + Len(g)
        /\ \A j \in 1 .. Len(q) + Len(g) : f[j] = IF j <= Len(q) THEN q[j] ELSE g[j - Len(q)]
    BY <1>11, <1>12, <2>2, ConcatProperties
  <2>4. ASSUME NEW r \in Streams, NEW j \in 1 .. Len(queue'[r])
        PROVE  \/ j \in 1 .. Len(queue[r]) /\ queue'[r][j] = queue[r][j]
               \/ queue'[r][j].op # "record"
               \/ /\ j = Len(queue'[r]) /\ queue'[r][j].event = e[r]
                  /\ e[r] \in (records + 1) .. records'
    <3>1. CASE r # read_stream
      BY <1>12, <3>1
    <3>2. CASE r = read_stream
      <4>. HIDE DEF q, f
      <4>1. j \in 1 .. Len(f) /\ j \in 1 .. Len(q) + Len(g)
        BY <2>3, <3>2 DEF f
      <4>2. CASE j <= Len(q)
        <5>1. f[j] = q[j] /\ j \in 1 .. Len(q)
          BY <2>2, <2>3, <4>1, <4>2
        <5>. QED BY <3>2, <5>1 DEF f, q
      <4>3. CASE ~(j <= Len(q))
        <5>. DEFINE l == j - Len(q)
        <5>1. f[j] = g[l] /\ l \in 1 .. Len(g) /\ (l = Len(g) => j = Len(f))
          BY <2>2, <2>3, <4>1, <4>3
        <5>. HIDE DEF l
        <5>2. f[j].op # "record" \/ (j = Len(f) /\ f[j].event = records + 1)
          BY <1>11, <5>1
        <5>3. records + 1 \in (records + 1) .. records'
          BY <1>2, <1>3
        <5>. QED BY <2>1, <3>2, <5>2, <5>3 DEF f
      <4>. QED BY <4>2, <4>3
    <3>. QED BY <3>1, <3>2
  <2>5. ASSUME NEW r \in Streams, NEW x \in Streams, e[r] = e[x],
               e[r] \in (records + 1) .. records'
        PROVE  r = x
    <3>1. e[r] # 0 /\ e[x] # 0
      BY <1>2, <1>3, <2>5
    <3>. QED BY <2>1, <3>1
  <2>6. /\ records' \in Nat /\ records <= records' /\ complete' = complete
        /\ last_launch_event' \in 0 .. records'
    BY <1>1, <1>2, <1>3 DEF EventsInv
  <2>7. /\ EventsInv /\ queue \in [Streams -> Seq(Operation)]
        /\ queue' \in [Streams -> Seq(Operation)] /\ e \in [Streams -> Int]
        /\ ticket_event' \in [0 .. num_tickets - 1 -> Int]
    BY <1>1, <1>3, <1>6, <1>12, <2>1
  <2>. HIDE DEF q, f, event, i
  <2>8. /\ \A r \in Streams : \A j \in 1 .. Len(queue'[r]) :
             \/ j \in 1 .. Len(queue[r]) /\ queue'[r][j] = queue[r][j]
             \/ queue'[r][j].op # "record"
             \/ /\ j = Len(queue'[r]) /\ queue'[r][j].event = e[r]
                /\ e[r] \in (records + 1) .. records'
        /\ \A r, x \in Streams : e[r] = e[x] /\ e[r] \in (records + 1) .. records' => r = x
    BY <2>4, <2>5, Zenon
  <2>. QED BY <2>6, <2>7, <2>8, EventsGrow
<1>. QED BY <1>2, <1>6, <1>11, <1>12, <1>13 DEF g

LEMMA ReadFirstKeeps ==
  ASSUME NEW prev, PInv(prev), ReadFirst
  PROVE  PInv(prev)'
<1>1. /\ Shape /\ HostInv /\ ChunksInv /\ EventsInv /\ Queues(prev) /\ WaitsInv /\ DataInv(prev)
      /\ ScanInv /\ RingInv /\ BlockInv
  BY DEF PInv
<1>2. /\ hpc = "first" /\ hpc' = "loop" /\ GetNextChunk(read_stream) /\ chunk' = next_chunk'
      /\ read_stream' = scan_stream /\ scan_stream' = read_stream
  BY DEF ReadFirst
<1>3. /\ ~Looping /\ ~Scanning /\ ~Joining /\ Looping' /\ ~Scanning' /\ ~Joining'
      /\ next = 0 /\ Count = 0
  BY <1>1, <1>2 DEF HostInv, Looping, Scanning, Joining
<1>. DEFINE g == Reading(next_chunk, 0)'
            i == 0 % num_tickets
<1>4. /\ queue' = [queue EXCEPT ![read_stream] = queue[read_stream] \o g]
      /\ queue' \in [Streams -> Seq(Operation)] /\ g \in Seq(Operation)
      /\ ChunkIs(next_chunk, 0)'
      /\ owner' \in [Addresses -> Streams \cup {"nobody", "live"}]
      /\ tickets' \in [0 .. num_tickets - 1 -> Int]
      /\ next' = 1 /\ EventsInv'
      /\ UNCHANGED <<tail, last_launch_event, thread_event, offsets_read, base_tile_idx,
                     scanVars, complete, memory, char_storage, output>>
  <2>1. 0 = next /\ 0 \in Nat /\ GetNextChunk(read_stream)
    BY <1>2, <1>3
  <2>2. next' = 0 + 1 => next' = 1
    OBVIOUS
  <2>. QED BY <2>1, <2>2, ChunkRead
<1>5. /\ Count' = Count /\ Tiles' = Tiles
  BY <1>4 DEF Count, Tiles, TilesOf
<1>6. /\ scan_stream \in Streams /\ read_stream \in Streams /\ "main" \in Streams
      /\ scan_stream # read_stream /\ scan_stream # "main" /\ read_stream # "main"
      /\ queue \in [Streams -> Seq(Operation)]
  BY <1>1, HostFacts DEF Shape
<1>7. /\ queue'[read_stream] = queue[read_stream] \o g /\ queue'[scan_stream] = queue[scan_stream]
      /\ queue'["main"] = queue["main"]
  BY <1>4, <1>6
<1>8. HostInv' /\ ChunksInv'
  <2>1. HostInv'
    BY <1>1, <1>2, <1>3, <1>4, <1>5 DEF HostInv
  <2>2. ChunkIs(chunk, Count)'
    BY <1>2, <1>3, <1>4, <1>5 DEF ChunkIs
  <2>. QED BY <1>2, <1>3, <2>1, <2>2 DEF ChunksInv
<1>9. Reading(chunk, Count)' = g
  BY <1>2, <1>3, <1>5 DEF Reading
<1>. HIDE DEF g
<1>10. /\ MainOps = MainBase /\ MainOps' = MainBase
       /\ ScanOps = <<Wait(1)>> /\ ScanOps' = <<Wait(1)>> \o g
       /\ ReadOps(prev) = <<Wait(1)>> /\ ReadOps(prev)' = <<Wait(1)>>
  <2>1. MainOps = MainBase /\ ScanOps = <<Wait(1)>> /\ ReadOps(prev) = ReadBase(prev)
    BY <1>2, Forms DEF FormsHold
  <2>2. MainOps' = MainBase' /\ ScanOps' = ScanBase' /\ ReadOps(prev)' = ReadBase(prev)'
    BY <1>2, FormsNext DEF FormsHold
  <2>3. ReadBase(prev) = <<Wait(1)>> /\ ReadBase(prev)' = <<Wait(1)>>
    BY <1>3, <1>5 DEF ReadBase
  <2>4. MainBase' = MainBase
    BY DEF MainBase
  <2>5. ScanBase' = <<Wait(1)>> \o Reading(chunk, Count)'
    BY DEF ScanBase
  <2>. QED BY <1>9, <2>1, <2>2, <2>3, <2>4, <2>5
<1>11. /\ Rest(queue["main"], MainOps) /\ Rest(queue[scan_stream], ScanOps)
       /\ Rest(queue[read_stream], ReadOps(prev))
  BY <1>1 DEF Queues
<1>12. /\ Rest(queue'[read_stream], ScanOps')
       /\ Len(queue'[read_stream]) = Len(queue[read_stream]) + Len(g)
       /\ Len(ScanOps') = 1 + Len(g)
       /\ Len(queue[read_stream]) \in Nat /\ Len(g) \in Nat
  <2>1. Len(<<Wait(1)>>) = 1
    OBVIOUS
  <2>. QED BY <1>4, <1>7, <1>10, <1>11, <2>1, RestConcat
<1>13. Queues(prev)'
  BY <1>2, <1>7, <1>10, <1>11, <1>12 DEF Queues, Rest
<1>14. WaitsInv'
  <2>1. 1 \in complete \/ Len(queue'[read_stream]) = Len(ScanOps')
    BY <1>1, <1>2, <1>12 DEF WaitsInv
  <2>2. complete' = complete /\ Count' = 0
    BY <1>3, <1>4, <1>5
  <2>. QED BY <1>2, <1>3, <2>1, <2>2 DEF WaitsInv
<1>15. DataInv(prev)'
  <2>1. ~Uploaded'
    BY <1>2, <1>12 DEF Uploaded
  <2>2. ~CharsLeft(prev) /\ ~CharsLeft(prev)' /\ Count' = 0 /\ hpc' # "sync"
    BY <1>2, <1>3, <1>5 DEF CharsLeft
  <2>3. memory' = memory /\ char_storage' = char_storage
    BY <1>4
  <2>4. memory \in [Addresses -> Int] /\ char_storage = Upto(0)
    BY <1>1, <1>3, <2>2 DEF DataInv
  <2>. QED BY <1>4, <2>1, <2>2, <2>3, <2>4 DEF DataInv, Upto, Streams, num_tickets
<1>16. ScanInv' /\ RingInv' /\ BlockInv'
  <2>1. Seeded' => Seeded
    BY <1>2, <1>7, <1>10 DEF Seeded
  <2>2. Len(queue'[scan_stream']) \in Nat
    BY <1>2, <1>12
  <2>. QED BY <1>1, <1>3, <1>4, <1>5, <2>1, <2>2, TilesStay
<1>17. Shape'
  BY <1>1, <1>4 DEF Shape, scanVars, AllTiles, num_tile_states, Streams, Operation
<1>. QED BY <1>4, <1>8, <1>13, <1>14, <1>15, <1>16, <1>17 DEF PInv

\* The tiles of the chunk are to be reset and scanned behind what is on the stream.
LEMMA LaunchKeeps ==
  ASSUME NEW prev, PInv(prev), Launch
  PROVE  PInv(prev)'
<1>1. /\ Shape /\ HostInv /\ ChunksInv /\ EventsInv /\ Queues(prev) /\ WaitsInv /\ DataInv(prev)
      /\ ScanInv /\ RingInv /\ BlockInv
  BY DEF PInv
<1>2. /\ hpc = "loop" /\ hpc' = "read" /\ chunk # NoChunk
      /\ UNCHANGED <<next, tail, read_stream, scan_stream, base_tile_idx, chunk, next_chunk,
                     tickets, ticket_event, last_launch_event, thread_event, records, owner,
                     offsets_read, scanVars, complete, memory, char_storage, output>>
  BY DEF Launch
<1>3. /\ Looping /\ ~Scanning /\ ~Joining /\ Looping' /\ Scanning' /\ ~Joining'
      /\ Count' = Count /\ Tiles' = Tiles
  BY <1>2 DEF Looping, Scanning, Joining, Count, Tiles, TilesOf
<1>4. /\ Count \in Nat /\ Count < Chunks /\ chunk.number = Count /\ chunk.buffer \in Addresses
      /\ scan_stream \in Streams /\ read_stream \in Streams /\ "main" \in Streams
      /\ scan_stream # read_stream /\ scan_stream # "main" /\ read_stream # "main"
      /\ queue \in [Streams -> Seq(Operation)] /\ Tiles \in SUBSET Int
      /\ last_launch_event \in Int /\ records \in Nat
  BY <1>1, <1>2, <1>3, HostFacts DEF Shape
<1>. DEFINE x == Reset(Tiles)
            y == Wait(last_launch_event)
            z == Scan(Tiles, chunk)
            g == <<x, y, z>>
<1>5. x \in Operation /\ y \in Operation /\ z \in Operation
  <2>1. x \in Operation /\ y \in Operation
    BY <1>4, OperationTypes
  <2>2. z \in Operation
    BY <1>4, OperationTypes
  <2>. QED BY <2>1, <2>2
<1>6. queue' = [queue EXCEPT ![scan_stream] = queue[scan_stream] \o g]
  <2>1. Tiles = base_tile_idx .. base_tile_idx + TilesOf(chunk.number) - 1
    BY <1>4 DEF Tiles
  <2>. QED BY <2>1 DEF Launch
<1>7. x.op # "record" /\ y.op # "record" /\ z.op # "record"
  BY Kinds
<1>8. ScanOps = ScanBase /\ ScanOps' = ScanBase \o g
  <2>1. ScanBase' = ScanBase
    BY <1>2, <1>3 DEF ScanBase, Reading
  <2>2. ScanOps' = ScanBase' \o <<Reset(Tiles), Wait(last_launch_event), Scan(Tiles, chunk)>>'
    BY <1>3, FormsNext DEF FormsHold
  <2>3. <<Reset(Tiles), Wait(last_launch_event), Scan(Tiles, chunk)>>' = g
    BY <1>2, <1>3 DEF Reset, Wait, Scan
  <2>4. ScanOps = ScanBase
    BY <1>2, Forms DEF FormsHold
  <2>. QED BY <2>1, <2>2, <2>3, <2>4
<1>. HIDE DEF x, y, z
<1>9. g \in Seq(Operation) /\ Len(g) = 3 /\ g[1] = x /\ g[2] = y /\ g[3] = z
  BY <1>5, Tuples
<1>10. \A j \in 1 .. 3 : g[j].op # "record"
  BY <1>7, <1>9
<1>. HIDE DEF g
<1>11. /\ queue' \in [Streams -> Seq(Operation)]
       /\ queue'[scan_stream] = queue[scan_stream] \o g
       /\ \A r \in Streams : r # scan_stream => queue'[r] = queue[r]
  <2>1. queue[scan_stream] \o g \in Seq(Operation)
    BY <1>4, <1>9, ConcatProperties
  <2>. QED BY <1>4, <1>6, <2>1
<1>12. /\ Rest(queue["main"], MainOps) /\ Rest(queue[scan_stream], ScanOps)
       /\ Rest(queue[read_stream], ReadOps(prev))
  BY <1>1 DEF Queues
<1>13. /\ Rest(queue'[scan_stream], ScanOps')
       /\ Len(queue'[scan_stream]) = Len(queue[scan_stream]) + 3
       /\ Len(ScanOps') = Len(ScanOps) + 3
       /\ Len(queue[scan_stream]) \in Nat /\ Len(ScanOps) \in Nat
       /\ \A j \in 1 .. Len(queue'[scan_stream]) :
            queue'[scan_stream][j] = IF j <= Len(queue[scan_stream]) THEN queue[scan_stream][j]
                                     ELSE g[j - Len(queue[scan_stream])]
  <2>. DEFINE q == queue[scan_stream]
              f == ScanOps
  <2>1. Rest(q, f) /\ g \in Seq(Operation)
    BY <1>9, <1>12
  <2>2. queue'[scan_stream] = q \o g /\ ScanOps' = f \o g
    BY <1>8, <1>11
  <2>. HIDE DEF q, f
  <2>3. /\ Rest(q \o g, f \o g)
        /\ Len(q \o g) = Len(q) + 3 /\ Len(f \o g) = Len(f) + 3
        /\ Len(q) \in Nat /\ Len(f) \in Nat
        /\ \A j \in 1 .. Len(q \o g) : (q \o g)[j] = IF j <= Len(q) THEN q[j] ELSE g[j - Len(q)]
    <3>1. /\ Rest(q \o g, f \o g)
          /\ Len(q \o g) = Len(q) + Len(g) /\ Len(f \o g) = Len(f) + Len(g)
          /\ Len(q) \in Nat /\ Len(f) \in Nat
      BY <2>1, RestConcat
    <3>2. \A j \in 1 .. Len(q \o g) :
            (q \o g)[j] = IF j <= Len(q) THEN q[j] ELSE g[j - Len(q)]
      BY <2>1, RestConcat
    <3>3. Len(g) = 3
      BY <1>9
    <3>. QED BY <3>1, <3>2, <3>3
  <2>. QED BY <2>2, <2>3 DEF q, f
<1>14. MainOps' = MainOps /\ ReadOps(prev)' = ReadOps(prev)
  <2>1. MainOps = MainBase /\ ReadOps(prev) = ReadBase(prev)
    BY <1>2, Forms DEF FormsHold
  <2>2. MainOps' = MainBase' /\ ReadOps(prev)' = ReadBase(prev)'
    BY <1>2, FormsNext DEF FormsHold
  <2>3. MainBase' = MainBase
    BY DEF MainBase
  <2>4. ReadBase(prev)' = ReadBase(prev)
    BY <1>2, <1>3 DEF ReadBase, CopyChars, Record, Wait
  <2>. QED BY <2>1, <2>2, <2>3, <2>4
<1>15. HostInv' /\ ChunksInv'
  <2>1. HostInv'
    BY <1>1, <1>2, <1>3 DEF HostInv
  <2>. QED BY <1>1, <1>2, <1>3, <1>4, <2>1 DEF ChunksInv, ChunkIs
<1>16. EventsInv'
  <2>. DEFINE e == [r \in Streams |-> 0]
  <2>1. e \in [Streams -> Int] /\ \A r \in Streams : e[r] = 0
    OBVIOUS
  <2>. HIDE DEF e
  <2>2. ASSUME NEW r \in Streams, NEW j \in 1 .. Len(queue'[r])
        PROVE  \/ j \in 1 .. Len(queue[r]) /\ queue'[r][j] = queue[r][j]
               \/ queue'[r][j].op # "record"
    <3>1. CASE r # scan_stream
      BY <1>11, <3>1
    <3>2. CASE r = scan_stream
      <4>. DEFINE n == Len(queue[scan_stream])
      <4>1. n \in Nat /\ j \in 1 .. n + 3
        BY <1>13, <3>2
      <4>2. queue'[r][j] = IF j <= n THEN queue[scan_stream][j] ELSE g[j - n]
        BY <1>13, <3>2
      <4>. HIDE DEF n
      <4>3. CASE j <= n
        <5>1. j \in 1 .. n /\ queue'[r][j] = queue[r][j]
          BY <3>2, <4>1, <4>2, <4>3
        <5>. QED BY <3>2, <5>1 DEF n
      <4>4. CASE ~(j <= n)
        <5>1. j - n \in 1 .. 3 /\ queue'[r][j] = g[j - n]
          BY <4>1, <4>2, <4>4
        <5>. QED BY <1>10, <5>1
      <4>. QED BY <4>3, <4>4
    <3>. QED BY <3>1, <3>2
  <2>3. \A r, s \in Streams : e[r] = e[s] /\ e[r] \in (records + 1) .. records' => r = s
    BY <1>4, <2>1
  <2>4. /\ records' \in Nat /\ records <= records' /\ complete' = complete
        /\ ticket_event' \in [0 .. num_tickets - 1 -> Int] /\ last_launch_event' \in 0 .. records'
    BY <1>1, <1>2, <1>4 DEF EventsInv
  <2>5. /\ EventsInv /\ queue \in [Streams -> Seq(Operation)]
        /\ queue' \in [Streams -> Seq(Operation)]
    BY <1>1, <1>4, <1>11
  <2>6. \A r \in Streams : \A j \in 1 .. Len(queue'[r]) :
          \/ j \in 1 .. Len(queue[r]) /\ queue'[r][j] = queue[r][j]
          \/ queue'[r][j].op # "record"
    BY <2>2, Zenon
  <2>. QED BY <2>1, <2>3, <2>4, <2>5, <2>6, EventsGrow
<1>17. Queues(prev)'
  BY <1>2, <1>4, <1>11, <1>12, <1>13, <1>14 DEF Queues, Rest
<1>18. WaitsInv'
  <2>1. 1 \in complete \/ (Count = 0 /\ Len(queue'[scan_stream]) = Len(ScanOps'))
    BY <1>1, <1>3, <1>13 DEF WaitsInv
  <2>2. ~(Len(queue'[scan_stream]) < 2)
    BY <1>13
  <2>. QED BY <1>2, <1>3, <2>1, <2>2 DEF WaitsInv
<1>19. DataInv(prev)'
  <2>1. Uploaded' => Uploaded
    BY <1>2, <1>13 DEF Uploaded
  <2>2. CharsLeft(prev)' <=> CharsLeft(prev)
    BY <1>2, <1>3, <1>4, <1>11, <1>14 DEF CharsLeft
  <2>. QED BY <1>1, <1>2, <1>3, <2>1, <2>2 DEF DataInv, Upto, Streams, num_tickets
<1>20. ScanInv' /\ RingInv' /\ BlockInv'
  <2>1. Seeded' => Seeded
    BY <1>2, <1>4, <1>11, <1>14 DEF Seeded
  <2>2. Len(queue'[scan_stream']) \in Nat /\ Len(queue'[scan_stream']) > 2
    BY <1>2, <1>13
  <2>. QED BY <1>1, <1>2, <1>3, <2>1, <2>2, TilesStay
<1>21. Shape'
  BY <1>1, <1>2, <1>11 DEF Shape, scanVars, AllTiles, num_tile_states, Streams, Operation
<1>. QED BY <1>15, <1>16, <1>17, <1>18, <1>19, <1>20, <1>21 DEF PInv


\* Two chunks in a row have different tickets.
LEMMA OtherTicket ==
  ASSUME NEW n \in Nat
  PROVE  n % num_tickets # (n + 1) % num_tickets
<1>. DEFINE p == n + 1
<1>1. p \in Nat /\ num_tickets \in Nat \ {0} /\ n - p < num_tickets /\ p - n < num_tickets
      /\ n # p
  BY DEF num_tickets
<1>. HIDE DEF p
<1>2. n % num_tickets # p % num_tickets
  BY <1>1, ModSame
<1>. QED BY <1>2 DEF p

\* The chunk after the one in hand is read; the scan of the one in hand goes on.
LEMMA ReadAheadKeeps ==
  ASSUME NEW prev, PInv(prev), ReadAhead
  PROVE  PInv(prev)'
<1>1. /\ Shape /\ HostInv /\ ChunksInv /\ EventsInv /\ Queues(prev) /\ WaitsInv /\ DataInv(prev)
      /\ ScanInv /\ RingInv /\ BlockInv
  BY DEF PInv
<1>2. /\ hpc = "read" /\ hpc' = "sync" /\ GetNextChunk(read_stream)
      /\ chunk' = chunk /\ read_stream' = read_stream /\ scan_stream' = scan_stream
  BY DEF ReadAhead
<1>3. Looping /\ Scanning /\ ~Joining /\ Looping' /\ Scanning' /\ ~Joining'
  BY <1>2 DEF Looping, Scanning, Joining
<1>4. /\ Count \in Nat /\ Count < Chunks /\ chunk # NoChunk /\ chunk.buffer \in Addresses
      /\ scan_stream \in Streams /\ read_stream \in Streams /\ "main" \in Streams
      /\ scan_stream # read_stream /\ scan_stream # "main" /\ read_stream # "main"
      /\ queue \in [Streams -> Seq(Operation)] /\ owner[chunk.buffer] = "live"
      /\ tickets[Count % num_tickets] = Count /\ chunk.number = Count
      /\ chunk.stream \in Streams
  <2>1. Count < Chunks /\ ChunkIs(chunk, Count)
    BY <1>1, <1>3 DEF ChunksInv
  <2>. QED BY <1>1, <1>3, <2>1, HostFacts DEF Shape, ChunkIs
<1>. SUFFICES ASSUME NEW k \in Nat, k = Count + 1
              PROVE  PInv(prev)'
  BY <1>4
<1>. DEFINE g == Reading(next_chunk, k)'
            i == k % num_tickets
<1>5. k = next
  BY <1>1, <1>2, <1>3 DEF HostInv
<1>6. /\ queue' = [queue EXCEPT ![read_stream] = queue[read_stream] \o g]
      /\ queue' \in [Streams -> Seq(Operation)] /\ g \in Seq(Operation)
      /\ k < Chunks => Len(g) = 2
      /\ ChunkIs(next_chunk, k)'
      /\ \A a \in Addresses :
           owner[a] = "live" => /\ owner'[a] = "live"
                                /\ k < Chunks => next_chunk'.buffer # a
      /\ \A j : j # i => tickets'[j] = tickets[j] /\ ticket_event'[j] = ticket_event[j]
      /\ owner' \in [Addresses -> Streams \cup {"nobody", "live"}]
      /\ tickets' \in [0 .. num_tickets - 1 -> Int]
      /\ next' = k + 1 /\ EventsInv'
      /\ UNCHANGED <<tail, last_launch_event, thread_event, offsets_read, base_tile_idx,
                     scanVars, complete, memory, char_storage, output>>
  BY <1>2, <1>5, ChunkRead
<1>7. Count' = Count /\ Tiles' = Tiles
  BY <1>6 DEF Count, Tiles, TilesOf
<1>8. /\ queue'[read_stream] = queue[read_stream] \o g /\ queue'[scan_stream] = queue[scan_stream]
      /\ queue'["main"] = queue["main"]
  BY <1>4, <1>6
<1>9. Reading(next_chunk, Count + 1)' = g
  BY <1>7 DEF Reading
<1>10. Count % num_tickets # i
  BY <1>4, OtherTicket
<1>11. /\ tickets'[Count % num_tickets] = tickets[Count % num_tickets]
       /\ ticket_event'[Count % num_tickets] = ticket_event[Count % num_tickets]
       /\ owner'[chunk.buffer] = "live" /\ (k < Chunks => next_chunk'.buffer # chunk.buffer)
  BY <1>4, <1>6, <1>10
<1>. HIDE DEF g, i
<1>12. HostInv' /\ ChunksInv'
  <2>1. HostInv'
    <3>1. /\ next' = Count' + 2 /\ Looping' /\ hpc' = "sync" /\ Count' = Count
          /\ UNCHANGED <<tail, offsets_read, base_tile_idx, read_stream, scan_stream>>
      BY <1>2, <1>3, <1>4, <1>6, <1>7
    <3>. QED BY <1>1, <3>1 DEF HostInv
  <2>2. ChunkIs(chunk, Count)'
    BY <1>2, <1>4, <1>7, <1>11 DEF ChunkIs, num_tickets, Streams
  <2>3. ChunkIs(next_chunk, Count + 1)'
    BY <1>6, <1>7 DEF ChunkIs
  <2>. QED BY <1>2, <1>4, <1>7, <1>11, <2>1, <2>2, <2>3 DEF ChunksInv
<1>13. MainOps' = MainOps /\ ScanOps' = ScanOps /\ ReadOps(prev)' = ReadOps(prev) \o g
  <2>1. /\ MainOps = MainBase /\ ReadOps(prev) = ReadBase(prev)
        /\ ScanOps = ScanBase \o <<Reset(Tiles), Wait(last_launch_event), Scan(Tiles, chunk)>>
    BY <1>2, <1>3, Forms DEF FormsHold
  <2>2. /\ MainOps' = MainBase'
        /\ ReadOps(prev)' = ReadBase(prev)' \o Reading(next_chunk, Count + 1)'
        /\ ScanOps' = ScanBase' \o <<Reset(Tiles), Wait(last_launch_event), Scan(Tiles, chunk)>>'
    BY <1>2, <1>3, FormsNext DEF FormsHold
  <2>3. MainBase' = MainBase
    BY DEF MainBase
  <2>4. ReadBase(prev)' = ReadBase(prev)
    BY <1>6, <1>7 DEF ReadBase, CopyChars, Record, Wait
  <2>5. <<Reset(Tiles), Wait(last_launch_event), Scan(Tiles, chunk)>>'
          = <<Reset(Tiles), Wait(last_launch_event), Scan(Tiles, chunk)>>
    BY <1>2, <1>6, <1>7 DEF Reset, Wait, Scan
  <2>6. ScanBase' = ScanBase
    BY <1>2, <1>7, <1>11 DEF ScanBase, Reading, num_tickets
  <2>. QED BY <1>9, <2>1, <2>2, <2>3, <2>4, <2>5, <2>6
<1>14. /\ Rest(queue["main"], MainOps) /\ Rest(queue[scan_stream], ScanOps)
       /\ Rest(queue[read_stream], ReadOps(prev))
  BY <1>1 DEF Queues
<1>15. /\ Rest(queue'[read_stream], ReadOps(prev)')
       /\ Len(queue'[read_stream]) = Len(queue[read_stream]) + Len(g)
       /\ Len(ReadOps(prev)') = Len(ReadOps(prev)) + Len(g)
       /\ Len(queue[read_stream]) \in Nat /\ Len(g) \in Nat /\ Len(ReadOps(prev)) \in Nat
  BY <1>6, <1>8, <1>13, <1>14, RestConcat
<1>16. Queues(prev)'
  BY <1>2, <1>8, <1>13, <1>14, <1>15 DEF Queues, Rest
<1>17. WaitsInv'
  BY <1>1, <1>2, <1>3, <1>6, <1>7, <1>8, <1>13 DEF WaitsInv
<1>18. DataInv(prev)'
  <2>1. Uploaded' <=> Uploaded
    BY <1>2, <1>8, <1>13 DEF Uploaded
  <2>2. CharsLeft(prev)' <=> CharsLeft(prev)
    BY <1>2, <1>7, <1>15 DEF CharsLeft
  <2>3. Count + 1 < Chunks => ~(Len(queue'[read_stream]) < 2)
    <3>1. Count + 1 < Chunks => Len(g) = 2
      BY <1>6
    <3>. DEFINE a == Len(queue'[read_stream])
                b == Len(queue[read_stream])
                c == Len(g)
    <3>2. a = b + c /\ b \in Nat /\ (Count + 1 < Chunks => c = 2)
      BY <1>15, <3>1
    <3>. HIDE DEF a, b, c
    <3>3. Count + 1 < Chunks => ~(a < 2)
      BY <3>2
    <3>. QED BY <3>3 DEF a
  <2>. QED BY <1>1, <1>2, <1>3, <1>6, <1>7, <2>1, <2>2, <2>3
         DEF DataInv, Upto, Streams, num_tickets
<1>19. ScanInv' /\ RingInv' /\ BlockInv'
  <2>1. Seeded' => Seeded
    BY <1>2, <1>8, <1>13 DEF Seeded
  <2>2. Len(queue'[scan_stream']) = Len(queue[scan_stream]) /\ Len(queue[scan_stream]) \in Nat
    BY <1>2, <1>4, <1>8, LenProperties
  <2>. QED BY <1>1, <1>3, <1>6, <1>7, <2>1, <2>2, TilesStay
<1>20. Shape'
  BY <1>1, <1>6 DEF Shape, scanVars, AllTiles, num_tile_states, Streams, Operation
<1>. QED BY <1>6, <1>12, <1>16, <1>17, <1>18, <1>19, <1>20 DEF PInv

LEMMA ReturnKeeps ==
  ASSUME NEW prev, PInv(prev), Return
  PROVE  PInv(prev)'
<1>1. /\ Shape /\ HostInv /\ ChunksInv /\ EventsInv /\ Queues(prev) /\ WaitsInv /\ DataInv(prev)
      /\ ScanInv /\ RingInv /\ BlockInv
  BY DEF PInv
<1>2. /\ hpc = "gather" /\ hpc' = "done" /\ queue["main"] = <<>>
      /\ UNCHANGED <<next, tail, read_stream, scan_stream, base_tile_idx, chunk, next_chunk,
                     tickets, ticket_event, last_launch_event, thread_event, records, owner,
                     offsets_read, scanVars, complete, queue, memory, char_storage, output>>
  BY DEF Return
<1>3. /\ Looping /\ ~Scanning /\ Joining /\ Looping' /\ ~Scanning' /\ Joining'
      /\ Count' = Count /\ Tiles' = Tiles
  BY <1>2 DEF Looping, Scanning, Joining, Count, Tiles, TilesOf
<1>4. MainOps' = MainOps /\ ScanOps' = ScanOps /\ ReadOps(prev)' = ReadOps(prev)
  BY <1>2, <1>3 DEF MainOps, ScanOps, ReadOps, Reading, JoinRecord, JoinEvent
<1>5. HostInv' /\ ChunksInv'
  BY <1>1, <1>2, <1>3 DEF HostInv, ChunksInv, ChunkIs
<1>6. EventsInv'
  BY <1>1, <1>2 DEF EventsInv, Streams, num_tickets
<1>7. Queues(prev)'
  BY <1>1, <1>2, <1>4 DEF Queues, Rest, Operation
<1>8. WaitsInv'
  BY <1>1, <1>2, <1>3, <1>4 DEF WaitsInv, Upto
<1>9. DataInv(prev)'
  <2>1. (Uploaded' <=> Uploaded) /\ (CharsLeft(prev)' <=> CharsLeft(prev))
    BY <1>2, <1>3, <1>4 DEF Uploaded, CharsLeft
  <2>. QED BY <1>1, <1>2, <1>3, <2>1 DEF DataInv, Upto, Streams, num_tickets
<1>10. ScanInv' /\ RingInv' /\ BlockInv'
  <2>1. Seeded' => Seeded
    BY <1>2, <1>4 DEF Seeded
  <2>2. Len(queue'[scan_stream']) \in Nat
    BY <1>1, <1>2, HostFacts, LenProperties DEF Shape
  <2>. QED BY <1>1, <1>2, <1>3, <2>1, <2>2, TilesStay
<1>11. Shape'
  BY <1>1, <1>2 DEF Shape, scanVars, AllTiles, num_tile_states, Streams, Operation
<1>. QED BY <1>5, <1>6, <1>7, <1>8, <1>9, <1>10, <1>11 DEF PInv

\* One operation behind two.
LEMMA AppendBehind ==
  ASSUME NEW q \in Seq(Operation), NEW a \in Operation, NEW b \in Operation, NEW c \in Operation
  PROVE  Append(q \o <<a, b>>, c) = q \o <<a, b, c>>
<1>. DEFINE f == <<a, b>>
            g == <<a, b, c>>
            n == Len(q)
<1>1. /\ f \in Seq(Operation) /\ Len(f) = 2 /\ f[1] = a /\ f[2] = b
      /\ g \in Seq(Operation) /\ Len(g) = 3 /\ g[1] = a /\ g[2] = b /\ g[3] = c
  BY Tuples
<1>2. n \in Nat
  BY LenProperties
<1>. HIDE DEF f, g
<1>. DEFINE v == q \o f
            w == q \o g
            x == Append(v, c)
<1>3. /\ v \in Seq(Operation) /\ Len(v) = n + 2
      /\ \A j \in 1 .. n + 2 : v[j] = IF j <= n THEN q[j] ELSE f[j - n]
  <2>1. /\ v \in Seq(Operation) /\ Len(v) = Len(q) + Len(f)
        /\ \A j \in 1 .. Len(q) + Len(f) : v[j] = IF j <= Len(q) THEN q[j] ELSE f[j - Len(q)]
    BY <1>1, ConcatProperties
  <2>. QED BY <1>1, <2>1
<1>4. /\ w \in Seq(Operation) /\ Len(w) = n + 3
      /\ \A j \in 1 .. n + 3 : w[j] = IF j <= n THEN q[j] ELSE g[j - n]
  <2>1. /\ w \in Seq(Operation) /\ Len(w) = Len(q) + Len(g)
        /\ \A j \in 1 .. Len(q) + Len(g) : w[j] = IF j <= Len(q) THEN q[j] ELSE g[j - Len(q)]
    BY <1>1, ConcatProperties
  <2>. QED BY <1>1, <2>1
<1>. HIDE DEF v, w
<1>5. /\ x \in Seq(Operation) /\ Len(x) = Len(v) + 1 /\ x[Len(v) + 1] = c
      /\ \A j \in 1 .. Len(v) : x[j] = v[j]
  BY <1>3, AppendProperties
<1>. HIDE DEF x, n
<1>6. Len(x) = n + 3 /\ x[n + 3] = c /\ \A j \in 1 .. n + 2 : x[j] = v[j]
  BY <1>2, <1>3, <1>5
<1>7. ASSUME NEW j \in 1 .. n + 3 PROVE x[j] = w[j]
  <2>1. CASE j <= n
    <3>1. j \in 1 .. n + 2
      BY <1>2, <2>1
    <3>. QED BY <1>3, <1>4, <1>6, <2>1, <3>1
  <2>2. CASE j = n + 1
    <3>1. j \in 1 .. n + 2 /\ ~(j <= n) /\ j - n = 1
      BY <1>2, <2>2
    <3>. QED BY <1>1, <1>3, <1>4, <1>6, <3>1
  <2>3. CASE j = n + 2
    <3>1. j \in 1 .. n + 2 /\ ~(j <= n) /\ j - n = 2
      BY <1>2, <2>3
    <3>. QED BY <1>1, <1>3, <1>4, <1>6, <3>1
  <2>4. CASE j = n + 3
    <3>1. ~(j <= n) /\ j - n = 3
      BY <1>2, <2>4
    <3>. QED BY <1>1, <1>4, <1>6, <2>4, <3>1
  <2>. QED BY <1>2, <2>1, <2>2, <2>3, <2>4
<1>8. x = w
  BY <1>4, <1>5, <1>6, <1>7, SeqEqual
<1>. QED BY <1>8 DEF x, v, w, f, g

LEMMA EndLoopKeeps ==
  ASSUME NEW prev, PInv(prev), EndLoop
  PROVE  PInv(prev)'
<1>1. /\ Shape /\ HostInv /\ ChunksInv /\ EventsInv /\ Queues(prev) /\ WaitsInv /\ DataInv(prev)
      /\ ScanInv /\ RingInv /\ BlockInv
  BY DEF PInv
<1>2. /\ hpc = "loop" /\ hpc' = "gather" /\ records' = records + 2
      /\ UNCHANGED <<next, tail, read_stream, scan_stream, base_tile_idx, chunk, next_chunk,
                     tickets, ticket_event, last_launch_event, owner, offsets_read, scanVars,
                     complete, memory, char_storage, output>>
  BY DEF EndLoop
<1>3. /\ Looping /\ ~Scanning /\ ~Joining /\ Looping' /\ ~Scanning' /\ Joining'
      /\ Count' = Count /\ Tiles' = Tiles
  BY <1>2 DEF Looping, Scanning, Joining, Count, Tiles, TilesOf
<1>4. /\ scan_stream \in Streams /\ read_stream \in Streams /\ "main" \in Streams
      /\ scan_stream # read_stream /\ scan_stream # "main" /\ read_stream # "main"
      /\ queue \in [Streams -> Seq(Operation)] /\ records \in Nat
      /\ Streams = {"main", scan_stream, read_stream}
  BY <1>1, HostFacts DEF Shape
<1>. DEFINE a == Wait(records + 1)
            b == Wait(records + 2)
            g == <<a, b, GatherOp>>
            e == [s \in Streams |-> IF s = "main" THEN 0
                                    ELSE IF s = "s0" THEN records + 1 ELSE records + 2]
            x == [s \in Streams |-> IF s = "main" THEN g ELSE <<Record(e[s])>>]
<1>5. a \in Operation /\ b \in Operation /\ GatherOp \in Operation
      /\ a.op # "record" /\ b.op # "record" /\ GatherOp.op # "record"
  BY <1>4, OperationTypes, Kinds
<1>6. /\ e \in [Streams -> Int] /\ e["main"] = 0
      /\ \A s \in Streams : s # "main" => e[s] = IF s = "s0" THEN records + 1 ELSE records + 2
  BY <1>4
<1>7. /\ x["main"] = g /\ \A s \in Streams : s # "main" => x[s] = <<Record(e[s])>>
  BY <1>4
<1>8. queue' = [s \in Streams |-> queue[s] \o x[s]]
  <2>. DEFINE r == Record(records + 1)
              t == Record(records + 2)
  <2>1. r \in Operation /\ t \in Operation
    BY <1>4, OperationTypes
  <2>2. /\ Append(queue["s0"], r) = queue["s0"] \o <<r>>
        /\ Append(queue["s1"], t) = queue["s1"] \o <<t>>
    <3>1. queue["s0"] \in Seq(Operation) /\ queue["s1"] \in Seq(Operation)
      BY <1>4 DEF Streams
    <3>. HIDE DEF r, t
    <3>. QED BY <2>1, <3>1, AppendIsConcat
  <2>3. Append(queue["main"] \o <<a, b>>, GatherOp) = queue["main"] \o g
    <3>1. queue["main"] \in Seq(Operation)
      BY <1>4
    <3>. HIDE DEF a, b
    <3>. QED BY <1>5, <3>1, AppendBehind
  <2>4. x["s0"] = <<r>> /\ x["s1"] = <<t>> /\ x["main"] = g
    BY <1>6, <1>7 DEF Streams
  <2>5. queue' = [[queue EXCEPT !["s0"] = Append(queue["s0"], r), !["s1"] = Append(queue["s1"], t),
                                !["main"] = queue["main"] \o <<a, b>>]
                    EXCEPT !["main"] = Append(queue["main"] \o <<a, b>>, GatherOp)]
    <3>1. queue' = [Joined(queue, records) EXCEPT !["main"] = Append(@, GatherOp)]
      BY DEF EndLoop
    <3>2. Joined(queue, records)
            = [queue EXCEPT !["s0"] = Append(queue["s0"], r), !["s1"] = Append(queue["s1"], t),
                            !["main"] = queue["main"] \o <<a, b>>]
      BY DEF Joined
    <3>3. Joined(queue, records)["main"] = queue["main"] \o <<a, b>>
      BY <1>4, <3>2
    <3>. QED BY <3>1, <3>2, <3>3
  <2>. HIDE DEF r, t, g, a, b, x, e
  <2>. QED BY <1>4, <2>2, <2>3, <2>4, <2>5 DEF Streams
<1>9. \A s \in Streams : x[s] \in Seq(Operation) /\ Len(x[s]) = IF s = "main" THEN 3 ELSE 1
  <2>1. g \in Seq(Operation) /\ Len(g) = 3
    BY <1>5, Tuples
  <2>2. ASSUME NEW s \in Streams, s # "main"
        PROVE  x[s] \in Seq(Operation) /\ Len(x[s]) = 1
    <3>1. Record(e[s]) \in Operation
      BY <1>6, OperationTypes
    <3>. QED BY <1>7, <2>2, <3>1, Tuples
  <2>. HIDE DEF x, g
  <2>. QED BY <1>7, <2>1, <2>2
<1>10. \A s \in Streams : \A j \in 1 .. Len(x[s]) :
         x[s][j].op # "record" \/ (s # "main" /\ j = Len(x[s]) /\ x[s][j].event = e[s])
  <2>1. ASSUME NEW j \in 1 .. 3 PROVE g[j].op # "record"
    <3>1. g[1] = a /\ g[2] = b /\ g[3] = GatherOp
      OBVIOUS
    <3>2. j = 1 \/ j = 2 \/ j = 3
      OBVIOUS
    <3>. HIDE DEF g, a, b
    <3>. QED BY <1>5, <3>1, <3>2
  <2>2. ASSUME NEW s \in Streams, s # "main" PROVE x[s][1].event = e[s]
    BY <1>7, <2>2, Kinds
  <2>. HIDE DEF x, g, e
  <2>3. ASSUME NEW s \in Streams, NEW j \in 1 .. Len(x[s])
        PROVE  x[s][j].op # "record" \/ (s # "main" /\ j = Len(x[s]) /\ x[s][j].event = e[s])
    <3>1. CASE s = "main"
      BY <1>7, <1>9, <2>1, <3>1
    <3>2. CASE s # "main"
      <4>1. Len(x[s]) = 1
        BY <1>9, <3>2
      <4>2. j = 1
        BY <4>1
      <4>. QED BY <2>2, <3>2, <4>1, <4>2
    <3>. QED BY <3>1, <3>2
  <2>. QED BY <2>3
<1>11. /\ MainOps' = MainOps \o x["main"] /\ ScanOps' = ScanOps \o x[scan_stream]
       /\ ReadOps(prev)' = ReadOps(prev) \o x[read_stream]
  <2>1. MainOps = MainBase /\ ReadOps(prev) = ReadBase(prev) /\ ScanOps = ScanBase
    BY <1>2, Forms DEF FormsHold
  <2>2. /\ MainOps' = MainBase' \o <<Wait(records - 1), Wait(records), GatherOp>>'
        /\ ReadOps(prev)' = ReadBase(prev)' \o <<Record(JoinEvent(read_stream))>>'
        /\ ScanOps' = ScanBase' \o <<Record(JoinEvent(scan_stream))>>'
    BY <1>3, FormsNext DEF FormsHold
  <2>3. MainBase' = MainBase
    BY DEF MainBase
  <2>4. ReadBase(prev)' = ReadBase(prev)
    BY <1>2, <1>3 DEF ReadBase, CopyChars, Record, Wait
  <2>5. ScanBase' = ScanBase
    BY <1>2, <1>3 DEF ScanBase, Reading, num_tickets
  <2>6. <<Wait(records - 1), Wait(records), GatherOp>>' = g
    <3>1. records' - 1 = records + 1 /\ records' = records + 2
      BY <1>2, <1>4
    <3>. QED BY <3>1 DEF Wait
  <2>7. JoinEvent(scan_stream)' = e[scan_stream] /\ JoinEvent(read_stream)' = e[read_stream]
    <3>1. records' - 1 = records + 1 /\ records' = records + 2
      BY <1>2, <1>4
    <3>. QED BY <1>2, <1>4, <1>6, <3>1 DEF JoinEvent
  <2>8. /\ <<Record(JoinEvent(read_stream))>>' = <<Record(e[read_stream])>>
        /\ <<Record(JoinEvent(scan_stream))>>' = <<Record(e[scan_stream])>>
    BY <2>7 DEF Record
  <2>. HIDE DEF x, g, e
  <2>. QED BY <1>4, <1>7, <2>1, <2>2, <2>3, <2>4, <2>5, <2>6, <2>8
<1>. HIDE DEF x, g, e, a, b
<1>12. queue' \in [Streams -> Seq(Operation)] /\ \A s \in Streams : queue'[s] = queue[s] \o x[s]
  <2>1. \A s \in Streams : queue[s] \o x[s] \in Seq(Operation)
    BY <1>4, <1>9, ConcatProperties
  <2>. QED BY <1>8, <2>1
<1>13. /\ Rest(queue["main"], MainOps) /\ Rest(queue[scan_stream], ScanOps)
       /\ Rest(queue[read_stream], ReadOps(prev))
  BY <1>1 DEF Queues
<1>13a. ASSUME NEW s \in Streams, NEW f, Rest(queue[s], f)
       PROVE  /\ Rest(queue'[s], f \o x[s])
              /\ Len(queue'[s]) = Len(queue[s]) + (IF s = "main" THEN 3 ELSE 1)
              /\ Len(f \o x[s]) = Len(f) + (IF s = "main" THEN 3 ELSE 1)
              /\ Len(queue[s]) \in Nat /\ Len(f) \in Nat
  <2>. DEFINE q == queue[s]
              y == x[s]
  <2>1. queue'[s] = q \o y /\ Len(y) = IF s = "main" THEN 3 ELSE 1
    BY <1>9, <1>12
  <2>2. Rest(q, f) /\ y \in Seq(Operation)
    BY <1>9, <1>13a
  <2>. HIDE DEF q, y
  <2>3. /\ Rest(q \o y, f \o y)
        /\ Len(q \o y) = Len(q) + Len(y) /\ Len(f \o y) = Len(f) + Len(y)
        /\ Len(q) \in Nat /\ Len(f) \in Nat
    BY <2>2, RestConcat
  <2>. QED BY <2>1, <2>3 DEF q, y
<1>14. /\ Rest(queue'["main"], MainOps') /\ Len(queue'["main"]) = Len(queue["main"]) + 3
       /\ Len(MainOps') = Len(MainOps) + 3 /\ Len(queue["main"]) \in Nat /\ Len(MainOps) \in Nat
  BY <1>4, <1>11, <1>13, <1>13a
<1>15. /\ Rest(queue'[scan_stream], ScanOps')
       /\ Len(queue'[scan_stream]) = Len(queue[scan_stream]) + 1
       /\ Len(ScanOps') = Len(ScanOps) + 1
       /\ Len(queue[scan_stream]) \in Nat /\ Len(ScanOps) \in Nat
  BY <1>4, <1>11, <1>13, <1>13a
<1>16. /\ Rest(queue'[read_stream], ReadOps(prev)')
       /\ Len(queue'[read_stream]) = Len(queue[read_stream]) + 1
       /\ Len(ReadOps(prev)') = Len(ReadOps(prev)) + 1
       /\ Len(queue[read_stream]) \in Nat /\ Len(ReadOps(prev)) \in Nat
  BY <1>4, <1>11, <1>13, <1>13a
<1>17. Queues(prev)'
  BY <1>2, <1>14, <1>15, <1>16 DEF Queues
<1>18. HostInv' /\ ChunksInv'
  BY <1>1, <1>2, <1>3 DEF HostInv, ChunksInv, ChunkIs
<1>19. EventsInv'
  <2>1. ASSUME NEW s \in Streams, NEW j \in 1 .. Len(queue'[s])
        PROVE  \/ j \in 1 .. Len(queue[s]) /\ queue'[s][j] = queue[s][j]
               \/ queue'[s][j].op # "record"
               \/ /\ j = Len(queue'[s]) /\ queue'[s][j].event = e[s]
                  /\ e[s] \in (records + 1) .. records'
    <3>. DEFINE q == queue[s]
                y == x[s]
                f == queue'[s]
    <3>1. q \in Seq(Operation) /\ y \in Seq(Operation) /\ f = q \o y
      BY <1>4, <1>9, <1>12
    <3>. HIDE DEF q, y, f
    <3>2. /\ Len(q) \in Nat /\ Len(y) \in Nat /\ Len(f) = Len(q) + Len(y)
          /\ \A l \in 1 .. Len(q) + Len(y) : f[l] = IF l <= Len(q) THEN q[l] ELSE y[l - Len(q)]
      BY <3>1, ConcatProperties, LenProperties
    <3>3. j \in 1 .. Len(q) + Len(y)
      BY <3>2 DEF f
    <3>4. CASE j <= Len(q)
      <4>1. f[j] = q[j] /\ j \in 1 .. Len(q)
        BY <3>2, <3>3, <3>4
      <4>. QED BY <4>1 DEF f, q
    <3>5. CASE ~(j <= Len(q))
      <4>. DEFINE l == j - Len(q)
      <4>1. f[j] = y[l] /\ l \in 1 .. Len(y) /\ (l = Len(y) => j = Len(f))
        BY <3>2, <3>3, <3>5
      <4>. HIDE DEF l
      <4>2. y[l].op # "record" \/ (s # "main" /\ l = Len(y) /\ y[l].event = e[s])
        BY <1>10, <4>1 DEF y
      <4>3. s # "main" => e[s] \in (records + 1) .. records'
        BY <1>2, <1>4, <1>6
      <4>4. f[j].op # "record" \/ (s # "main" /\ j = Len(f) /\ f[j].event = e[s])
        BY <4>1, <4>2
      <4>. QED BY <4>3, <4>4 DEF f
    <3>. QED BY <3>4, <3>5
  <2>2. ASSUME NEW r \in Streams, NEW s \in Streams, e[r] = e[s],
               e[r] \in (records + 1) .. records'
        PROVE  r = s
    <3>1. r # "main" /\ s # "main"
      BY <1>4, <1>6, <2>2
    <3>2. (r = "s0" <=> s = "s0")
      BY <1>4, <1>6, <2>2, <3>1
    <3>. QED BY <3>1, <3>2 DEF Streams
  <2>3. /\ records' \in Nat /\ records <= records' /\ complete' = complete
        /\ last_launch_event' \in 0 .. records' /\ ticket_event' \in [0 .. num_tickets - 1 -> Int]
    BY <1>1, <1>2, <1>4 DEF EventsInv
  <2>4. /\ EventsInv /\ queue \in [Streams -> Seq(Operation)]
        /\ queue' \in [Streams -> Seq(Operation)] /\ e \in [Streams -> Int]
    BY <1>1, <1>4, <1>6, <1>12
  <2>5. /\ \A s \in Streams : \A j \in 1 .. Len(queue'[s]) :
             \/ j \in 1 .. Len(queue[s]) /\ queue'[s][j] = queue[s][j]
             \/ queue'[s][j].op # "record"
             \/ /\ j = Len(queue'[s]) /\ queue'[s][j].event = e[s]
                /\ e[s] \in (records + 1) .. records'
        /\ \A r, s \in Streams : e[r] = e[s] /\ e[r] \in (records + 1) .. records' => r = s
    BY <2>1, <2>2, Zenon
  <2>. QED BY <2>3, <2>4, <2>5, EventsGrow
<1>20. WaitsInv'
  <2>1. 1 \in complete \/ (Count = 0 /\ Len(queue'[scan_stream]) = Len(ScanOps'))
    BY <1>1, <1>3, <1>15 DEF WaitsInv
  <2>2. ~(Len(queue'["main"]) < 3)
    BY <1>14
  <2>3. ~(Len(queue'["main"]) < 2) /\ ~(Len(queue'["main"]) < 1)
    BY <1>14
  <2>. QED BY <1>2, <1>3, <2>1, <2>2, <2>3 DEF WaitsInv
<1>21. DataInv(prev)'
  <2>1. Uploaded' <=> Uploaded
    BY <1>2, <1>15 DEF Uploaded
  <2>2. CharsLeft(prev)' <=> CharsLeft(prev)
    BY <1>2, <1>3, <1>16 DEF CharsLeft
  <2>. QED BY <1>1, <1>2, <1>3, <2>1, <2>2 DEF DataInv, Upto, Streams, num_tickets
<1>22. ScanInv' /\ RingInv' /\ BlockInv'
  <2>1. Seeded' => Seeded
    BY <1>2, <1>14 DEF Seeded
  <2>2. Len(queue'[scan_stream']) \in Nat
    BY <1>2, <1>15
  <2>. QED BY <1>1, <1>2, <1>3, <2>1, <2>2, TilesStay
<1>23. Shape'
  BY <1>1, <1>2, <1>12 DEF Shape, scanVars, AllTiles, num_tile_states, Streams, Operation
<1>. QED BY <1>17, <1>18, <1>19, <1>20, <1>21, <1>22, <1>23 DEF PInv

\* What is left once the front is gone does not depend on the front.
LEMMA RestFront ==
  ASSUME NEW f \in Seq(Operation), NEW g \in Seq(Operation), NEW h \in Seq(Operation),
         NEW q, Rest(q, f \o g), Len(q) <= Len(g)
  PROVE  Rest(q, h \o g)
<1>. DEFINE u == f \o g
            v == h \o g
            a == Len(q)
            n == Len(g)
<1>1. /\ u \in Seq(Operation) /\ Len(u) = Len(f) + n /\ Len(f) \in Nat /\ n \in Nat
      /\ \A j, k \in Int : 1 <= k /\ k <= n /\ j = Len(f) + k => u[j] = g[k]
  BY ConcatAt
<1>2. /\ v \in Seq(Operation) /\ Len(v) = Len(h) + n /\ Len(h) \in Nat
      /\ \A j, k \in Int : 1 <= k /\ k <= n /\ j = Len(h) + k => v[j] = g[k]
  BY ConcatAt
<1>3. q \in Seq(Operation) /\ a \in Nat /\ a <= n /\ \A j \in 1 .. a : q[j] = u[Len(u) - a + j]
  BY LenProperties DEF Rest
<1>. HIDE DEF u, v, a, n
<1>4. ASSUME NEW j \in 1 .. a PROVE q[j] = v[Len(v) - a + j]
  <2>. DEFINE k == n - a + j
  <2>1. /\ k \in Int /\ 1 <= k /\ k <= n
        /\ Len(u) - a + j = Len(f) + k /\ Len(v) - a + j = Len(h) + k
        /\ Len(f) + k \in Int /\ Len(h) + k \in Int
    BY <1>1, <1>2, <1>3
  <2>. HIDE DEF k
  <2>2. u[Len(f) + k] = g[k]
    BY <1>1, <2>1
  <2>3. v[Len(h) + k] = g[k]
    BY <1>2, <2>1
  <2>. QED BY <1>3, <2>1, <2>2, <2>3
<1>5. a <= Len(v)
  BY <1>1, <1>2, <1>3
<1>. QED BY <1>2, <1>3, <1>4, <1>5 DEF Rest, v, a

\* When the scan is done the stream that reads has come past the launch before it.
LEMMA FrontGone ==
  ASSUME NEW prev, PInv(prev), hpc = "sync", queue[scan_stream] = <<>>
  PROVE  LET g == Reading(next_chunk, Count + 1)
         IN  /\ g \in Seq(Operation) /\ Rest(queue[read_stream], <<Wait(1)>> \o g)
             /\ Len(<<Wait(1)>> \o g) = 1 + Len(g)
             /\ (Count + 1 < Chunks => Len(g) = 2)
             /\ ~CharsLeft(prev) /\ 1 \in complete /\ Uploaded /\ Scanned
<1>. DEFINE g == Reading(next_chunk, Count + 1)
            q == queue[read_stream]
            w == <<Wait(1)>>
<1>1. /\ HostInv /\ ChunksInv /\ EventsInv /\ Queues(prev) /\ WaitsInv /\ DataInv(prev)
  BY DEF PInv
<1>2. /\ Looping /\ Scanning /\ Count \in Nat /\ records \in Nat /\ last_launch_event \in Int
      /\ read_stream \in Streams /\ ticket_event \in [0 .. num_tickets - 1 -> Int]
      /\ Count + 1 < Chunks => next_chunk # NoChunk /\ next_chunk.buffer \in Addresses
      /\ ~(Count + 1 < Chunks) => next_chunk = NoChunk
  BY <1>1, HostFacts DEF Looping, Scanning
<1>3. g \in Seq(Operation) /\ (Count + 1 < Chunks => Len(g) = 2)
  <2>1. Count + 1 \in Nat /\ (next_chunk # NoChunk => next_chunk.buffer \in Addresses)
    BY <1>2
  <2>. HIDE DEF g
  <2>2. g \in Seq(Operation) /\ (next_chunk # NoChunk => Len(g) = 2)
    BY <1>2, <2>1, ReadingAt DEF g
  <2>. QED BY <1>2, <2>2
<1>4. Len(queue[scan_stream]) = 0 /\ Len(ScanOps) = 6
  BY <1>1, <1>2, ScanAt
<1>5. 1 \in complete
  BY <1>1, <1>2, <1>4 DEF WaitsInv
<1>6. last_launch_event \in complete
  <2>1. Len(queue[scan_stream]) < 2
    BY <1>4
  <2>. QED BY <1>1, <1>2, <2>1 DEF WaitsInv
<1>7. Uploaded /\ Scanned
  BY <1>4 DEF Uploaded, Scanned
<1>8. ReadOps(prev) = ReadBase(prev) \o g /\ Rest(q, ReadOps(prev))
  BY <1>1, Forms DEF FormsHold, Queues
<1>9. w \in Seq(Operation) /\ Len(w) = 1
  BY OperationTypes, Tuples
<1>. HIDE DEF g, q, w
<1>10. Len(w \o g) = 1 + Len(g) /\ Len(g) \in Nat
  <2>1. w \in Seq(Operation) /\ g \in Seq(Operation)
    BY <1>3, <1>9
  <2>2. Len(w \o g) = Len(w) + Len(g) /\ Len(g) \in Nat
    BY <2>1, ConcatProperties, LenProperties
  <2>. QED BY <1>9, <2>2
<1>11. CASE Count = 0
  <2>1. ReadBase(prev) = w
    BY <1>11 DEF ReadBase, w
  <2>2. ~CharsLeft(prev)
    BY <1>11 DEF CharsLeft
  <2>. QED BY <1>3, <1>5, <1>7, <1>8, <1>10, <2>1, <2>2 DEF g, q, w
<1>12. CASE Count # 0
  <2>. DEFINE x == CopyChars([buffer |-> prev])
              y == Record(last_launch_event)
              f == <<x, y>>
  <2>1. ReadBase(prev) = f
    BY <1>12 DEF ReadBase
  <2>2. x \in Operation /\ y \in Operation
    <3>1. prev \in Addresses
      BY <1>1, <1>2, <1>12 DEF DataInv
    <3>. QED BY <1>2, <3>1, OperationTypes
  <2>3. y.op = "record" /\ y.event = last_launch_event
    BY Kinds
  <2>. HIDE DEF x, y
  <2>4. f \in Seq(Operation) /\ Len(f) = 2 /\ f[2] = y
    BY <2>2, Tuples
  <2>. HIDE DEF f
  <2>. DEFINE h == f \o g
              n == Len(g)
              a == Len(q)
  <2>5. /\ h \in Seq(Operation) /\ Len(h) = 2 + n /\ n \in Nat
        /\ h[2] = y
    <3>1. /\ h \in Seq(Operation) /\ Len(h) = Len(f) + Len(g) /\ Len(g) \in Nat
          /\ \A j \in Int : 1 <= j /\ j <= Len(f) => h[j] = f[j]
      <4>1. f \in Seq(Operation) /\ g \in Seq(Operation)
        BY <1>3, <2>4
      <4>. QED BY <4>1, ConcatAt
    <3>. QED BY <2>4, <3>1
  <2>6. Rest(q, h)
    BY <1>8, <2>1
  <2>. HIDE DEF h
  <2>7. a \in Nat /\ a <= 2 + n /\ \A j \in 1 .. a : q[j] = h[2 + n - a + j]
    BY <2>5, <2>6, LenProperties DEF Rest
  <2>8. a <= n
    <3>1. SUFFICES ASSUME a > n PROVE FALSE
      BY <2>5, <2>7
    <3>. HIDE DEF a, n
    <3>2. a - n \in 1 .. a /\ 2 + n - a + (a - n) = 2
      BY <2>5, <2>7, <3>1
    <3>3. q[a - n] = y
      BY <2>5, <2>7, <3>2
    <3>4. y.event \in (1 .. records) \ complete
      BY <1>1, <1>2, <2>3, <3>2, <3>3 DEF EventsInv, q, a
    <3>. QED BY <1>6, <2>3, <3>4
  <2>9. Rest(q, w \o g)
    BY <1>3, <1>9, <2>4, <2>6, <2>8, RestFront DEF h
  <2>10. ~CharsLeft(prev)
    <3>1. Len(ReadOps(prev)) = 2 + n
      BY <1>8, <2>1, <2>5 DEF h
    <3>. HIDE DEF n
    <3>. QED BY <2>5, <2>7, <2>8, <3>1 DEF CharsLeft, q
  <2>. QED BY <1>3, <1>5, <1>7, <1>10, <2>9, <2>10 DEF g, q, w
<1>. QED BY <1>11, <1>12

\* The number of tiles before the next chunk.
LEMMA NextBase ==
  ASSUME HostInv, ChunksInv, EventsInv, Scanning
  PROVE  base_tile_idx + TilesOf(Count)
           = IF Count + 1 < Chunks THEN (Count + 1) * TILES_PER_CHUNK
             ELSE Count * TILES_PER_CHUNK + tail
<1>. DEFINE T == TILES_PER_CHUNK
<1>1. base_tile_idx = Count * T /\ Count < Chunks
  BY TilesIn
<1>2. Count \in Nat /\ T \in Nat /\ Chunks \in Nat
  BY HostFacts, PipelineAssumption
<1>3. TilesOf(Count) = IF Count + 1 < Chunks THEN T ELSE tail
  BY <1>1, <1>2 DEF TilesOf
<1>4. (Count + 1) * T = Count * T + T
  BY <1>2
<1>. QED BY <1>1, <1>3, <1>4

\* The scan has put the sum of all tiles up to the last in the place of the last.
LEMMA LastTile ==
  ASSUME NEW prev, PInv(prev), Scanning, Scanned
  PROVE  LET n == base_tile_idx + TilesOf(Count)
         IN  /\ n - 1 \in Tiles /\ n \in Nat /\ Slot(n - 1) \in 0 .. num_tile_states - 1
             /\ tile_status[Slot(n - 1)] = "inclusive" /\ tile_inclusive[Slot(n - 1)] = Upto(n)
             /\ launched = {}
             /\ \A t \in AllTiles : block[t].pc = IF t < n THEN "done" ELSE "idle"
<1>. DEFINE n == base_tile_idx + TilesOf(Count)
            last == n - 1
<1>1. HostInv /\ ChunksInv /\ EventsInv /\ ScanInv /\ RingInv
  BY DEF PInv
<1>2. base_tile_idx \in Nat /\ TilesOf(Count) \in 1 .. TILES_PER_CHUNK /\ TILES_PER_CHUNK \in Nat
  BY <1>1, HostFacts, PipelineAssumption
<1>3. last \in Tiles /\ Tiles \subseteq AllTiles
  BY <1>1, <1>2, TilesIn
<1>4. Len(queue[scan_stream]) = 0
  BY DEF Scanned
<1>5. launched = {}
  BY <1>1, <1>4 DEF ScanInv
<1>6. last \in base_tile_idx - 1 .. base_tile_idx + TilesOf(Count) - 1
      /\ n \in Nat /\ n = last + 1
  BY <1>2
<1>7. Slot(last) \in 0 .. num_tile_states - 1
  <2>. HIDE DEF last
  <2>. QED BY <1>1, <1>6, SlotApart
<1>8. Published(last) /\ Placed(last) /\ block[last].pc = "done"
  <2>1. Len(queue[scan_stream]) <= 2
    BY <1>4
  <2>. HIDE DEF last
  <2>2. Published(last) /\ Placed(last)
    BY <1>1, <1>3, <2>1 DEF RingInv
  <2>3. block[last].pc = "done"
    BY <1>1, <1>3 DEF ScanInv
  <2>. QED BY <2>2, <2>3
<1>. HIDE DEF last
<1>9. tile_status[Slot(last)] = "inclusive" /\ tile_inclusive[Slot(last)] = Upto(last + 1)
  BY <1>8 DEF Published, Placed
<1>10. ASSUME NEW t \in AllTiles PROVE block[t].pc = IF t < n THEN "done" ELSE "idle"
  <2>1. t \in Int
    BY PipelineAssumption DEF AllTiles
  <2>2. CASE t < base_tile_idx
    BY <1>1, <1>2, <2>1, <2>2 DEF ScanInv
  <2>3. CASE t >= base_tile_idx /\ t < n
    <3>1. t \in Tiles
      BY <1>2, <2>1, <2>3 DEF Tiles
    <3>. QED BY <1>1, <2>3, <3>1 DEF ScanInv
  <2>4. CASE t >= n
    <3>1. t \notin Tiles /\ t >= base_tile_idx /\ ~(t < n)
      BY <1>2, <2>1, <2>4 DEF Tiles
    <3>2. block[t].pc = "idle"
      BY <1>1, <3>1 DEF ScanInv
    <3>. QED BY <3>1, <3>2
  <2>. QED BY <1>2, <1>6, <2>1, <2>2, <2>3, <2>4
<1>. QED BY <1>3, <1>5, <1>6, <1>7, <1>9, <1>10 DEF last

\* The next chunk takes the place of the one in hand.
LEMMA AdvanceKeeps ==
  ASSUME NEW prev, PInv(prev), Advance, NEW p, p = chunk.buffer
  PROVE  PInv(p)'
<1>1. /\ Shape /\ HostInv /\ ChunksInv /\ EventsInv /\ Queues(prev) /\ WaitsInv /\ DataInv(prev)
      /\ ScanInv /\ RingInv /\ BlockInv
  BY DEF PInv
<1>2. /\ hpc = "sync" /\ hpc' = "loop" /\ queue[scan_stream] = <<>>
      /\ last_launch_event' = records + 1 /\ records' = records + 1
      /\ read_stream' = scan_stream /\ scan_stream' = read_stream
      /\ base_tile_idx' = base_tile_idx + TilesOf(chunk.number)
      /\ owner' = [owner EXCEPT ![chunk.buffer] = chunk.stream]
      /\ chunk' = next_chunk /\ next_chunk' = NoChunk
      /\ UNCHANGED <<next, tail, tickets, ticket_event, thread_event, scanVars, complete,
                     memory, char_storage, output>>
  BY DEF Advance
<1>3. Looping /\ Scanning /\ ~Joining /\ Looping' /\ ~Scanning' /\ ~Joining'
  BY <1>2 DEF Looping, Scanning, Joining
<1>4. /\ Count \in Nat /\ Count < Chunks /\ chunk.number = Count /\ p \in Addresses
      /\ chunk.stream \in Streams /\ records \in Nat /\ Chunks \in Nat
      /\ scan_stream \in Streams /\ read_stream \in Streams /\ "main" \in Streams
      /\ scan_stream # read_stream /\ scan_stream # "main" /\ read_stream # "main"
      /\ queue \in [Streams -> Seq(Operation)]
  <2>1. Count < Chunks /\ ChunkIs(chunk, Count)
    BY <1>1, <1>3 DEF ChunksInv
  <2>. QED BY <1>1, <1>3, <2>1, HostFacts, PipelineAssumption DEF Shape, ChunkIs
<1>. DEFINE n == base_tile_idx + TilesOf(Count)
            R == Reading(next_chunk, Count + 1)
            w == <<Wait(1)>>
<1>5. /\ R \in Seq(Operation) /\ Rest(queue[read_stream], w \o R)
      /\ Len(w \o R) = 1 + Len(R) /\ (Count + 1 < Chunks => Len(R) = 2)
      /\ ~CharsLeft(prev) /\ 1 \in complete /\ Uploaded /\ Scanned
  BY <1>2, FrontGone
<1>6. /\ n \in Nat /\ Slot(n - 1) \in 0 .. num_tile_states - 1
      /\ tile_status[Slot(n - 1)] = "inclusive" /\ tile_inclusive[Slot(n - 1)] = Upto(n)
      /\ launched = {}
      /\ \A t \in AllTiles : block[t].pc = IF t < n THEN "done" ELSE "idle"
  BY <1>3, <1>5, LastTile
<1>7. base_tile_idx' = n
  BY <1>2, <1>4
<1>8. /\ offsets_read' = Append(offsets_read, tile_inclusive[Slot(n - 1)])
      /\ offsets_read' \in Seq(Seq(Int)) /\ Count' = Count + 1
  <2>1. offsets_read' = Append(offsets_read, tile_inclusive[Slot(n - 1)])
    <3>1. offsets_read' = Append(offsets_read,
                                 tile_inclusive[Slot(base_tile_idx + TilesOf(chunk.number) - 1)])
      BY DEF Advance
    <3>2. base_tile_idx + TilesOf(chunk.number) - 1 = n - 1
      <4>1. base_tile_idx \in Int /\ TilesOf(Count) \in Int
        BY <1>1, HostFacts
      <4>. QED BY <1>4, <4>1
    <3>. HIDE DEF n
    <3>. QED BY <3>1, <3>2
  <2>2. tile_inclusive[Slot(n - 1)] \in Seq(Int)
    BY <1>1, <1>6 DEF Shape
  <2>3. offsets_read \in Seq(Seq(Int))
    BY <1>1 DEF HostInv
  <2>. QED BY <2>1, <2>2, <2>3, AppendProperties DEF Count
<1>9. HostInv'
  <2>1. n = IF Count + 1 < Chunks THEN (Count + 1) * TILES_PER_CHUNK
            ELSE Count * TILES_PER_CHUNK + tail
    BY <1>1, <1>3, NextBase
  <2>2. (Count + 1) - 1 = Count /\ Count + 1 <= Chunks /\ Count + 1 # 0
    BY <1>4
  <2>. HIDE DEF n
  <2>3. next = Count + 2
    BY <1>1, <1>2, <1>3 DEF HostInv
  <2>4. next' = Count' + 1 /\ Count' <= Chunks
    BY <1>2, <1>4, <1>8, <2>3
  <2>5. base_tile_idx' = IF Count' < Chunks \/ Count' = 0 THEN Count' * TILES_PER_CHUNK
                         ELSE (Count' - 1) * TILES_PER_CHUNK + tail
    BY <1>7, <1>8, <2>1, <2>2
  <2>6. read_stream' \in {"s0", "s1"} /\ scan_stream' \in {"s0", "s1"} \ {read_stream'}
    BY <1>1, <1>2 DEF HostInv
  <2>7. tail' = tail /\ tail \in 1 .. TILES_PER_CHUNK /\ hpc' = "loop"
    BY <1>1, <1>2 DEF HostInv
  <2>. QED BY <1>3, <1>8, <2>4, <2>5, <2>6, <2>7 DEF HostInv
<1>. HIDE DEF n
<1>10. /\ ChunkIs(next_chunk, Count + 1) /\ (Count + 1 < Chunks => next_chunk.buffer # p)
  BY <1>1, <1>2 DEF ChunksInv
<1>11. ChunksInv'
  <2>1. \A a \in Addresses : a # p => owner'[a] = owner[a]
    BY <1>1, <1>2 DEF DataInv
  <2>2. ChunkIs(next_chunk, Count + 1) => ChunkIs(chunk, Count)'
    BY <1>2, <1>8, <1>10, <2>1 DEF ChunkIs, Streams, num_tickets, NoChunk
  <2>. QED BY <1>2, <1>3, <1>10, <2>2 DEF ChunksInv
<1>. DEFINE x == CopyChars([buffer |-> p])
            y == Record(records + 1)
            g == <<x, y>>
<1>12. /\ x \in Operation /\ y \in Operation /\ x.op # "record"
       /\ y.op = "record" /\ y.event = records + 1
  <2>1. x \in Operation
    BY <1>4, OperationTypes
  <2>2. y \in Operation
    BY <1>4, OperationTypes
  <2>. QED BY <2>1, <2>2, Kinds
<1>13. queue' = [queue EXCEPT ![scan_stream] = <<>> \o g]
  <2>1. CopyChars(chunk) = x
    BY DEF CopyChars
  <2>. QED BY <1>2, <2>1 DEF Advance
<1>14. /\ MainOps' = MainOps /\ ScanOps' = w \o R /\ ReadOps(p)' = g
  <2>1. /\ MainOps' = MainBase' /\ ScanOps' = ScanBase' /\ ReadOps(p)' = ReadBase(p)'
    BY <1>2, FormsNext DEF FormsHold
  <2>2. MainOps = MainBase
    BY <1>2, Forms DEF FormsHold
  <2>3. MainBase' = MainBase
    BY DEF MainBase
  <2>4. ScanBase' = w \o R
    <3>1. Reading(chunk, Count)' = R
      BY <1>2, <1>8 DEF Reading
    <3>. QED BY <3>1 DEF ScanBase, Wait
  <2>5. ReadBase(p)' = g
    <3>1. Count' # 0
      BY <1>4, <1>8
    <3>. QED BY <1>2, <3>1 DEF ReadBase, CopyChars, Record
  <2>. QED BY <2>1, <2>2, <2>3, <2>4, <2>5
<1>. HIDE DEF x, y, R, w
<1>15. g \in Seq(Operation) /\ Len(g) = 2 /\ g[1] = x /\ g[2] = y /\ <<>> \o g = g
  BY <1>12, Tuples
<1>. HIDE DEF g
<1>16. /\ queue' \in [Streams -> Seq(Operation)] /\ queue'[scan_stream] = g
       /\ \A r \in Streams : r # scan_stream => queue'[r] = queue[r]
  BY <1>4, <1>13, <1>15
<1>17. EventsInv'
  <2>. DEFINE e == [r \in Streams |-> IF r = scan_stream THEN records + 1 ELSE 0]
  <2>1. e \in [Streams -> Int] /\ e[scan_stream] = records + 1
        /\ \A r \in Streams : r # scan_stream => e[r] = 0
    BY <1>4
  <2>. HIDE DEF e
  <2>2. ASSUME NEW r \in Streams, NEW j \in 1 .. Len(queue'[r])
        PROVE  \/ j \in 1 .. Len(queue[r]) /\ queue'[r][j] = queue[r][j]
               \/ queue'[r][j].op # "record"
               \/ /\ j = Len(queue'[r]) /\ queue'[r][j].event = e[r]
                  /\ e[r] \in (records + 1) .. records'
    <3>1. CASE r # scan_stream
      BY <1>16, <3>1
    <3>2. CASE r = scan_stream
      <4>1. queue'[r] = g /\ Len(queue'[r]) = 2
        BY <1>15, <1>16, <3>2
      <4>2. j = 1 \/ j = 2
        BY <4>1
      <4>3. g[1].op # "record" /\ g[2].event = e[r] /\ e[r] \in (records + 1) .. records'
        BY <1>2, <1>4, <1>12, <1>15, <2>1, <3>2
      <4>. QED BY <4>1, <4>2, <4>3
    <3>. QED BY <3>1, <3>2
  <2>3. ASSUME NEW r \in Streams, NEW s \in Streams, e[r] = e[s],
               e[r] \in (records + 1) .. records'
        PROVE  r = s
    <3>1. e[r] # 0 /\ e[s] # 0
      BY <1>2, <1>4, <2>3
    <3>. QED BY <2>1, <3>1
  <2>4. /\ records' \in Nat /\ records <= records' /\ complete' = complete
        /\ last_launch_event' \in 0 .. records' /\ ticket_event' \in [0 .. num_tickets - 1 -> Int]
    BY <1>1, <1>2, <1>4 DEF EventsInv
  <2>5. /\ EventsInv /\ queue \in [Streams -> Seq(Operation)]
        /\ queue' \in [Streams -> Seq(Operation)] /\ e \in [Streams -> Int]
    BY <1>1, <1>4, <1>16, <2>1
  <2>6. /\ \A r \in Streams : \A j \in 1 .. Len(queue'[r]) :
             \/ j \in 1 .. Len(queue[r]) /\ queue'[r][j] = queue[r][j]
             \/ queue'[r][j].op # "record"
             \/ /\ j = Len(queue'[r]) /\ queue'[r][j].event = e[r]
                /\ e[r] \in (records + 1) .. records'
        /\ \A r, s \in Streams : e[r] = e[s] /\ e[r] \in (records + 1) .. records' => r = s
    BY <2>2, <2>3, Zenon
  <2>. QED BY <2>4, <2>5, <2>6, EventsGrow
<1>18. Queues(p)'
  <2>1. Rest(queue'["main"], MainOps')
    BY <1>1, <1>4, <1>14, <1>16 DEF Queues
  <2>2. Rest(queue'[read_stream], ScanOps')
    BY <1>4, <1>5, <1>14, <1>16
  <2>3. Rest(queue'[scan_stream], ReadOps(p)')
    BY <1>14, <1>15, <1>16, RestWhole
  <2>. QED BY <1>2, <2>1, <2>2, <2>3 DEF Queues
<1>19. WaitsInv'
  BY <1>2, <1>3, <1>5 DEF WaitsInv
<1>20. CharsLeft(p)'
  <2>1. Len(queue'[read_stream']) = Len(ReadOps(p)')
    BY <1>2, <1>14, <1>16
  <2>. QED BY <1>4, <1>8, <2>1 DEF CharsLeft
<1>21. DataInv(p)'
  <2>1. owner' \in [Addresses -> Streams \cup {"nobody", "live"}]
    BY <1>1, <1>2, <1>4 DEF DataInv
  <2>2. ASSUME Count' < Chunks, Uploaded'
        PROVE  memory'[chunk'.buffer] = Count'
    <3>. DEFINE a == Len(queue[read_stream])
                b == Len(R)
    <3>1. a + 2 <= 1 + b
      <4>1. Len(queue'[scan_stream']) + 2 <= Len(ScanOps')
        BY <2>2 DEF Uploaded
      <4>2. queue'[scan_stream'] = queue[read_stream] /\ Len(ScanOps') = 1 + Len(R)
        BY <1>2, <1>4, <1>5, <1>14, <1>16
      <4>. QED BY <4>1, <4>2
    <3>2. b = 2 /\ a \in Nat /\ Count + 1 < Chunks
      BY <1>4, <1>5, <1>8, <2>2, LenProperties
    <3>. HIDE DEF a, b
    <3>3. a < 2
      BY <3>1, <3>2
    <3>4. memory[next_chunk.buffer] = Count + 1
      BY <1>1, <1>2, <3>2, <3>3 DEF DataInv, a
    <3>. QED BY <1>2, <1>8, <3>4
  <2>3. memory[p] = Count /\ Count' - 1 = Count
    BY <1>1, <1>3, <1>4, <1>5, <1>8 DEF DataInv
  <2>4. char_storage = Upto(Count)
    BY <1>1, <1>5 DEF DataInv
  <2>5. /\ memory' \in [Addresses -> Int] /\ tickets' \in [0 .. num_tickets - 1 -> Int]
        /\ memory' = memory /\ char_storage' = char_storage
    BY <1>1, <1>2 DEF DataInv
  <2>6. Count' < Chunks => p # chunk'.buffer
    BY <1>2, <1>8, <1>10
  <2>7. hpc' # "sync"
    BY <1>2
  <2>. QED BY <1>4, <1>20, <2>1, <2>2, <2>3, <2>4, <2>5, <2>6, <2>7
         DEF DataInv, Upto, Streams, num_tickets
<1>22. /\ tile_status' = tile_status /\ tile_partial' = tile_partial
       /\ tile_inclusive' = tile_inclusive /\ block' = block /\ launched' = launched
  BY <1>2 DEF scanVars
<1>23. ScanInv'
  <2>1. ASSUME NEW t \in AllTiles
        PROVE  /\ t < base_tile_idx' => block'[t].pc = "done"
               /\ ~(t >= base_tile_idx' /\ block'[t].pc # "idle")
    <3>1. t \in Int
      BY PipelineAssumption DEF AllTiles
    <3>2. t < n \/ (~(t < n) /\ t >= n)
      BY <1>6, <3>1
    <3>3. t < n => ~(t >= n)
      BY <1>6, <3>1
    <3>. QED BY <1>6, <1>7, <1>22, <3>2, <3>3
  <2>. QED BY <1>3, <1>6, <1>22, <2>1 DEF ScanInv, AllTiles
<1>24. RingInv'
  <2>1. PICK m \in Int : m = n - 1
    BY <1>6
  <2>2. m + 1 = n /\ base_tile_idx' - 1 = m
    BY <1>6, <1>7, <2>1
  <2>3. tile_inclusive'[Slot(m)] = Upto(m + 1) /\ tile_status'[Slot(m)] = "inclusive"
    BY <1>6, <1>22, <2>1, <2>2
  <2>4. Published(m)' /\ tile_status'[Slot(m)] = "inclusive"
    BY <2>3 DEF Published, Slot, num_tile_states, Upto
  <2>. QED BY <1>3, <2>2, <2>4 DEF RingInv, Published, Slot, num_tile_states, Upto
<1>25. BlockInv'
  <2>1. ASSUME NEW t \in AllTiles PROVE Knows(t)'
    <3>1. Knows(t)
      BY <1>1 DEF BlockInv
    <3>2. block[t].pc \in {"done", "idle"} /\ block' = block
      BY <1>6, <1>22
    <3>. QED BY <3>1, <3>2 DEF Knows, Upto
  <2>. QED BY <2>1 DEF BlockInv, AllTiles
<1>26. Shape'
  BY <1>1, <1>16, <1>22 DEF Shape, AllTiles, num_tile_states, Streams, Operation
<1>. QED BY <1>9, <1>11, <1>17, <1>18, <1>19, <1>21, <1>23, <1>24, <1>25, <1>26 DEF PInv

----------------------------------------------------------------------------
(* What the host has read.                                                 *)

\* Nothing else changes what was read.
LEMMA OffsetsKept ==
  ASSUME OffsetsExact, UNCHANGED <<offsets_read, tail>>
  PROVE  OffsetsExact'
BY DEF OffsetsExact, Upto, TilesOf

LEMMA OffsetsGrow ==
  ASSUME NEW prev, PInv(prev), Advance, OffsetsExact
  PROVE  OffsetsExact'
<1>1. HostInv /\ ChunksInv /\ EventsInv
  BY DEF PInv
<1>2. hpc = "sync" /\ queue[scan_stream] = <<>> /\ tail' = tail
  BY DEF Advance
<1>3. Scanning /\ Looping /\ Scanned
  <2>1. Scanning /\ Looping
    BY <1>2 DEF Scanning, Looping
  <2>2. Scanned
    BY <1>2, Tuples DEF Scanned
  <2>. QED BY <2>1, <2>2
<1>. DEFINE n == base_tile_idx + TilesOf(Count)
<1>4. tile_inclusive[Slot(n - 1)] = Upto(n)
  BY <1>3, LastTile
<1>5. /\ base_tile_idx = Count * TILES_PER_CHUNK /\ chunk.number = Count
      /\ base_tile_idx \in Nat /\ TilesOf(Count) \in Int /\ Count \in Nat
      /\ offsets_read \in Seq(Seq(Int))
  <2>1. base_tile_idx = Count * TILES_PER_CHUNK /\ Count < Chunks
    BY <1>1, <1>3, TilesIn
  <2>. QED BY <1>1, <1>3, <2>1, HostFacts DEF HostInv
<1>6. base_tile_idx + TilesOf(chunk.number) - 1 = n - 1
  BY <1>5
<1>7. n = Count * TILES_PER_CHUNK + TilesOf(Count)
  BY <1>5
<1>. HIDE DEF n
<1>8. offsets_read' = Append(offsets_read, Upto(n))
  <2>1. offsets_read' = Append(offsets_read,
                               tile_inclusive[Slot(base_tile_idx + TilesOf(chunk.number) - 1)])
    BY DEF Advance
  <2>. QED BY <1>4, <1>6, <2>1
<1>9. /\ DOMAIN offsets_read = 1 .. Count /\ DOMAIN offsets_read' = 1 .. Count + 1
      /\ offsets_read'[Count + 1] = Upto(n)
      /\ \A i \in 1 .. Count : offsets_read'[i] = offsets_read[i]
  BY <1>5, <1>8 DEF Count
<1>10. \A i : TilesOf(i)' = TilesOf(i)
  BY <1>2 DEF TilesOf
<1>11. ASSUME NEW i \in DOMAIN offsets_read'
       PROVE  offsets_read'[i] = Upto((i - 1) * TILES_PER_CHUNK + TilesOf(i - 1))
  <2>1. CASE i \in 1 .. Count
    BY <1>9, <2>1 DEF OffsetsExact
  <2>2. CASE i = Count + 1
    <3>1. i - 1 = Count
      BY <1>5, <2>2
    <3>2. n = (i - 1) * TILES_PER_CHUNK + TilesOf(i - 1)
      BY <1>7, <3>1
    <3>. QED BY <1>9, <2>2, <3>2
  <2>. QED BY <1>5, <1>9, <1>11, <2>1, <2>2
<1>. QED BY <1>10, <1>11 DEF OffsetsExact, Upto

----------------------------------------------------------------------------
(* The specification.                                                      *)

LEMMA InitInv == ASSUME Init PROVE IInv
<1>. DEFINE prev == NoChunk
<1>1. /\ hpc = "setup" /\ next = 0 /\ tail \in 1 .. TILES_PER_CHUNK
      /\ read_stream = "s0" /\ scan_stream = "s1" /\ base_tile_idx = 0
      /\ chunk = NoChunk /\ next_chunk = NoChunk
      /\ tickets = [i \in 0 .. num_tickets - 1 |-> None]
      /\ ticket_event = [i \in 0 .. num_tickets - 1 |-> 0]
      /\ last_launch_event = 0 /\ records = 0 /\ complete = {0}
      /\ queue = [s \in Streams |-> <<>>]
      /\ memory = [a \in Addresses |-> None] /\ owner = [a \in Addresses |-> "nobody"]
      /\ launched = {} /\ offsets_read = <<>> /\ char_storage = <<>>
  BY DEF Init
<1>2. /\ ~Looping /\ ~Scanning /\ ~Joining /\ ~Seeded /\ Count = 0 /\ ~CharsLeft(prev)
  <2>1. Count = 0
    BY <1>1 DEF Count
  <2>. QED BY <1>1, <2>1 DEF Looping, Scanning, Joining, Seeded, CharsLeft
<1>3. None \in Int /\ num_tickets \in Nat
  BY DEF None, num_tickets
<1>4. \A t \in AllTiles : t \in Nat
  BY PipelineAssumption DEF AllTiles
<1>5. /\ tile_status = [i \in 0 .. num_tile_states - 1 |-> "invalid"]
      /\ tile_partial = [i \in 0 .. num_tile_states - 1 |-> <<>>]
      /\ tile_inclusive = [i \in 0 .. num_tile_states - 1 |-> <<>>]
      /\ block = [t \in AllTiles |->
                    [pc |-> "idle", aggregate |-> <<>>, window |-> <<>>,
                     predecessor |-> None, status |-> "invalid"]]
  BY DEF Init
<1>6. \A s \in Streams : queue[s] = <<>> /\ Len(queue[s]) = 0
  BY <1>1
<1>7. Shape
  <2>1. <<>> \in Seq(Int) /\ <<>> \in Seq(Operation)
    BY Tuples
  <2>. QED BY <1>1, <1>3, <1>5, <2>1 DEF Shape
<1>8. HostInv
  <2>1. <<>> \in Seq(Seq(Int)) /\ 0 * TILES_PER_CHUNK = 0
    BY PipelineAssumption
  <2>. QED BY <1>1, <1>2, <2>1, PipelineAssumption DEF HostInv
<1>9. ChunksInv
  BY <1>1, <1>2 DEF ChunksInv
<1>10. EventsInv
  <2>1. \A s \in Streams : \A j \in 1 .. Len(queue[s]) : FALSE
    BY <1>6
  <2>2. ticket_event \in [0 .. num_tickets - 1 -> Int]
    BY <1>1
  <2>3. complete \subseteq 0 .. records
    BY <1>1
  <2>. QED BY <1>1, <2>1, <2>2, <2>3 DEF EventsInv
<1>11. Queues(prev)
  <2>1. MainOps = <<>> /\ ScanOps = <<>> /\ ReadOps(prev) = <<>>
    BY <1>1, Forms DEF FormsHold
  <2>2. Rest(<<>>, <<>>)
    BY Tuples, RestWhole
  <2>. QED BY <1>1, <1>6, <2>1, <2>2 DEF Queues, Streams
<1>12. WaitsInv
  BY <1>1, <1>2 DEF WaitsInv
<1>13. DataInv(prev)
  <2>1. char_storage = Upto(0)
    BY <1>1 DEF Upto
  <2>. QED BY <1>1, <1>2, <1>3, <2>1 DEF DataInv
<1>14. ScanInv
  BY <1>1, <1>2, <1>4, <1>5 DEF ScanInv
<1>15. RingInv
  BY <1>2 DEF RingInv
<1>16. BlockInv
  BY <1>5 DEF BlockInv, Knows
<1>17. OffsetsExact
  BY <1>1 DEF OffsetsExact
<1>. QED BY <1>7, <1>8, <1>9, <1>10, <1>11, <1>12, <1>13, <1>14, <1>15, <1>16, <1>17
       DEF IInv, PInv

\* One step, whoever takes it.
LEMMA NextInv == ASSUME IInv, [Next]_vars PROVE IInv'
<1>1. PICK prev : PInv(prev)
  BY DEF IInv
<1>2. OffsetsExact
  BY DEF IInv
<1>3. CASE Host
  <2>1. CASE Advance
    <3>1. PICK p : p = chunk.buffer
      OBVIOUS
    <3>2. PInv(p)'
      BY <1>1, <2>1, <3>1, AdvanceKeeps
    <3>3. OffsetsExact'
      BY <1>1, <1>2, <2>1, OffsetsGrow
    <3>. QED BY <3>2, <3>3 DEF IInv
  <2>2. CASE Setup \/ ReadFirst \/ Launch \/ ReadAhead \/ EndLoop \/ Return
    <3>1. PInv(prev)'
      BY <1>1, <2>2, SetupKeeps, ReadFirstKeeps, LaunchKeeps, ReadAheadKeeps, EndLoopKeeps,
         ReturnKeeps
    <3>2. UNCHANGED <<offsets_read, tail>>
      BY <2>2 DEF Setup, ReadFirst, Launch, ReadAhead, EndLoop, Return, GetNextChunk
    <3>3. OffsetsExact'
      BY <1>2, <3>2, OffsetsKept
    <3>. QED BY <3>1, <3>3 DEF IInv
  <2>. QED BY <1>3, <2>1, <2>2 DEF Host
<1>4. ASSUME NEW s \in Streams, Stream(s) PROVE IInv'
  <2>1. PInv(prev)'
    <3>1. CASE RunScan(s)
      BY <1>1, <3>1, ScanBegins
    <3>2. CASE Taken(s)
      BY <1>1, <3>2, PopAll
    <3>. QED BY <1>4, <3>1, <3>2 DEF Stream, Taken
  <2>2. UNCHANGED <<offsets_read, tail>>
    BY <1>4 DEF Stream, RunEvent, RunInit, RunSeed, RunUpload, RunChars, RunGather, RunScan,
                EndScan, hostVars
  <2>3. OffsetsExact'
    BY <1>2, <2>2, OffsetsKept
  <2>. QED BY <2>1, <2>3 DEF IInv
<1>5. ASSUME NEW t \in AllTiles, Block(t) PROVE IInv'
  <2>1. PInv(prev)'
    BY <1>1, <1>5, BlockKeeps
  <2>2. UNCHANGED <<offsets_read, tail>>
    BY <1>5 DEF Block, Dispatch, SetPartial, SetPartialStatus, LoadStatus, LoadValue,
                SetInclusive, SetInclusiveStatus, hostVars
  <2>3. OffsetsExact'
    BY <1>2, <2>2, OffsetsKept
  <2>. QED BY <2>1, <2>3 DEF IInv
<1>6. CASE UNCHANGED vars
  <2>1. /\ UNCHANGED <<hostVars, complete, queue, memory, char_storage, output>>
        /\ UNCHANGED scanVars
    BY <1>6 DEF vars
  <2>2. /\ HostInv' /\ ChunksInv' /\ EventsInv' /\ Queues(prev)' /\ WaitsInv' /\ DataInv(prev)'
        /\ (Scanning' <=> Scanning) /\ (Scanned' <=> Scanned) /\ (Seeded' <=> Seeded)
        /\ Tiles' = Tiles /\ base_tile_idx' = base_tile_idx
    BY <1>1, <2>1, StreamsKept
  <2>3. ScanInv' /\ RingInv' /\ BlockInv'
    <3>1. scan_stream' = scan_stream /\ queue' = queue /\ scan_stream \in Streams
      BY <1>1, <2>1, HostFacts DEF PInv, hostVars
    <3>2. Len(queue'[scan_stream']) = Len(queue[scan_stream]) /\ Len(queue[scan_stream]) \in Nat
      BY <1>1, <3>1, LenProperties DEF PInv, Shape
    <3>. QED BY <1>1, <2>1, <2>2, <3>2, TilesStay DEF PInv
  <2>4. Shape'
    BY <1>1, <2>1 DEF PInv, Shape, scanVars, AllTiles, num_tile_states, Streams, Operation
  <2>5. OffsetsExact'
    BY <1>2, <1>6, OffsetsKept DEF vars, hostVars
  <2>. QED BY <2>2, <2>3, <2>4, <2>5 DEF IInv, PInv
<1>. QED BY <1>3, <1>4, <1>5, <1>6 DEF Next, Spin, Finished

\* The invariant holds of every state that is reached.
THEOREM Invariant == Spec => []IInv
<1>1. Init => IInv
  BY InitInv
<1>2. IInv /\ [Next]_vars => IInv'
  BY NextInv
<1>. QED BY <1>1, <1>2, PTL DEF Spec

\* A block that has looked back has the sum of exactly the tiles before its own.
THEOREM PrefixExactHolds == Spec => []PrefixExact
<1>1. IInv => PrefixExact
  BY DEF IInv, PInv, BlockInv, Knows, PrefixExact
<1>. QED BY <1>1, Invariant, PTL

\* The host never reads the sum of a chunk before the chunk's last tile is in it.
THEOREM OffsetsExactHolds == Spec => []OffsetsExact
<1>1. IInv => OffsetsExact
  BY DEF IInv
<1>. QED BY <1>1, Invariant, PTL

\* What is gathered is what was read: every chunk once, in order.
THEOREM OutputExactHolds == Spec => []OutputExact
<1>1. ASSUME IInv PROVE OutputExact
  <2>1. PICK prev : PInv(prev)
    BY <1>1 DEF IInv
  <2>2. hpc = "done" => output = Upto(Count)
    <3>1. SUFFICES ASSUME hpc = "done" PROVE output = Upto(Count)
      OBVIOUS
    <3>2. Joining /\ queue["main"] = <<>>
      BY <2>1, <3>1 DEF PInv, WaitsInv, Joining
    <3>3. Len(queue["main"]) = 0
      BY <3>2, Tuples
    <3>4. Len(queue["main"]) < 1
      BY <3>3
    <3>. QED BY <2>1, <3>2, <3>4 DEF PInv, WaitsInv
  <2>. QED BY <2>2 DEF OutputExact, Count
<1>. QED BY <1>1, Invariant, PTL

----------------------------------------------------------------------------
(* Looking back does not wait for ever.                                    *)

\* Blocks are dispatched in order.
Order ==
  \A t, r \in launched : r < t /\ block[t].pc # "idle" => block[r].pc # "idle"

\* A block that has come as far as to look back shows something.
Showing ==
  \A t \in launched :
    block[t].pc \notin {"idle", "partial", "partial_status"} => tile_status[Slot(t)] # "invalid"

\* An operation of a stream leaves the states of running tiles alone.
LEMMA PopShowing ==
  ASSUME NEW prev, PInv(prev), Order, Showing, NEW s \in Streams, Taken(s)
  PROVE  Order' /\ Showing'
<1>. DEFINE o == Head(queue[s])
<1>1. queue[s] # <<>> /\ block' = block /\ launched' \in {launched, {}}
  BY Effects
<1>2. SUFFICES ASSUME launched # {}, launched' = launched PROVE Order' /\ Showing'
  BY <1>1 DEF Order, Showing
<1>3. Scanning /\ Len(queue[scan_stream]) = 1 /\ Seeded
  <2>1. Scanning /\ Len(queue[scan_stream]) = 1
    BY <1>2 DEF PInv, ScanInv
  <2>2. hpc # "setup"
    BY <2>1 DEF Scanning
  <2>. QED BY <1>2, <2>1, <2>2, Early
<1>4. o.op \notin {"init", "seed"}
  <2>. DEFINE left == Len(queue[s])
              all == Len(MainOps)
  <2>1. o.op = "init" => (s = "main" /\ left = all) \/ (s = scan_stream /\ left = 3)
    BY <1>1, HeadIs
  <2>2. o.op = "seed" => s = "main" /\ left = all - 1
    BY <1>1, HeadIs
  <2>3. left \in Nat
    BY <1>1, HeadIs
  <2>4. s = "main" => left + 2 <= all
    BY <1>3 DEF Seeded
  <2>5. s = scan_stream => left = 1
    BY <1>3
  <2>6. all \in Nat
    BY LenProperties DEF PInv, Queues, Rest
  <2>. HIDE DEF o, left, all
  <2>. QED BY <2>1, <2>2, <2>3, <2>4, <2>5, <2>6
<1>5. tile_status' = tile_status
  BY <1>4, Effects
<1>. QED BY <1>1, <1>2, <1>5 DEF Order, Showing, Slot, num_tile_states

\* When a scan begins none of its blocks runs.
LEMMA BeginShowing ==
  ASSUME NEW prev, PInv(prev), NEW s \in Streams, RunScan(s)
  PROVE  Order' /\ Showing'
<1>. DEFINE o == Head(queue[s])
<1>1. queue[s] # <<>> /\ o.op = "scan" /\ launched = {} /\ launched' = o.tiles /\ block' = block
  BY DEF RunScan, Heads
<1>2. s = scan_stream /\ Scanning /\ Len(queue[s]) = 1 /\ launched' = Tiles
  <2>1. s = scan_stream /\ Scanning /\ Len(queue[s]) = 1 /\ o = Scan(Tiles, chunk)
    BY <1>1, HeadIs
  <2>. QED BY <1>1, <2>1, Kinds
<1>3. Tiles \subseteq AllTiles /\ base_tile_idx \in Nat /\ TilesOf(Count) \in Nat
  BY <1>2, TilesIn, HostFacts DEF PInv
<1>4. ASSUME NEW t \in Tiles PROVE block'[t].pc = "idle"
  <2>1. t \in AllTiles /\ t >= base_tile_idx
    BY <1>3 DEF Tiles
  <2>2. ~Scanned
    BY <1>2 DEF Scanned
  <2>. QED BY <1>1, <2>1, <2>2 DEF PInv, ScanInv
<1>. QED BY <1>2, <1>4 DEF Order, Showing

\* What a step of one block changes.
LEMMA BlockMoves ==
  ASSUME NEW prev, PInv(prev), Showing, NEW t \in AllTiles, Block(t)
  PROVE  /\ t \in launched /\ launched' = launched
         /\ \A u \in AllTiles \ {t} : block'[u] = block[u]
         /\ block'[t].pc # "idle"
         /\ block[t].pc = "idle" => \A r \in launched : r < t => block[r].pc # "idle"
         /\ block'[t].pc \notin {"partial", "partial_status"} => tile_status'[Slot(t)] # "invalid"
         /\ \A i \in (0 .. num_tile_states - 1) \ {Slot(t)} : tile_status'[i] = tile_status[i]
<1>1. block[t].pc \notin {"idle", "done"} \/ t \in launched
  BY DEF Block, Dispatch, SetPartial, SetPartialStatus, LoadStatus, LoadValue, SetInclusive,
         SetInclusiveStatus
<1>2. t \in launched /\ Slot(t) \in 0 .. num_tile_states - 1
  BY <1>1, BlockAt
<1>3. /\ block[t] \in BlockRecord /\ block \in [AllTiles -> BlockRecord]
      /\ tile_status \in [0 .. num_tile_states - 1 -> {"invalid", "oob", "partial", "inclusive"}]
  BY DEF PInv, Shape, BlockRecord
<1>4. launched' = launched
  BY DEF Block, Dispatch, SetPartial, SetPartialStatus, LoadStatus, LoadValue, SetInclusive,
         SetInclusiveStatus
<1>5. block[t].pc \notin {"idle", "partial", "partial_status"} => tile_status[Slot(t)] # "invalid"
  BY <1>2 DEF Showing
<1>. DEFINE Others == \A u \in AllTiles \ {t} : block'[u] = block[u]
            Places == \A i \in (0 .. num_tile_states - 1) \ {Slot(t)} : tile_status'[i] = tile_status[i]
            Shows == block'[t].pc \notin {"partial", "partial_status"} => tile_status'[Slot(t)] # "invalid"
<1>6. ASSUME NEW r, block' = [block EXCEPT ![t] = r] PROVE Others /\ block'[t] = r
  BY <1>3, <1>6
<1>7. ASSUME tile_status' = tile_status, block'[t].pc # "idle",
             block[t].pc \notin {"idle", "partial", "partial_status"}
             \/ block'[t].pc \in {"partial", "partial_status"}
      PROVE  Places /\ Shows
  BY <1>5, <1>7
<1>8. ASSUME NEW x \in {"partial", "inclusive"}, tile_status' = [tile_status EXCEPT ![Slot(t)] = x]
      PROVE  Places /\ Shows
  BY <1>2, <1>3, <1>8
<1>. HIDE DEF Others, Places, Shows
<1>9. Others /\ Places /\ Shows /\ block'[t].pc # "idle"
      /\ (block[t].pc = "idle" => \A r \in launched : r < t => block[r].pc # "idle")
  <2>1. CASE Dispatch(t)
    <3>. DEFINE r == [block[t] EXCEPT !.pc = "partial", !.aggregate = Aggregate(t)]
    <3>1. /\ block' = [block EXCEPT ![t] = r] /\ tile_status' = tile_status
          /\ \A u \in launched : u < t => block[u].pc # "idle"
      BY <2>1 DEF Dispatch, Goto
    <3>2. r.pc = "partial"
      BY <1>3 DEF BlockRecord
    <3>. HIDE DEF r
    <3>. QED BY <1>6, <1>7, <3>1, <3>2
  <2>2. CASE SetPartial(t)
    <3>. DEFINE r == [block[t] EXCEPT !.pc = "partial_status"]
    <3>1. /\ block[t].pc = "partial" /\ block' = [block EXCEPT ![t] = r]
          /\ tile_status' = tile_status
      BY <2>2 DEF SetPartial, Goto
    <3>2. r.pc = "partial_status"
      BY <1>3 DEF BlockRecord
    <3>. HIDE DEF r
    <3>. QED BY <1>6, <1>7, <3>1, <3>2
  <2>3. CASE SetPartialStatus(t)
    <3>. DEFINE r == [block[t] EXCEPT !.pc = "look", !.predecessor = t - 1]
    <3>1. /\ block[t].pc = "partial_status" /\ block' = [block EXCEPT ![t] = r]
          /\ tile_status' = [tile_status EXCEPT ![Slot(t)] = "partial"]
      BY <2>3 DEF SetPartialStatus, Goto
    <3>2. r.pc = "look"
      BY <1>3 DEF BlockRecord
    <3>. HIDE DEF r
    <3>. QED BY <1>6, <1>8, <3>1, <3>2
  <2>4. CASE LoadStatus(t)
    <3>. DEFINE r == [block[t] EXCEPT !.pc = "value",
                               !.status = tile_status[Slot(block[t].predecessor)]]
    <3>1. /\ block[t].pc = "look" /\ block' = [block EXCEPT ![t] = r]
          /\ tile_status' = tile_status
      BY <2>4 DEF LoadStatus, Goto
    <3>2. r.pc = "value"
      BY <1>3 DEF BlockRecord
    <3>. HIDE DEF r
    <3>. QED BY <1>6, <1>7, <3>1, <3>2
  <2>5. CASE LoadValue(t)
    <3>1. block[t].pc = "value" /\ tile_status' = tile_status
          /\ \E r : block' = [block EXCEPT ![t] = r] /\ r.pc \in {"inclusive", "look"}
      <4>. DEFINE i == Slot(block[t].predecessor)
                  prefix == IF block[t].status = "partial" THEN tile_partial[i]
                                                          ELSE tile_inclusive[i]
                  next_pc == IF block[t].status = "inclusive" THEN "inclusive" ELSE "look"
                  r == [block[t] EXCEPT !.window = prefix \o @, !.pc = next_pc,
                                        !.predecessor = @ - 1]
      <4>1. /\ block[t].pc = "value" /\ block' = [block EXCEPT ![t] = r]
            /\ tile_status' = tile_status
        BY <2>5 DEF LoadValue, Goto
      <4>2. r.pc = next_pc
        BY <1>3 DEF BlockRecord
      <4>3. next_pc \in {"inclusive", "look"}
        OBVIOUS
      <4>. HIDE DEF r, next_pc
      <4>. QED BY <4>1, <4>2, <4>3
    <3>2. PICK r : block' = [block EXCEPT ![t] = r] /\ r.pc \in {"inclusive", "look"}
      BY <3>1
    <3>. QED BY <1>6, <1>7, <3>1, <3>2
  <2>6. CASE SetInclusive(t)
    <3>. DEFINE r == [block[t] EXCEPT !.pc = "inclusive_status"]
    <3>1. /\ block[t].pc = "inclusive" /\ block' = [block EXCEPT ![t] = r]
          /\ tile_status' = tile_status
      BY <2>6 DEF SetInclusive, Goto
    <3>2. r.pc = "inclusive_status"
      BY <1>3 DEF BlockRecord
    <3>. HIDE DEF r
    <3>. QED BY <1>6, <1>7, <3>1, <3>2
  <2>7. CASE SetInclusiveStatus(t)
    <3>. DEFINE r == [block[t] EXCEPT !.pc = "done"]
    <3>1. /\ block[t].pc = "inclusive_status" /\ block' = [block EXCEPT ![t] = r]
          /\ tile_status' = [tile_status EXCEPT ![Slot(t)] = "inclusive"]
      BY <2>7 DEF SetInclusiveStatus, Goto
    <3>2. r.pc = "done"
      BY <1>3 DEF BlockRecord
    <3>. HIDE DEF r
    <3>. QED BY <1>6, <1>8, <3>1, <3>2
  <2>. QED BY <2>1, <2>2, <2>3, <2>4, <2>5, <2>6, <2>7 DEF Block
<1>. QED BY <1>2, <1>4, <1>9 DEF Others, Places, Shows

\* A step of a block keeps the order and what the others show.
LEMMA BlockShowing ==
  ASSUME NEW prev, PInv(prev), Order, Showing, NEW t \in AllTiles, Block(t)
  PROVE  Order' /\ Showing'
<1>1. /\ t \in launched /\ launched' = launched
      /\ \A u \in AllTiles \ {t} : block'[u] = block[u]
      /\ block'[t].pc # "idle"
      /\ block[t].pc = "idle" => \A r \in launched : r < t => block[r].pc # "idle"
      /\ block'[t].pc \notin {"partial", "partial_status"} => tile_status'[Slot(t)] # "invalid"
      /\ \A i \in (0 .. num_tile_states - 1) \ {Slot(t)} : tile_status'[i] = tile_status[i]
  BY BlockMoves
<1>2. /\ launched = Tiles /\ Tiles \subseteq AllTiles
      /\ \A u, v \in Tiles \cup {base_tile_idx - 1} : Slot(u) = Slot(v) => u = v
      /\ \A u \in Tiles \cup {base_tile_idx - 1} : Slot(u) \in 0 .. num_tile_states - 1
  BY <1>1, BlockAt
<1>3. ASSUME NEW u \in launched, NEW r \in launched, r < u, block'[u].pc # "idle"
      PROVE  block'[r].pc # "idle"
  <2>1. CASE r = t
    BY <1>1, <2>1
  <2>2. CASE r # t /\ u = t
    <3>1. block'[r] = block[r]
      BY <1>1, <1>2, <2>2
    <3>. QED BY <1>1, <1>3, <2>2, <3>1 DEF Order
  <2>3. CASE r # t /\ u # t
    <3>1. block'[r] = block[r] /\ block'[u] = block[u]
      BY <1>1, <1>2, <2>3
    <3>. QED BY <1>3, <3>1 DEF Order
  <2>. QED BY <2>1, <2>2, <2>3
<1>4. ASSUME NEW u \in launched, block'[u].pc \notin {"idle", "partial", "partial_status"}
      PROVE  tile_status'[Slot(u)] # "invalid"
  <2>1. CASE u = t
    BY <1>1, <1>4, <2>1
  <2>2. CASE u # t
    <3>1. block'[u] = block[u] /\ Slot(u) # Slot(t) /\ Slot(u) \in 0 .. num_tile_states - 1
      BY <1>1, <1>2, <2>2
    <3>2. tile_status'[Slot(u)] = tile_status[Slot(u)]
      BY <1>1, <3>1
    <3>. QED BY <1>4, <3>1, <3>2 DEF Showing
  <2>. QED BY <2>1, <2>2
<1>. QED BY <1>1, <1>3, <1>4 DEF Order, Showing, Slot, num_tile_states

\* The order and what is shown are kept by every step.
LEMMA ShowingNext ==
  ASSUME IInv, Order, Showing, [Next]_vars
  PROVE  Order' /\ Showing'
<1>1. PICK prev : PInv(prev)
  BY DEF IInv
<1>2. CASE Host \/ UNCHANGED vars
  <2>1. UNCHANGED scanVars
    BY <1>2 DEF Host, Setup, ReadFirst, Launch, ReadAhead, Advance, EndLoop, Return, GetNextChunk,
                vars
  <2>. QED BY <2>1 DEF Order, Showing, scanVars, Slot, num_tile_states
<1>3. ASSUME NEW s \in Streams, Stream(s) PROVE Order' /\ Showing'
  BY <1>1, <1>3, PopShowing, BeginShowing DEF Stream, Taken
<1>4. ASSUME NEW t \in AllTiles, Block(t) PROVE Order' /\ Showing'
  BY <1>1, <1>4, BlockShowing
<1>. QED BY <1>2, <1>3, <1>4 DEF Next, Spin, Finished

\* The block that another one waits for.
LEMMA SpinsSeen == ASSUME IInv, Order, Showing PROVE SpinsOnResident
<1>1. PICK prev : PInv(prev)
  BY DEF IInv
<1>2. SUFFICES ASSUME NEW t \in AllTiles, block[t].pc = "look",
                      tile_status[Slot(block[t].predecessor)] = "invalid"
               PROVE  /\ block[t].predecessor \in Running
                      /\ block[block[t].predecessor].pc \in {"partial", "partial_status"}
  BY DEF SpinsOnResident
<1>. DEFINE p == block[t].predecessor
<1>3. /\ launched = Tiles /\ t \in Tiles /\ t \in Nat /\ base_tile_idx \in Nat
      /\ tile_status[Slot(base_tile_idx - 1)] = "inclusive"
      /\ \A u \in base_tile_idx - 1 .. t : u >= base_tile_idx => u \in Tiles
      /\ \A u \in Tiles : Placed(u)
  BY <1>1, <1>2, BlockAt
<1>4. p \in base_tile_idx - 1 .. t - 1
  BY <1>1, <1>2 DEF PInv, BlockInv, Knows
<1>5. tile_status[Slot(p)] = "invalid"
  BY <1>2
<1>6. block \in [AllTiles -> BlockRecord] /\ Tiles \subseteq AllTiles
  BY <1>1, <1>2, BlockAt DEF PInv, Shape, BlockRecord
<1>. HIDE DEF p
<1>7. p \in Tiles /\ p < t
  BY <1>3, <1>4, <1>5
<1>8. block[p].pc # "idle"
  BY <1>2, <1>3, <1>7 DEF Order
<1>9. block[p].pc # "done"
  BY <1>3, <1>5, <1>7 DEF Placed
<1>10. block[p].pc \in {"partial", "partial_status"}
  BY <1>3, <1>5, <1>7, <1>8 DEF Showing
<1>. QED BY <1>3, <1>7, <1>8, <1>9, <1>10 DEF Running, p

\* A block that spins waits for one that is resident and does not wait itself.
THEOREM SpinsOnResidentHolds == Spec => []SpinsOnResident
<1>1. Init => Order /\ Showing
  BY DEF Init, Order, Showing
<1>2. IInv /\ (Order /\ Showing) /\ [Next]_vars => (Order /\ Showing)'
  BY ShowingNext
<1>3. IInv /\ (Order /\ Showing) => SpinsOnResident
  BY SpinsSeen
<1>. QED BY <1>1, <1>2, <1>3, Invariant, PTL DEF Spec
=============================================================================
