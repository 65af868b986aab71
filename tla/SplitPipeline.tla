---------------------------- MODULE SplitPipeline ---------------------------
(***************************************************************************)
(* How multibyte_split runs on the device: chunks are read through two     *)
(* pinned host buffers (tickets) and copied on one stream while the        *)
(* previous chunk is scanned on another; the streams change roles after    *)
(* every chunk.  The scan is a single-pass prefix sum: each block          *)
(* publishes its own aggregate, then looks back over its predecessors      *)
(* until one has published an inclusive prefix (tile_state.hpp).  The      *)
(* states of the tiles are kept in a ring.                                 *)
(*                                                                         *)
(* The sum is abstracted to the sequence of the tiles that went into it,   *)
(* which shows a tile that is missing, repeated or out of order; the data  *)
(* of a chunk is the chunk's number.  Streams and events are CUDA's: the   *)
(* operations of a stream run in order, a wait for an event waits for the  *)
(* latest record at the time of the call, an event that was never recorded *)
(* is complete, and memory that was freed on a stream may be given to a    *)
(* later allocation on that stream.                                        *)
(***************************************************************************)
EXTENDS Integers, Sequences, FiniteSets

CONSTANTS Chunks,            \* chunks of the input
          TILES_PER_CHUNK,
          ExtraStates,       \* tile states beyond two chunks' (32)
          Resident,          \* blocks that fit on the device at a time
          Addresses          \* device buffers

ASSUME PipelineAssumption ==
  /\ Chunks \in Nat /\ TILES_PER_CHUNK \in Nat \ {0} /\ ExtraStates \in Nat \ {0}
  /\ Resident \in Nat \ {0}

num_tile_states == 2 * TILES_PER_CHUNK + ExtraStates
num_tickets == 2

Streams == {"main", "s0", "s1"}
None == -1

VARIABLES
  hpc,              \* the host thread
  next,             \* number of the chunk to be read next
  tail,             \* tiles of the last chunk
  read_stream, scan_stream,
  base_tile_idx,
  chunk,            \* the chunk in hand: its number and its buffer
  next_chunk,       \* ... and the one that was read ahead
  tickets,          \* host buffers: the chunk each holds
  ticket_event, last_launch_event, thread_event,  \* latest record of each event
  records,          \* records made so far
  complete,         \* records that have been reached
  queue,            \* operations of each stream
  memory,           \* the chunk in each device buffer
  owner,            \* the stream a device buffer was last freed on
  tile_status, tile_partial, tile_inclusive,
  block,            \* the blocks, one per tile
  launched,         \* tiles of the kernel that runs
  offsets_read,     \* what the host has read of the scan, by chunk
  char_storage,     \* the chunks whose characters were copied
  output            \* the result of the gather

hostVars == <<hpc, next, tail, read_stream, scan_stream, base_tile_idx, chunk, next_chunk,
              tickets, ticket_event, last_launch_event, thread_event, records, owner,
              offsets_read>>
scanVars == <<tile_status, tile_partial, tile_inclusive, block, launched>>
vars == <<hostVars, scanVars, complete, queue, memory, char_storage, output>>

NoChunk == [number |-> None, buffer |-> None, stream |-> "main"]

(* The tiles of a chunk; every chunk but the last is full.                 *)
TilesOf(number) == IF number = Chunks - 1 THEN tail ELSE TILES_PER_CHUNK

AllTiles == 0 .. Chunks * TILES_PER_CHUNK - 1

(* scan_tile_state_view: a tile's place in the ring.                       *)
Slot(tile) == (tile + num_tile_states) % num_tile_states

Init ==
  /\ hpc = "setup" /\ next = 0 /\ tail \in 1 .. TILES_PER_CHUNK
  /\ read_stream = "s0" /\ scan_stream = "s1" /\ base_tile_idx = 0
  /\ chunk = NoChunk /\ next_chunk = NoChunk
  /\ tickets = [i \in 0 .. num_tickets - 1 |-> None]
  /\ ticket_event = [i \in 0 .. num_tickets - 1 |-> 0]
  /\ last_launch_event = 0 /\ thread_event = 0
  /\ records = 0 /\ complete = {0}
  /\ queue = [s \in Streams |-> <<>>]
  /\ memory = [a \in Addresses |-> None] /\ owner = [a \in Addresses |-> "nobody"]
  /\ tile_status = [i \in 0 .. num_tile_states - 1 |-> "invalid"]
  /\ tile_partial = [i \in 0 .. num_tile_states - 1 |-> <<>>]
  /\ tile_inclusive = [i \in 0 .. num_tile_states - 1 |-> <<>>]
  /\ block = [t \in AllTiles |->
                [pc |-> "idle", aggregate |-> <<>>, window |-> <<>>,
                 predecessor |-> None, status |-> "invalid"]]
  /\ launched = {}
  /\ offsets_read = <<>> /\ char_storage = <<>> /\ output = <<>>

-----------------------------------------------------------------------------
(* Operations of a stream.                                                 *)
Record(event) == [op |-> "record", event |-> event]
Wait(event) == [op |-> "wait", event |-> event]
Oob(tiles) == [op |-> "init", tiles |-> tiles, status |-> "oob"]
Reset(tiles) == [op |-> "init", tiles |-> tiles, status |-> "invalid"]
Seed == [op |-> "seed"]
Upload(ticket, buffer) == [op |-> "upload", ticket |-> ticket, buffer |-> buffer]
Scan(tiles, c) == [op |-> "scan", tiles |-> tiles, buffer |-> c.buffer, number |-> c.number]
CopyChars(c) == [op |-> "chars", buffer |-> c.buffer]
GatherOp == [op |-> "gather"]

(* fork_streams: the forked streams begin after what is on the caller's.   *)
Forked(q, event) ==
  [q EXCEPT !["main"] = Append(@, Record(event)),
            !["s0"] = Append(@, Wait(event)), !["s1"] = Append(@, Wait(event))]

(* Mutant: the wait is asked for before the event is recorded.             *)
JoinedEarly(q, e) ==
  [q EXCEPT !["s0"] = Append(@, Record(e + 1)), !["s1"] = Append(@, Record(e + 2)),
            !["main"] = @ \o <<Wait(thread_event), Wait(e + 1)>>]

(* join_streams: one event, recorded on each stream in turn; the caller's  *)
(* stream waits for each record.                                           *)
Joined(q, e) ==
  [q EXCEPT !["s0"] = Append(@, Record(e + 1)), !["s1"] = Append(@, Record(e + 2)),
            !["main"] = @ \o <<Wait(e + 1), Wait(e + 2)>>]

-----------------------------------------------------------------------------
(* The host thread, between the calls at which it waits for the device.    *)

(* The tile states are set up on the caller's stream and two streams are   *)
(* forked.                                                                 *)
Setup ==
  /\ hpc = "setup"
  /\ thread_event' = records + 1 /\ records' = records + 1
  /\ queue' = Forked([queue EXCEPT !["main"] =
                        @ \o <<Oob((0 - TILES_PER_CHUNK) .. -1), Seed>>], records + 1)
  /\ hpc' = "first"
  /\ UNCHANGED <<next, tail, read_stream, scan_stream, base_tile_idx, chunk, next_chunk,
                 tickets, ticket_event, last_launch_event, owner, offsets_read, scanVars,
                 complete, memory, char_storage, output>>

(* get_next_chunk: waits until the ticket's last upload is done, fills it, *)
(* takes device memory and uploads.  At the end of the input nothing is    *)
(* copied.                                                                 *)
GetNextChunk(stream) ==
  LET ticket == next % num_tickets IN
  /\ ticket_event[ticket] \in complete
  /\ next' = next + 1
  /\ IF next < Chunks
     THEN \E a \in Addresses :
            /\ owner[a] \in {"nobody", stream}
            /\ owner' = [owner EXCEPT ![a] = "live"]
            /\ tickets' = [tickets EXCEPT ![ticket] = next]
            /\ next_chunk' = [number |-> next, buffer |-> a, stream |-> stream]
            /\ queue' = [queue EXCEPT ![stream] =
                           @ \o <<Upload(ticket, a), Record(records + 1)>>]
     ELSE /\ next_chunk' = NoChunk
          /\ queue' = [queue EXCEPT ![stream] = Append(@, Record(records + 1))]
          /\ UNCHANGED <<owner, tickets>>
  /\ ticket_event' = [ticket_event EXCEPT ![ticket] = records + 1]
  /\ records' = records + 1
  /\ UNCHANGED <<tail, last_launch_event, thread_event, offsets_read, base_tile_idx,
                 scanVars, complete, memory, char_storage, output>>

(* The first chunk, read before the loop.                                  *)
ReadFirst ==
  /\ hpc = "first"
  /\ GetNextChunk(read_stream)
  /\ chunk' = next_chunk'
  /\ read_stream' = scan_stream /\ scan_stream' = read_stream
  /\ hpc' = "loop"

(* The tile states of the chunk are reset, and the scan is launched behind *)
(* the last launch.                                                        *)
Launch ==
  /\ hpc = "loop" /\ chunk # NoChunk
  /\ LET tiles == base_tile_idx .. base_tile_idx + TilesOf(chunk.number) - 1 IN
     queue' = [queue EXCEPT ![scan_stream] =
                 @ \o <<Reset(tiles), Wait(last_launch_event), Scan(tiles, chunk)>>]
  /\ hpc' = "read"
  /\ UNCHANGED <<next, tail, read_stream, scan_stream, base_tile_idx, chunk, next_chunk,
                 tickets, ticket_event, last_launch_event, thread_event, records, owner,
                 offsets_read, scanVars, complete, memory, char_storage, output>>

ReadAhead ==
  /\ hpc = "read"
  /\ GetNextChunk(read_stream)
  /\ hpc' = "sync"
  /\ UNCHANGED <<chunk, read_stream, scan_stream>>

(* Mutant: the prefix is read without waiting for the scan.                *)
AdvanceUnsynced ==
  /\ hpc = "sync"
  /\ offsets_read' =
       Append(offsets_read,
              tile_inclusive[Slot(base_tile_idx + TilesOf(chunk.number) - 1)])
  /\ queue' = [queue EXCEPT ![scan_stream] = @ \o <<CopyChars(chunk), Record(records + 1)>>]
  /\ last_launch_event' = records + 1 /\ records' = records + 1
  /\ read_stream' = scan_stream /\ scan_stream' = read_stream
  /\ base_tile_idx' = base_tile_idx + TilesOf(chunk.number)
  /\ owner' = [owner EXCEPT ![chunk.buffer] = chunk.stream]
  /\ chunk' = next_chunk /\ next_chunk' = NoChunk
  /\ hpc' = "loop"
  /\ UNCHANGED <<next, tail, tickets, ticket_event, thread_event, scanVars, complete,
                 memory, char_storage, output>>

(* get_inclusive_prefix waits for the scan stream; then the characters are *)
(* copied, the launch is recorded, the streams change roles and the old    *)
(* chunk is freed on the stream it was made on.                            *)
Advance ==
  /\ hpc = "sync" /\ queue[scan_stream] = <<>>
  /\ offsets_read' =
       Append(offsets_read,
              tile_inclusive[Slot(base_tile_idx + TilesOf(chunk.number) - 1)])
  /\ queue' = [queue EXCEPT ![scan_stream] = @ \o <<CopyChars(chunk), Record(records + 1)>>]
  /\ last_launch_event' = records + 1 /\ records' = records + 1
  /\ read_stream' = scan_stream /\ scan_stream' = read_stream
  /\ base_tile_idx' = base_tile_idx + TilesOf(chunk.number)
  /\ owner' = [owner EXCEPT ![chunk.buffer] = chunk.stream]
  /\ chunk' = next_chunk /\ next_chunk' = NoChunk
  /\ hpc' = "loop"
  /\ UNCHANGED <<next, tail, tickets, ticket_event, thread_event, scanVars, complete,
                 memory, char_storage, output>>

(* After the last chunk, or after one in which the last delimiter was      *)
(* found, the streams are joined and the output is gathered.               *)
EndLoop ==
  /\ hpc = "loop"
  /\ chunk = NoChunk \/ offsets_read # <<>>
  /\ queue' = LET q == Joined(queue, records)
              IN [q EXCEPT !["main"] = Append(@, GatherOp)]
  /\ thread_event' = records + 2 /\ records' = records + 2
  /\ hpc' = "gather"
  /\ UNCHANGED <<next, tail, read_stream, scan_stream, base_tile_idx, chunk, next_chunk,
                 tickets, ticket_event, last_launch_event, owner, offsets_read, scanVars,
                 complete, memory, char_storage, output>>

Return ==
  /\ hpc = "gather" /\ queue["main"] = <<>>
  /\ hpc' = "done"
  /\ UNCHANGED <<next, tail, read_stream, scan_stream, base_tile_idx, chunk, next_chunk,
                 tickets, ticket_event, last_launch_event, thread_event, records, owner,
                 offsets_read, scanVars, complete, queue, memory, char_storage, output>>

Host == Setup \/ ReadFirst \/ Launch \/ ReadAhead \/ Advance \/ EndLoop \/ Return

-----------------------------------------------------------------------------
(* The device: the operation at the head of a stream.                      *)

Heads(s, op) == queue[s] # <<>> /\ Head(queue[s]).op = op
Pop(s) == queue' = [queue EXCEPT ![s] = Tail(@)]

RunEvent(s) ==
  /\ \/ Heads(s, "record") /\ complete' = complete \cup {Head(queue[s]).event}
     \/ /\ Heads(s, "wait") /\ Head(queue[s]).event \in complete
        /\ UNCHANGED complete
  /\ Pop(s)
  /\ UNCHANGED <<hostVars, scanVars, memory, char_storage, output>>

(* Mutant: the reset begins one tile early.                                *)
RunInitEarly(s) ==
  /\ Heads(s, "init")
  /\ LET o == Head(queue[s])
         slots == {Slot(t - 1) : t \in o.tiles} \cup {Slot(t) : t \in o.tiles} IN
     tile_status' = [i \in DOMAIN tile_status |->
                       IF i \in slots THEN o.status ELSE tile_status[i]]
  /\ Pop(s)
  /\ UNCHANGED <<hostVars, tile_partial, tile_inclusive, block, launched, complete, memory,
                 char_storage, output>>

(* multibyte_split_init_kernel.                                            *)
RunInit(s) ==
  /\ Heads(s, "init")
  /\ LET o == Head(queue[s])
         slots == {Slot(t) : t \in o.tiles} IN
     tile_status' = [i \in DOMAIN tile_status |->
                       IF i \in slots THEN o.status ELSE tile_status[i]]
  /\ Pop(s)
  /\ UNCHANGED <<hostVars, tile_partial, tile_inclusive, block, launched, complete, memory,
                 char_storage, output>>

(* The identity as the inclusive prefix of the tile before the first.      *)
RunSeed(s) ==
  /\ Heads(s, "seed")
  /\ tile_inclusive' = [tile_inclusive EXCEPT ![Slot(-1)] = <<>>]
  /\ tile_status' = [tile_status EXCEPT ![Slot(-1)] = "inclusive"]
  /\ Pop(s)
  /\ UNCHANGED <<hostVars, tile_partial, block, launched, complete, memory, char_storage,
                 output>>

RunUpload(s) ==
  /\ Heads(s, "upload")
  /\ memory' = [memory EXCEPT ![Head(queue[s]).buffer] = tickets[Head(queue[s]).ticket]]
  /\ Pop(s)
  /\ UNCHANGED <<hostVars, scanVars, complete, char_storage, output>>

RunChars(s) ==
  /\ Heads(s, "chars")
  /\ char_storage' = Append(char_storage, memory[Head(queue[s]).buffer])
  /\ Pop(s)
  /\ UNCHANGED <<hostVars, scanVars, complete, memory, output>>

RunGather(s) ==
  /\ Heads(s, "gather")
  /\ output' = char_storage
  /\ Pop(s)
  /\ UNCHANGED <<hostVars, scanVars, complete, memory, char_storage>>

(* A scan occupies its stream until all its blocks have ended.             *)
RunScan(s) ==
  /\ Heads(s, "scan") /\ launched = {}
  /\ launched' = Head(queue[s]).tiles
  /\ UNCHANGED <<hostVars, tile_status, tile_partial, tile_inclusive, block, complete, queue,
                 memory, char_storage, output>>

EndScan(s) ==
  /\ Heads(s, "scan") /\ launched = Head(queue[s]).tiles
  /\ \A t \in launched : block[t].pc = "done"
  /\ launched' = {}
  /\ Pop(s)
  /\ UNCHANGED <<hostVars, tile_status, tile_partial, tile_inclusive, block, complete, memory,
                 char_storage, output>>

-----------------------------------------------------------------------------
(* The blocks of the scan.  Blocks are dispatched in the order of          *)
(* blockIdx.x, as many at a time as the device has room for.               *)

Running == {t \in launched : block[t].pc \notin {"idle", "done"}}

(* The data the kernel reads is the chunk's: a tile's aggregate stands for *)
(* the tile if its chunk's data is in the buffer.                          *)
Aggregate(t) ==
  LET s == CHOOSE r \in Streams : Heads(r, "scan") /\ Head(queue[r]).tiles = launched
      o == Head(queue[s])
  IN IF memory[o.buffer] = o.number THEN <<t>> ELSE <<None>>

Goto(t, r) == block' = [block EXCEPT ![t] = r]

Dispatch(t) ==
  /\ t \in launched /\ block[t].pc = "idle"
  /\ \A r \in launched : r < t => block[r].pc # "idle"
  /\ Cardinality(Running) < Resident
  /\ Goto(t, [block[t] EXCEPT !.pc = "partial", !.aggregate = Aggregate(t)])
  /\ UNCHANGED <<hostVars, tile_status, tile_partial, tile_inclusive, launched, complete,
                 queue, memory, char_storage, output>>

(* set_partial_prefix: the value, then the status.                         *)
SetPartial(t) ==
  /\ block[t].pc = "partial"
  /\ tile_partial' = [tile_partial EXCEPT ![Slot(t)] = block[t].aggregate]
  /\ Goto(t, [block[t] EXCEPT !.pc = "partial_status"])
  /\ UNCHANGED <<hostVars, tile_status, tile_inclusive, launched, complete, queue, memory,
                 char_storage, output>>

SetPartialStatus(t) ==
  /\ block[t].pc = "partial_status"
  /\ tile_status' = [tile_status EXCEPT ![Slot(t)] = "partial"]
  /\ Goto(t, [block[t] EXCEPT !.pc = "look", !.predecessor = t - 1])
  /\ UNCHANGED <<hostVars, tile_partial, tile_inclusive, launched, complete, queue, memory,
                 char_storage, output>>

(* get_prefix: spins while the predecessor's status is invalid ...         *)
LoadStatus(t) ==
  /\ block[t].pc = "look"
  /\ tile_status[Slot(block[t].predecessor)] # "invalid"
  /\ Goto(t, [block[t] EXCEPT !.pc = "value",
                              !.status = tile_status[Slot(block[t].predecessor)]])
  /\ UNCHANGED <<hostVars, tile_status, tile_partial, tile_inclusive, launched, complete,
                 queue, memory, char_storage, output>>

(* Mutant: the value follows the status of the moment.                     *)
LoadValueTwice(t) ==
  LET i == Slot(block[t].predecessor)
      prefix == IF tile_status[i] = "partial" THEN tile_partial[i] ELSE tile_inclusive[i]
  IN
  /\ block[t].pc = "value"
  /\ Goto(t, [block[t] EXCEPT
                !.window = prefix \o @,
                !.pc = IF block[t].status = "inclusive" THEN "inclusive" ELSE "look",
                !.predecessor = @ - 1])
  /\ UNCHANGED <<hostVars, tile_status, tile_partial, tile_inclusive, launched, complete,
                 queue, memory, char_storage, output>>

(* ... then loads the value that belongs to the status it saw, and looks   *)
(* further back unless it was an inclusive prefix.                         *)
LoadValue(t) ==
  LET i == Slot(block[t].predecessor)
      prefix == IF block[t].status = "partial" THEN tile_partial[i] ELSE tile_inclusive[i]
  IN
  /\ block[t].pc = "value"
  /\ Goto(t, [block[t] EXCEPT
                !.window = prefix \o @,
                !.pc = IF block[t].status = "inclusive" THEN "inclusive" ELSE "look",
                !.predecessor = @ - 1])
  /\ UNCHANGED <<hostVars, tile_status, tile_partial, tile_inclusive, launched, complete,
                 queue, memory, char_storage, output>>

(* set_inclusive_prefix: the value, then the status.                       *)
SetInclusive(t) ==
  /\ block[t].pc = "inclusive"
  /\ tile_inclusive' = [tile_inclusive EXCEPT ![Slot(t)] = block[t].window \o block[t].aggregate]
  /\ Goto(t, [block[t] EXCEPT !.pc = "inclusive_status"])
  /\ UNCHANGED <<hostVars, tile_status, tile_partial, launched, complete, queue, memory,
                 char_storage, output>>

SetInclusiveStatus(t) ==
  /\ block[t].pc = "inclusive_status"
  /\ tile_status' = [tile_status EXCEPT ![Slot(t)] = "inclusive"]
  /\ Goto(t, [block[t] EXCEPT !.pc = "done"])
  /\ UNCHANGED <<hostVars, tile_partial, tile_inclusive, launched, complete, queue, memory,
                 char_storage, output>>

Block(t) == \/ Dispatch(t) \/ SetPartial(t) \/ SetPartialStatus(t) \/ LoadStatus(t)
            \/ LoadValue(t) \/ SetInclusive(t) \/ SetInclusiveStatus(t)

Stream(s) == \/ RunEvent(s) \/ RunInit(s) \/ RunSeed(s) \/ RunUpload(s) \/ RunChars(s)
             \/ RunGather(s) \/ RunScan(s) \/ EndScan(s)

(* A block whose predecessor has published nothing loads the status again. *)
Spin(t) ==
  /\ block[t].pc = "look" /\ tile_status[Slot(block[t].predecessor)] = "invalid"
  /\ UNCHANGED vars

Finished == hpc = "done" /\ UNCHANGED vars

Next == \/ Host
        \/ \E s \in Streams : Stream(s)
        \/ \E t \in AllTiles : Block(t) \/ Spin(t)
        \/ Finished

(* The device makes progress on every stream and on every block that is    *)
(* resident.                                                               *)
Spec == /\ Init /\ [][Next]_vars
        /\ WF_vars(Host)
        /\ \A s \in Streams : WF_vars(Stream(s))
        /\ \A t \in AllTiles : WF_vars(Block(t))

-----------------------------------------------------------------------------
Upto(n) == [i \in 1 .. n |-> i - 1]

(* A block that has looked back knows the sum of exactly the tiles before  *)
(* it, in order, whatever its predecessors were doing while it looked and  *)
(* however often the ring of states was used.                              *)
PrefixExact ==
  \A t \in AllTiles : block[t].pc \in {"inclusive", "inclusive_status", "done"}
                        => block[t].window = Upto(t)

(* The host reads the number of offsets only when the chunk's last tile is *)
(* counted in it.                                                          *)
OffsetsExact ==
  \A i \in DOMAIN offsets_read :
    offsets_read[i] = Upto((i - 1) * TILES_PER_CHUNK + TilesOf(i - 1))

(* The gathered output holds the characters of every chunk the loop went   *)
(* through, in order: no chunk's buffer, host or device, was given to a    *)
(* later chunk too early, and the gather waits for both streams.           *)
OutputExact == hpc = "done" => output = Upto(Len(offsets_read))

(* A block that spins waits for a block that is resident and does not wait *)
(* itself: blocks that look back never wait for one another, nor for one   *)
(* that the device has no room for as long as they spin.                   *)
SpinsOnResident ==
  \A t \in AllTiles :
    LET p == block[t].predecessor IN
    block[t].pc = "look" /\ tile_status[Slot(p)] = "invalid"
      => p \in Running /\ block[p].pc \in {"partial", "partial_status"}

(* No block, stream or host thread waits for ever.                         *)
Finishes == <>(hpc = "done")
=============================================================================
