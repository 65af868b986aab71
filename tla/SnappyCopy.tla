----------------------------- MODULE SnappyCopy -----------------------------
(***************************************************************************)
(* What the lanes of the copying warp write, cpp/src/io/comp/unsnap.cu:    *)
(* Unsnap together with the output buffer.  The lanes hold a batch in      *)
(* their registers, a symbol each.  First they combine small symbols, as   *)
(* many as they can store at once; then they take two at a time or one.    *)
(* A lane beyond the masks' width shifts by the low bits of its number, as *)
(* the hardware does.                                                      *)
(*                                                                         *)
(* A byte of the output is the position in the stream of the literal byte  *)
(* it is; 0 stands for a byte that was never written.  In a register the   *)
(* distance of a literal is the negative position of its text.             *)
(***************************************************************************)
EXTENDS Unsnap, FiniteSetsExt, SequencesExt

CONSTANTS Half,   \* the lanes the masks, sums and shuffles are made for (32)
          Lanes,  \* warp_size
          Near,   \* copies from no farther are not combined (8)
          Few     \* rounds that combine fewer symbols are the last (4)

ASSUME LanesAssumption == /\ Half \in {2, 4, 8, 16, 32} /\ Lanes \in {Half, 2 * Half}
                          /\ BatchSize = Lanes /\ Near \in Nat /\ Few \in Nat \ {0}

VARIABLES dst,  \* the output buffer, as far as it was written
          out   \* copier: where the output goes on

Lane == 0 .. Lanes - 1
Shuffle(f, lane) == f[lane % Lanes]
At(c, p) == IF p \in DOMAIN c.dst THEN c.dst[p] ELSE 0

(* Distances are compared as unsigned numbers: a literal's is a large one. *)
FarFrom(dist, n) == dist < 0 \/ dist >= n

(* Lanes store what they have loaded before, each at its place behind the  *)
(* end of the output.                                                      *)
Store(c, bytes) ==
  [p \in DOMAIN c.dst \cup {c.out + t : t \in DOMAIN bytes} |->
     IF p - c.out \in DOMAIN bytes THEN bytes[p - c.out] ELSE c.dst[p]]

-----------------------------------------------------------------------------
(* Combining.                                                              *)

(* WarpReducePos32: the sum of the lanes up to each one.                   *)
RECURSIVE PosFrom(_, _)
PosFrom(f, k) ==
  IF k = Half THEN f
  ELSE PosFrom([t \in Lane |->
                  f[t] + IF (t \div k) % 2 = 0 THEN 0
                         ELSE f[((t % Half) \div (2 * k)) * 2 * k + k - 1]], 2 * k)

(* A symbol that ends before Half is a bit of start_mask, where the next   *)
(* one starts.                                                             *)
Bits(mask) == {i \in 0 .. Half - 1 : (mask \div 2 ^ i) % 2 = 1}
Starts(c, bofs) ==
  Bits(MapThenSumSet(LAMBDA t : 2 ^ bofs[t], {t \in Lane : t < c.left /\ bofs[t] < Half}))
(* Mutant: a copy may read what it writes itself.                          *)
StopsBefore(c, bofs) == {t \in Lane : t < Half /\ ~FarFrom(c.dist[t], bofs[t] - c.len[t])}

(* A copy that reads what the round writes stops it.                       *)
Stops(c, bofs) == {t \in Lane : t < Half /\ ~FarFrom(c.dist[t], bofs[t])}

(* One round: it[t] is the symbol lane t stores a byte of.                 *)
Round(c) ==
  LET bofs == PosFrom(c.len, 1)
      starts == Starts(c, bofs)
      n == Min({Cardinality(starts), c.left} \cup Stops(c, bofs))
      it == [t \in Lane |-> Cardinality({i \in starts : i <= t % Half})]
      byte(t) == LET dist == Shuffle(c.dist, it[t])
                     tr == t - (Shuffle(bofs, it[t]) - Shuffle(c.len, it[t]))
                 IN IF dist > 0 THEN At(c, c.out + t - dist) ELSE tr - dist
  IN IF n = 0 THEN [c EXCEPT !.n = 0]
     ELSE [dst |-> Store(c, [t \in {u \in Lane : it[u] < n} |-> byte(t)]),
           out |-> c.out + bofs[n - 1],
           len |-> [t \in Lane |-> c.len[(n + t) % Half]],
           dist |-> [t \in Lane |-> c.dist[(n + t) % Half]],
           left |-> c.left - n, n |-> n]

RECURSIVE Rounds(_)
Rounds(c) == LET d == Round(c) IN IF d.n >= Few THEN Rounds(d) ELSE d

Combined(c) == IF FarFrom(c.dist[0], Near + 1) /\ FarFrom(c.dist[1], Near + 1) THEN Rounds(c)
               ELSE c

-----------------------------------------------------------------------------
(* One or two symbols at a time.                                           *)

(* Two that fit in Half bytes and do not read what they write.             *)
Paired(c, i) ==
  /\ i + 1 < c.left /\ c.len[i] + c.len[i + 1] <= Half
  /\ FarFrom(c.dist[i], c.len[i]) /\ FarFrom(c.dist[i + 1], c.len[i] + c.len[i + 1])

Pair(c, i) ==
  LET both == c.len[i] + c.len[i + 1]
      byte(t) == LET d == IF t < c.len[i] THEN c.dist[i] ELSE c.dist[i + 1]
                     from == IF t < c.len[i] THEN 0 ELSE c.len[i]
                 IN IF d > 0 THEN At(c, c.out + t - d) ELSE t - from - d
  IN [c EXCEPT !.dst = Store(c, [t \in 0 .. both - 1 |-> byte(t)]), !.out = @ + both]

(* A copy repeats its source when it is longer than its distance.          *)
CopyOne(c, i) ==
  LET byte(p) == At(c, c.out + (p % c.dist[i]) - c.dist[i])
  IN [c EXCEPT !.dst = Store(c, [p \in 0 .. c.len[i] - 1 |-> byte(p)]), !.out = @ + c.len[i]]

(* Blocks of 2 * Half bytes, of which each lane takes two, Half apart; a   *)
(* last, shorter one.                                                      *)
LiteralOne(c, i) ==
  LET blocks == c.len[i] \div (2 * Half)
      past == IF blocks = 0 THEN 0 ELSE (2 * blocks - 1) * Half + Lanes
  IN [c EXCEPT !.dst = Store(c, [p \in 0 .. Max({c.len[i], past}) - 1 |-> p - c.dist[i]]),
               !.out = @ + c.len[i]]

RECURSIVE OneByOne(_, _)
OneByOne(c, i) ==
  IF i >= c.left THEN c
  ELSE IF Paired(c, i) THEN OneByOne(Pair(c, i), i + 2)
  ELSE OneByOne(IF c.dist[i] > 0 THEN CopyOne(c, i) ELSE LiteralOne(c, i), i + 1)

-----------------------------------------------------------------------------
(* Each lane reads its symbol of the batch into registers.  A literal is   *)
(* the end of the symbol's bytes in the stream.                            *)
RECURSIVE InStream(_)
InStream(s) == IF s = <<>> THEN 0 ELSE InStream(Front(s)) + Last(s).size + Last(s).text

Distance(s) == IF Last(s).dist > 0 THEN Last(s).dist ELSE Last(s).len - InStream(s)

Registers ==
  LET symbol(t) == batch[cbatch][t + 1]
      upTo(t) == taken \o SubSeq(batch[cbatch], 1, t + 1)
  IN [dst |-> dst, out |-> out, left |-> clen, n |-> 0,
      len |-> [t \in Lane |-> IF t < clen THEN symbol(t).len ELSE 0],
      dist |-> [t \in Lane |-> IF t < clen THEN Distance(upTo(t)) ELSE 0]]

Write ==
  LET c == OneByOne(Combined(Registers), 0)
  IN /\ CopyBatch
     /\ dst' = c.dst /\ out' = c.out

CopyInit == Init /\ dst = [p \in {} |-> 0] /\ out = 0

CopyNext == \/ Write
            \/ /\ Result \/ Prefetch \/ Decode \/ CopyEnter \/ CopyTake \/ CopyRelease \/ Spin
               /\ UNCHANGED <<dst, out>>

CopySpec == /\ CopyInit /\ [][CopyNext]_<<vars, dst, out>>
            /\ WF_vars(Prefetch) /\ WF_vars(Decode) /\ WF_vars(Copy) /\ WF_vars(Result)

-----------------------------------------------------------------------------
(* The output of the symbols s, one after the other and byte by byte.      *)
RECURSIVE Output(_)
Output(s) ==
  IF s = <<>> THEN <<>>
  ELSE LET before == Output(Front(s))
           n == Len(before)
           x == Last(s)
           byte[i \in 1 .. n + x.len] ==
             IF i <= n THEN before[i]
             ELSE IF x.dist = 0 THEN InStream(s) - x.len + i - n - 1
             ELSE IF i > x.dist THEN byte[i - x.dist] ELSE 0
       IN byte

(* The comment of snappy_process_symbols: "process LZ77 symbols and output *)
(* uncompressed stream".  Whatever is combined, stored at once or taken    *)
(* alone, the output is what the symbols say.                              *)
CopierExact ==
  cpc = "release" => /\ out = Stream!Total(taken)
                     /\ \A p \in 0 .. out - 1 : dst[p] = Output(taken)[p + 1]
=============================================================================
