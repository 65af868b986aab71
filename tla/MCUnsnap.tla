------------------------------ MODULE MCUnsnap ------------------------------
EXTENDS SnappyCopy

CONSTANTS MaxSymbols, Long

(* A short literal, a copy that repeats its source, one that reaches       *)
(* farther back, a long literal.                                           *)
L1 == [size |-> 2, read |-> 1, text |-> 0, len |-> 1, dist |-> 0]
C3 == [size |-> 2, read |-> 2, text |-> 0, len |-> 3, dist |-> 1]
F1 == [size |-> 1, read |-> 1, text |-> 0, len |-> 1, dist |-> 2]
T9 == [size |-> 1, read |-> 1, text |-> 9, len |-> 9, dist |-> 0]

MCSymbols == {L1, C3, F1, T9}

(* All streams of up to a batch, and longer ones that go round the ring    *)
(* and the batches.                                                        *)
ShortStreams == UNION {[1 .. n -> MCSymbols] : n \in 0 .. MaxSymbols}
LongStreams == {[i \in 1 .. Long |-> IF i <= 3 THEN L1 ELSE x[(i % 3) + 1]] :
                  x \in [1 .. 3 -> {L1, F1, T9}]}

Bytes(s) == LET upTo[i \in 0 .. Len(s)] ==
                  IF i = 0 THEN 0 ELSE upTo[i - 1] + s[i].size + s[i].text
            IN upTo[Len(s)]
Size(s) == Stream!Total(s)

(* Declared sizes that are exact and, unless the stream is one full batch, *)
(* one short and one too long; an output buffer that is too small; the two *)
(* bad headers.                                                            *)
Sizes(s) == {Size(s)} \cup IF Len(s) = BatchSize THEN {}
                          ELSE {Size(s) - 1, Size(s) + 1} \cap Nat
MCInputs ==
  UNION {{[stream |-> s, end |-> Bytes(s), usize |-> u, dst |-> u, header |-> "ok"] :
            u \in Sizes(s)} : s \in ShortStreams \cup LongStreams}
  \cup {[stream |-> <<L1>>, end |-> 2, usize |-> 1, dst |-> 0, header |-> "ok"],
        [stream |-> <<>>, end |-> 0, usize |-> 1, dst |-> 1, header |-> "empty"],
        [stream |-> <<L1>>, end |-> 2, usize |-> 1, dst |-> 1, header |-> "overlong"]}
=============================================================================
