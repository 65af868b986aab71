-------------------------- MODULE MCMultibyteSplit --------------------------
EXTENDS MultibyteSplit

CONSTANTS a, b, Lengths, MaxText, MaxDelim, MaxRange

Texts == UNION {[1 .. n -> {a, b}] : n \in Lengths}

(* The other half of the delimiters is the same with a and b exchanged;    *)
(* one is too long.                                                        *)
Delims == {d \in UNION {[1 .. n -> {a, b}] : n \in 1 .. MaxDelim} : d[1] = a}
          \cup {<<a, b, b, a>>}

(* Ranges inside the text and past its end, empty ones, and one that is    *)
(* larger than the text.                                                   *)
MCCases == [text : Texts, delim : Delims, offset : 0 .. MaxText + 1, size : 0 .. MaxRange]
           \cup [text : Texts, delim : Delims, offset : {0, 1}, size : {MaxText + 2}]
=============================================================================
