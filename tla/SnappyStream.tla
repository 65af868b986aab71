---------------------------- MODULE SnappyStream ----------------------------
(***************************************************************************)
(* What the warps of the Snappy decompressor promise the one that writes   *)
(* the output: it gets the symbols of the stream in the order of the       *)
(* stream, each exactly once, never more than the uncompressed size;       *)
(* decompression succeeds only when it got all of that, and fails only     *)
(* when the stream has no such output.  unsnap.cu implements it with three *)
(* warps; what the last one makes of the symbols is no part of it.         *)
(*                                                                         *)
(* A stream that ends before its uncompressed size is reached promises     *)
(* nothing about the bytes after the end: any symbol may be taken there.   *)
(***************************************************************************)
EXTENDS Integers, Sequences

VARIABLES usable,   \* the header is well formed and the output buffer large enough
          stream,   \* the symbols of the compressed stream
          usize,    \* the uncompressed size its header declares
          taken,    \* the symbols handed over so far
          written,  \* the number of bytes reported
          status    \* "running", "SUCCESS" or "FAILURE"

absVars == <<usable, stream, usize, taken, written, status>>

(* The number of output bytes of a sequence of symbols.                    *)
Total(s) == LET upTo[i \in 0 .. Len(s)] == IF i = 0 THEN 0 ELSE upTo[i - 1] + s[i].len
            IN upTo[Len(s)]

(* A symbol that may follow `done` bytes of output: it fits in what is     *)
(* left, and a copy starts at most its own length before the output.       *)
Acceptable(x, done) == /\ done + x.len <= usize
                       /\ x.dist <= done + x.len

(* The symbols of s are the stream's own, as far as it goes, and each one  *)
(* is acceptable where it stands.                                          *)
Valid(s) == /\ \A i \in DOMAIN s \cap DOMAIN stream : s[i] = stream[i]
            /\ \A i \in DOMAIN s : Acceptable(s[i], Total(SubSeq(s, 1, i - 1)))

(* Some first part of the stream gives the whole output.                   *)
Decodable == \E k \in 0 .. Len(stream) : /\ Total(SubSeq(stream, 1, k)) = usize
                                        /\ Valid(SubSeq(stream, 1, k))

Start == /\ taken = <<>>
         /\ status = "running"
         /\ written = 0

(* A batch of symbols is handed over.                                      *)
Take == /\ usable /\ status = "running"
        /\ Len(taken') > Len(taken)
        /\ SubSeq(taken', 1, Len(taken)) = taken
        /\ Valid(taken')
        /\ UNCHANGED <<usable, stream, usize, written, status>>

(* The end of a stream that is decoded: nothing of its output is missing.  *)
Succeed == /\ usable /\ status = "running" /\ Total(taken) = usize
           /\ written' = usize
           /\ status' = "SUCCESS"
           /\ UNCHANGED <<usable, stream, usize, taken>>

(* Only a stream that cannot be decoded, or whose header is not usable,    *)
(* fails; how many of its symbols were taken is left open.                 *)
Fail == /\ status = "running"
        /\ ~(usable /\ Decodable)
        /\ status' = "FAILURE"
        /\ UNCHANGED <<usable, stream, usize, taken>>

StreamSpec == Start /\ [][Take \/ Succeed \/ Fail]_absVars
=============================================================================
