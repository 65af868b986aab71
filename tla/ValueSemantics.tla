--------------------------- MODULE ValueSemantics ---------------------------
(***************************************************************************)
(* What copy-on-write promises to the users of buffers ("from the users    *)
(* perspective, always a deep copy of the underlying data"): every buffer  *)
(* is a value of its own.  Only the buffers whose memory was handed to a   *)
(* third party, and views taken of those, may change behind cudf's back.   *)
(***************************************************************************)
EXTENDS Naturals, Sequences

CONSTANTS Slices, Values, MaxLen, Absent

VARIABLES
  val,   \* the contents of every buffer
  open   \* the buffers a third party may write to

Contents == UNION {[1..n -> Values] : n \in 1..MaxLen}

Exists(s) == val[s] # Absent

Init == val = [s \in Slices |-> Absent] /\ open = {}

\* A new buffer; x: it wraps memory of a third party.
Create(s, v, x) ==
  /\ ~Exists(s)
  /\ val' = [val EXCEPT ![s] = v]
  /\ open' = IF x THEN open \cup {s} ELSE open

\* A copy, deep or shallow, has the same contents and is private.
Copy(s, d) ==
  /\ Exists(s) /\ ~Exists(d)
  /\ val' = [val EXCEPT ![d] = val[s]]
  /\ UNCHANGED open

\* A view of a part of a buffer is a value too, but as open as the buffer.
View(s, d, i, j) ==
  /\ Exists(s) /\ ~Exists(d)
  /\ 1 <= i /\ i <= j /\ j <= Len(val[s])
  /\ val' = [val EXCEPT ![d] = SubSeq(val[s], i, j)]
  /\ open' = IF s \in open THEN open \cup {d} ELSE open

\* A write through one buffer changes that buffer only.
Write(s, i, v) ==
  /\ Exists(s) /\ i \in 1..Len(val[s])
  /\ val' = [val EXCEPT ![s][i] = v]
  /\ open' \in {open, open \ {s}}

\* A third party gets the pointer of a buffer ...
Expose(s) ==
  /\ Exists(s)
  /\ open' = open \cup {s}
  /\ UNCHANGED val

\* ... writes through it ...
ThirdPartyWrite ==
  /\ val' \in [Slices -> Contents \cup {Absent}]
  /\ \A s \in Slices : s \notin open \/ ~Exists(s) => val'[s] = val[s]
  /\ \A s \in Slices : Exists(s) => val'[s] # Absent /\ Len(val'[s]) = Len(val[s])
  /\ UNCHANGED open

\* ... and drops it.
ThirdPartyDrop == open' \subseteq open /\ UNCHANGED val

Delete(s) ==
  /\ Exists(s)
  /\ val' = [val EXCEPT ![s] = Absent]
  /\ open' = open \ {s}

Next ==
  \/ \E s \in Slices :
       \/ \E v \in Contents, x \in BOOLEAN : Create(s, v, x)
       \/ \E d \in Slices : Copy(s, d) \/ \E i, j \in 1..MaxLen : View(s, d, i, j)
       \/ \E i \in 1..MaxLen, v \in Values : Write(s, i, v)
       \/ Expose(s) \/ Delete(s)
  \/ ThirdPartyWrite \/ ThirdPartyDrop

Spec == Init /\ [][Next]_<<val, open>>
=============================================================================
