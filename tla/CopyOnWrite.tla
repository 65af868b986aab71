---------------------------- MODULE CopyOnWrite ----------------------------
(***************************************************************************)
(* Copy-on-write of python/cudf/cudf/core/buffer, option "copy_on_write"   *)
(* on: ExposureTrackedBuffer slices of BufferOwner memory, the `_slices`   *)
(* WeakSet by which a write finds out whether it must copy first, and the  *)
(* exposure flag by which a shallow copy finds out whether it must copy.   *)
(*                                                                         *)
(* Memory is Size cells of Values per owner.  Spilling selects the owner   *)
(* class of as_buffer: only SpillableBufferOwner.get_ptr marks the owner   *)
(* as exposed when a pointer leaves cudf.                                  *)
(***************************************************************************)
EXTENDS Naturals, Sequences, FiniteSets

CONSTANTS
  Slices,    \* ExposureTrackedBuffer objects
  Owners,    \* BufferOwner objects
  Values,    \* contents of a memory cell
  Size,      \* cells of a new owner
  Spilling,  \* is the owner class SpillableBufferOwner
  None       \* no owner: the slice does not exist

ASSUME SizeAssumption == Size \in Nat \ {0}
ASSUME SpillingAssumption == Spilling \in BOOLEAN
ASSUME SlicesAssumption == IsFiniteSet(Slices)
ASSUME NoneAssumption ==
  None \notin Owners \cup Values \cup UNION {[1..n -> Values] : n \in 0..Size}

VARIABLES
  owner,    \* Buffer._owner
  off,      \* Buffer._offset
  len,      \* Buffer._size
  slices,   \* BufferOwner._slices
  exposed,  \* BufferOwner._exposed
  mem,      \* the memory of an owner
  external, \* the owners whose pointer a third party keeps
  open      \* history: the slices that the user has handed to a third party,
            \* or has taken as views of such slices

vars == <<owner, off, len, slices, exposed, mem, external, open>>

Live(s) == owner[s] # None
Users(o) == {s \in Slices : owner[s] = o}
Data(s) == SubSeq(mem[owner[s]], off[s] + 1, off[s] + len[s])

\* An owner that is not in use: nothing refers to its memory.
FreeOwner(o) == Users(o) = {} /\ o \notin external

\* The variables have their types: the owner and range of each slice, _slices
\* and the exposure flag of each owner.
TypeOK ==
  /\ owner \in [Slices -> Owners \cup {None}]
  /\ off \in [Slices -> 0..Size]
  /\ len \in [Slices -> 0..Size]
  /\ slices \in [Owners -> SUBSET Slices]
  /\ exposed \in [Owners -> BOOLEAN]
  /\ mem \in [Owners -> UNION {[1..n -> Values] : n \in 0..Size}]
  /\ external \subseteq Owners /\ open \subseteq Slices
  /\ \A s \in Slices : Live(s) => off[s] + len[s] <= Len(mem[owner[s]])

Init ==
  /\ owner = [s \in Slices |-> None]
  /\ off = [s \in Slices |-> 0]
  /\ len = [s \in Slices |-> 0]
  /\ slices = [o \in Owners |-> {}]
  /\ exposed = [o \in Owners |-> FALSE]
  /\ mem = [o \in Owners |-> <<>>]
  /\ external = {} /\ open = {}

----------------------------------------------------------------------------
\* A new owner o of data m with its first slice s.
NewOwner(s, o, m, x) ==
  /\ owner' = [owner EXCEPT ![s] = o]
  /\ off' = [off EXCEPT ![s] = 0]
  /\ len' = [len EXCEPT ![s] = Len(m)]
  /\ slices' = [slices EXCEPT ![o] = {s}]
  /\ exposed' = [exposed EXCEPT ![o] = x]
  /\ mem' = [mem EXCEPT ![o] = m]

\* as_buffer of new memory, which a third party has (x) or not.
Create(s, o, m, x) ==
  /\ ~Live(s) /\ FreeOwner(o)
  /\ NewOwner(s, o, m, x)
  /\ IF x THEN external' = external \cup {o} /\ open' = open \cup {s}
          ELSE UNCHANGED <<external, open>>

\* Mutant: __init__ does not register the slice.
NewSliceUnregistered(d, o, f, n) ==
  /\ owner' = [owner EXCEPT ![d] = o]
  /\ off' = [off EXCEPT ![d] = f]
  /\ len' = [len EXCEPT ![d] = n]
  /\ UNCHANGED <<slices, exposed, mem, external>>

\* __init__: another slice of an owner, registered in its _slices.
NewSlice(d, o, f, n) ==
  /\ owner' = [owner EXCEPT ![d] = o]
  /\ off' = [off EXCEPT ![d] = f]
  /\ len' = [len EXCEPT ![d] = n]
  /\ slices' = [slices EXCEPT ![o] = @ \cup {d}]
  /\ UNCHANGED <<exposed, mem, external>>

\* Mutant: the stop of a slice is not clamped to the size of the buffer.
GetItemUnclamped(s, d, i, j) ==
  /\ Live(s) /\ ~Live(d)
  /\ 1 <= i /\ i <= j /\ i <= len[s]
  /\ NewSlice(d, owner[s], off[s] + i - 1, j - i + 1)
  /\ open' = IF s \in open THEN open \cup {d} ELSE open

\* __getitem__, or as_buffer of memory that a known owner has.
GetItem(s, d, i, j) ==
  /\ Live(s) /\ ~Live(d)
  /\ 1 <= i /\ i <= j /\ j <= len[s]
  /\ NewSlice(d, owner[s], off[s] + i - 1, j - i + 1)
  /\ open' = IF s \in open THEN open \cup {d} ELSE open

\* Mutant: copy does not look at the exposure of the owner.
ShallowCopyUnchecked(s, d) ==
  /\ Live(s) /\ ~Live(d)
  /\ NewSlice(d, owner[s], off[s], len[s])
  /\ UNCHANGED open

\* copy: shallow, unless asked otherwise or the owner is exposed.
ShallowCopy(s, d) ==
  /\ Live(s) /\ ~Live(d) /\ ~exposed[owner[s]]
  /\ NewSlice(d, owner[s], off[s], len[s])
  /\ UNCHANGED open

DeepCopy(s, d, o) ==
  /\ Live(s) /\ ~Live(d) /\ FreeOwner(o)
  /\ NewOwner(d, o, Data(s), FALSE)
  /\ UNCHANGED <<external, open>>

\* make_single_owner_inplace copies if _slices has more than this slice.  The
\* slice joins the _slices of the new owner and stays in those of the old one.
Shared(s) == Cardinality(slices[owner[s]]) > 1

\* The write of v to cell i after get_ptr(mode="write").
Write(s, o, i, v) ==
  /\ Live(s) /\ i \in 1..len[s]
  /\ IF Shared(s)
     THEN /\ FreeOwner(o)
          /\ NewOwner(s, o, [Data(s) EXCEPT ![i] = v], FALSE)
          /\ open' = open \ {s}
     ELSE /\ o = owner[s]
          /\ mem' = [mem EXCEPT ![o][off[s] + i] = v]
          /\ UNCHANGED <<owner, off, len, slices, exposed, open>>
  /\ UNCHANGED external

\* __cuda_array_interface__, outside acquire_spill_lock: the slice becomes the
\* only one of its owner and the pointer leaves cudf.
Expose(s, o) ==
  /\ Live(s)
  /\ IF Shared(s)
     THEN /\ FreeOwner(o)
          /\ NewOwner(s, o, Data(s), Spilling)
     ELSE /\ o = owner[s]
          /\ exposed' = [exposed EXCEPT ![o] = @ \/ Spilling]
          /\ UNCHANGED <<owner, off, len, slices, mem>>
  /\ external' = external \cup {o} /\ open' = open \cup {s}

\* get_ptr(mode="read") outside acquire_spill_lock: the caller must not write,
\* so the slice stays shared, and the owner counts as exposed all the same.
ReadPointer(s) ==
  /\ Live(s)
  /\ exposed' = [exposed EXCEPT ![owner[s]] = @ \/ Spilling]
  /\ UNCHANGED <<owner, off, len, slices, mem, external, open>>

\* The third party writes to the memory, or drops its pointer.
ThirdPartyWrite(o, i, v) ==
  /\ o \in external /\ i \in 1..Len(mem[o])
  /\ mem' = [mem EXCEPT ![o][i] = v]
  /\ UNCHANGED <<owner, off, len, slices, exposed, external, open>>

ThirdPartyDrop(o) ==
  /\ o \in external
  /\ external' = external \ {o} /\ open' = open \ Users(o)
  /\ UNCHANGED <<owner, off, len, slices, exposed, mem>>

\* The slice is collected and leaves every WeakSet.
Delete(s) ==
  /\ Live(s)
  /\ owner' = [owner EXCEPT ![s] = None]
  /\ off' = [off EXCEPT ![s] = 0]
  /\ len' = [len EXCEPT ![s] = 0]
  /\ slices' = [o \in Owners |-> slices[o] \ {s}]
  /\ open' = open \ {s}
  /\ UNCHANGED <<exposed, mem, external>>

Next ==
  \/ \E s \in Slices, o \in Owners :
       \/ \E m \in [1..Size -> Values], x \in BOOLEAN : Create(s, o, m, x)
       \/ \E d \in Slices : DeepCopy(s, d, o)
       \/ \E i \in 1..Size, v \in Values : Write(s, o, i, v)
       \/ Expose(s, o)
  \/ \E s, d \in Slices :
       \/ \E i, j \in 1..Size : GetItem(s, d, i, j)
       \/ ShallowCopy(s, d)
  \/ \E o \in Owners :
       \/ \E i \in 1..Size, v \in Values : ThirdPartyWrite(o, i, v)
       \/ ThirdPartyDrop(o)
  \/ \E s \in Slices : Delete(s) \/ ReadPointer(s)

Spec == Init /\ [][Next]_vars

----------------------------------------------------------------------------
\* Every slice is registered with its owner, so that a write sees all the
\* other buffers that share the memory.
SlicesTracked == \A s \in Slices : Live(s) => s \in slices[owner[s]]

\* Copy-on-write is invisible: the slices implement independent values.
Abstract == INSTANCE ValueSemantics WITH
  MaxLen <- Size, Absent <- None,
  val <- [s \in Slices |-> IF Live(s) THEN Data(s) ELSE None]
ImplementsValues == Abstract!Spec
=============================================================================
