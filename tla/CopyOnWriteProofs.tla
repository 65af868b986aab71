------------------------- MODULE CopyOnWriteProofs -------------------------
(***************************************************************************)
(* Proofs about CopyOnWrite, for any slices, owners, values and sizes.     *)
(*                                                                         *)
(* The refinement rests on two facts that are not visible in any one       *)
(* method: a write that does not copy has found out from _slices alone     *)
(* that nobody shares the memory, and memory that a third party can write  *)
(* to is only used by buffers the user knows to be open.                   *)
(***************************************************************************)
EXTENDS CopyOnWrite, SequenceTheorems, FiniteSetTheorems, TLAPS

Memory == UNION {[1..n -> Values] : n \in 0..Size}

\* A slice is not empty.
NotEmpty == \A s \in Slices : Live(s) => len[s] >= 1

\* Memory a third party can write to is marked as exposed, so that no shallow
\* copy is made of it, and every buffer that uses it is open.
ExternalOpen ==
  \A o \in external : exposed[o] /\ Users(o) \subseteq open

\* Where nothing marks memory as exposed (without spilling) only the first
\* parts hold.
IInv == TypeOK /\ SlicesTracked /\ NotEmpty
FullInv == IInv /\ ExternalOpen

----------------------------------------------------------------------------
(* Memory is a sequence of values.                                         *)

\* What the memories of owners are.
LEMMA MemoryIsSeq ==
  \A m : m \in Memory <=> m \in Seq(Values) /\ Len(m) <= Size
<1>1. ASSUME NEW m \in Memory PROVE m \in Seq(Values) /\ Len(m) <= Size
  <2>1. PICK n \in 0..Size : m \in [1..n -> Values]
    BY DEF Memory
  <2>2. n \in Nat /\ n <= Size
    BY SizeAssumption
  <2>3. m \in Seq(Values)
    BY <2>1, <2>2, SeqDef
  <2>. QED BY <2>1, <2>2, <2>3, LenProperties
<1>2. ASSUME NEW m \in Seq(Values), Len(m) <= Size PROVE m \in Memory
  <2>1. Len(m) \in 0..Size /\ m \in [1..Len(m) -> Values]
    BY <1>2, LenProperties, SizeAssumption
  <2>. QED BY <2>1 DEF Memory
<1>. QED BY <1>1, <1>2

\* The part of a memory that a slice stands for.
LEMMA Part ==
  ASSUME NEW m \in Memory, NEW f \in Nat, NEW n \in Nat, f + n <= Len(m)
  PROVE  /\ SubSeq(m, f + 1, f + n) \in Memory
         /\ SubSeq(m, f + 1, f + n) \in Seq(Values)
         /\ Len(SubSeq(m, f + 1, f + n)) = n
         /\ \A i \in 1..n : SubSeq(m, f + 1, f + n)[i] = m[f + i]
<1>1. m \in Seq(Values) /\ Len(m) <= Size /\ Len(m) \in Nat
  BY MemoryIsSeq, LenProperties
<1>2. \A i \in (f + 1)..(f + n) : m[i] \in Values
  BY <1>1, ElementOfSeq
<1>3. /\ SubSeq(m, f + 1, f + n) \in Seq(Values)
      /\ Len(SubSeq(m, f + 1, f + n)) = IF f + 1 <= f + n THEN f + n - (f + 1) + 1 ELSE 0
      /\ \A i \in 1..(f + n - (f + 1) + 1) : SubSeq(m, f + 1, f + n)[i] = m[f + 1 + i - 1]
  BY <1>2, SubSeqProperties
<1>4. Len(SubSeq(m, f + 1, f + n)) = n /\ n <= Size
  BY <1>1, <1>3, SizeAssumption
<1>5. ASSUME NEW i \in 1..n PROVE SubSeq(m, f + 1, f + n)[i] = m[f + i]
  <2>1. i \in 1..(f + n - (f + 1) + 1) /\ f + 1 + i - 1 = f + i
    OBVIOUS
  <2>. QED BY <1>3, <2>1
<1>6. SubSeq(m, f + 1, f + n) \in Memory
  BY <1>3, <1>4, MemoryIsSeq
<1>. QED BY <1>3, <1>4, <1>5, <1>6

\* A part of a part.
LEMMA PartOfPart ==
  ASSUME NEW m \in Seq(Values), NEW f \in Nat, NEW n \in Nat, NEW i \in Nat, NEW j \in Nat,
         1 <= i, i <= j, j <= n, f + n <= Len(m)
  PROVE  SubSeq(SubSeq(m, f + 1, f + n), i, j) = SubSeq(m, f + i, f + j)
<1>. DEFINE a == f + 1
            b == f + n
<1>1. Len(m) \in Nat
  BY LenProperties
<1>2. /\ a \in 1..Len(m) /\ b \in 1..Len(m) /\ i \in 1..(b - a + 1) /\ j \in 1..(b - a + 1)
      /\ a + i - 1 = f + i /\ a + j - 1 = f + j
  BY <1>1
<1>. HIDE DEF a, b
<1>3. SubSeq(SubSeq(m, a, b), i, j) = SubSeq(m, a + i - 1, a + j - 1)
  BY <1>2, SubSeqOfSubSeq
<1>. QED BY <1>2, <1>3 DEF a, b

\* A slice that exists has the contents its length says.
LEMMA DataType ==
  ASSUME TypeOK, NEW s \in Slices, Live(s)
  PROVE  /\ Data(s) \in Memory /\ Data(s) \in Seq(Values)
         /\ Len(Data(s)) = len[s] /\ len[s] <= Size
         /\ \A i \in 1..len[s] : Data(s)[i] = mem[owner[s]][off[s] + i]
<1>1. owner[s] \in Owners /\ mem[owner[s]] \in Memory
  BY DEF TypeOK, Live, Memory
<1>2. off[s] \in Nat /\ len[s] \in Nat /\ len[s] <= Size /\ off[s] + len[s] <= Len(mem[owner[s]])
  BY SizeAssumption DEF TypeOK
<1>. QED BY <1>1, <1>2, Part DEF Data

\* The slices of an owner that a write finds not to be shared: just the one.
LEMMA Unshared ==
  ASSUME TypeOK, SlicesTracked, NEW s \in Slices, Live(s), ~Shared(s)
  PROVE  Users(owner[s]) = {s}
<1>1. owner[s] \in Owners /\ slices[owner[s]] \subseteq Slices
  BY DEF TypeOK, Live
<1>2. IsFiniteSet(slices[owner[s]])
  BY <1>1, SlicesAssumption, FS_Subset
<1>3. s \in slices[owner[s]]
  BY DEF SlicesTracked
<1>4. Cardinality(slices[owner[s]]) \in Nat /\ Cardinality(slices[owner[s]]) <= 1
  BY <1>2, FS_CardinalityType DEF Shared
<1>5. Cardinality(slices[owner[s]]) # 0
  BY <1>2, <1>3, FS_EmptySet
<1>6. Cardinality(slices[owner[s]]) = 1
  BY <1>4, <1>5
<1>7. PICK x : slices[owner[s]] = {x}
  BY <1>2, <1>6, FS_Singleton
<1>8. \A u \in Users(owner[s]) : u \in slices[owner[s]]
  BY NoneAssumption, <1>1 DEF Users, SlicesTracked, Live
<1>. QED BY <1>3, <1>7, <1>8 DEF Users

----------------------------------------------------------------------------
(* What the actions are made of preserves the invariant.                   *)

\* The values the buffers stand for: the refinement mapping.
Val == [s \in Slices |-> IF Live(s) THEN Data(s) ELSE None]

\* A slice gets memory of its own: nobody else sees a change.
LEMMA NewOwnerStep ==
  ASSUME IInv, NEW s \in Slices, NEW o \in Owners, FreeOwner(o),
         NEW m \in Memory, Len(m) >= 1, NEW x \in BOOLEAN, NewOwner(s, o, m, x),
         external' \subseteq Owners, open' \subseteq Slices
  PROVE  IInv' /\ Val' = [Val EXCEPT ![s] = m]
<1>1. /\ owner' = [owner EXCEPT ![s] = o] /\ off' = [off EXCEPT ![s] = 0]
      /\ len' = [len EXCEPT ![s] = Len(m)] /\ slices' = [slices EXCEPT ![o] = {s}]
      /\ exposed' = [exposed EXCEPT ![o] = x] /\ mem' = [mem EXCEPT ![o] = m]
  BY DEF NewOwner
<1>2. m \in Seq(Values) /\ Len(m) <= Size /\ Len(m) \in Nat /\ o # None
  BY MemoryIsSeq, LenProperties, NoneAssumption
<1>3. \A u \in Slices \ {s} : owner'[u] = owner[u] /\ owner[u] # o
  BY <1>1 DEF FreeOwner, Users, IInv, TypeOK
<1>4. \A u \in Slices \ {s} : off'[u] = off[u] /\ len'[u] = len[u]
  BY <1>1 DEF IInv, TypeOK
<1>5. owner'[s] = o /\ off'[s] = 0 /\ len'[s] = Len(m) /\ mem'[o] = m
  BY <1>1 DEF IInv, TypeOK
<1>6. \A p \in Owners \ {o} : mem'[p] = mem[p]
  BY <1>1 DEF IInv, TypeOK
<1>7. \A u \in Slices : Live(u) => owner[u] \in Owners
  BY DEF IInv, TypeOK, Live
<1>8. TypeOK'
  <2>1. /\ owner' \in [Slices -> Owners \cup {None}]
        /\ slices' \in [Owners -> SUBSET Slices] /\ exposed' \in [Owners -> BOOLEAN]
    BY <1>1 DEF IInv, TypeOK
  <2>2. off' \in [Slices -> 0..Size] /\ len' \in [Slices -> 0..Size]
    BY <1>1, <1>2, SizeAssumption DEF IInv, TypeOK
  <2>3. mem' \in [Owners -> Memory]
    BY <1>1 DEF IInv, TypeOK, Memory
  <2>4. ASSUME NEW u \in Slices, owner'[u] # None
        PROVE  off'[u] + len'[u] <= Len(mem'[owner'[u]])
    <3>1. CASE u = s
      BY <3>1, <1>2, <1>5
    <3>2. CASE u # s
      <4>1. Live(u) /\ owner[u] \in Owners \ {o}
        BY <2>4, <3>2, <1>3, <1>7 DEF Live
      <4>2. off[u] + len[u] <= Len(mem[owner[u]])
        BY <4>1 DEF IInv, TypeOK
      <4>. QED BY <3>2, <4>1, <4>2, <1>3, <1>4, <1>6
    <3>. QED BY <3>1, <3>2
  <2>. QED BY <2>1, <2>2, <2>3, <2>4 DEF TypeOK, Live, Memory
<1>9. SlicesTracked'
  BY <1>1, <1>3, <1>5, <1>7 DEF SlicesTracked, Live, IInv, TypeOK
<1>10. NotEmpty'
  BY <1>3, <1>4, <1>5 DEF NotEmpty, Live, IInv
<1>11. Val' = [Val EXCEPT ![s] = m]
  <2>1. Val'[s] = m
    BY <1>2, <1>5, SubSeqFull DEF Val, Live, Data
  <2>2. ASSUME NEW u \in Slices \ {s} PROVE Val'[u] = Val[u]
    BY <1>3, <1>4, <1>6, <1>7 DEF Val, Live, Data
  <2>. QED BY <2>1, <2>2 DEF Val
<1>. QED BY <1>8, <1>9, <1>10, <1>11 DEF IInv

\* Another slice of an owner: it sees what it is a part of.
LEMMA NewSliceStep ==
  ASSUME IInv, NEW d \in Slices, ~Live(d), NEW o \in Owners, NEW f \in Nat, NEW n \in Nat,
         n >= 1, f + n <= Len(mem[o]), NewSlice(d, o, f, n), open' \subseteq Slices
  PROVE  IInv' /\ Val' = [Val EXCEPT ![d] = SubSeq(mem[o], f + 1, f + n)]
<1>1. /\ owner' = [owner EXCEPT ![d] = o] /\ off' = [off EXCEPT ![d] = f]
      /\ len' = [len EXCEPT ![d] = n] /\ slices' = [slices EXCEPT ![o] = @ \cup {d}]
      /\ exposed' = exposed /\ mem' = mem /\ external' = external
  BY DEF NewSlice
<1>2. Len(mem[o]) <= Size /\ Len(mem[o]) \in Nat
  BY MemoryIsSeq, LenProperties DEF IInv, TypeOK, Memory
<1>3. \A u \in Slices \ {d} : owner'[u] = owner[u] /\ off'[u] = off[u] /\ len'[u] = len[u]
  BY <1>1 DEF IInv, TypeOK
<1>4. owner'[d] = o /\ off'[d] = f /\ len'[d] = n
  BY <1>1 DEF IInv, TypeOK
<1>5. TypeOK'
  <2>1. /\ owner' \in [Slices -> Owners \cup {None}] /\ slices' \in [Owners -> SUBSET Slices]
    BY <1>1 DEF IInv, TypeOK
  <2>2. off' \in [Slices -> 0..Size] /\ len' \in [Slices -> 0..Size]
    BY <1>1, <1>2, SizeAssumption DEF IInv, TypeOK
  <2>3. \A u \in Slices : owner'[u] # None => off'[u] + len'[u] <= Len(mem[owner'[u]])
    BY <1>3, <1>4 DEF IInv, TypeOK, Live
  <2>. QED BY <1>1, <2>1, <2>2, <2>3 DEF IInv, TypeOK, Live
<1>6. SlicesTracked'
  BY <1>1, <1>3, <1>4 DEF SlicesTracked, Live, IInv, TypeOK
<1>7. NotEmpty'
  BY <1>3, <1>4 DEF NotEmpty, Live, IInv
<1>8. Val' = [Val EXCEPT ![d] = SubSeq(mem[o], f + 1, f + n)]
  <2>1. Val'[d] = SubSeq(mem[o], f + 1, f + n)
    BY <1>1, <1>4, NoneAssumption DEF Val, Live, Data
  <2>2. \A u \in Slices \ {d} : Val'[u] = Val[u]
    BY <1>1, <1>3 DEF Val, Live, Data
  <2>. QED BY <2>1, <2>2 DEF Val
<1>. QED BY <1>5, <1>6, <1>7, <1>8 DEF IInv

\* A cell of an owner's memory changes: the slices that hold it see that, the
\* others do not.
LEMMA CellStep ==
  ASSUME IInv, NEW o \in Owners, NEW k \in 1..Len(mem[o]), NEW v \in Values,
         mem' = [mem EXCEPT ![o][k] = v],
         UNCHANGED <<owner, off, len, slices>>, exposed' \in [Owners -> BOOLEAN],
         external' \subseteq Owners, open' \subseteq Slices
  PROVE  /\ IInv'
         /\ \A u \in Slices \ Users(o) : Val'[u] = Val[u]
         /\ \A u \in Users(o) :
              /\ Val'[u] \in Memory /\ Len(Val'[u]) = Len(Val[u]) /\ Len(Val[u]) >= 1
              /\ \A i \in 1..len[u] : Val'[u][i] = IF off[u] + i = k THEN v ELSE Val[u][i]
<1>1. mem[o] \in Memory /\ mem[o] \in Seq(Values) /\ Len(mem[o]) \in Nat /\ Len(mem[o]) <= Size
  BY MemoryIsSeq, LenProperties DEF IInv, TypeOK, Memory
<1>2. mem'[o] = [mem[o] EXCEPT ![k] = v] /\ \A p \in Owners \ {o} : mem'[p] = mem[p]
  BY DEF IInv, TypeOK
<1>3. /\ mem'[o] \in Seq(Values) /\ Len(mem'[o]) = Len(mem[o])
      /\ \A j \in 1..Len(mem[o]) : mem'[o][j] = IF j = k THEN v ELSE mem[o][j]
  BY <1>1, <1>2, ExceptSeq
<1>4. mem'[o] \in Memory
  BY <1>1, <1>3, MemoryIsSeq
<1>5. \A p \in Owners : mem'[p] \in Memory /\ Len(mem'[p]) = Len(mem[p])
  BY <1>2, <1>3, <1>4 DEF IInv, TypeOK, Memory
<1>6. mem' \in [Owners -> Memory]
  BY <1>5 DEF IInv, TypeOK
<1>7. \A u \in Slices : Live(u) => owner[u] \in Owners
  BY DEF IInv, TypeOK, Live
<1>8. IInv'
  <2>1. TypeOK'
    BY <1>5, <1>6, <1>7 DEF IInv, TypeOK, Live, Memory
  <2>. QED BY <2>1 DEF IInv, SlicesTracked, NotEmpty, Live
<1>9. ASSUME NEW u \in Slices \ Users(o) PROVE Val'[u] = Val[u]
  BY <1>2, <1>7 DEF Val, Live, Data, Users
<1>10. ASSUME NEW u \in Users(o)
       PROVE  /\ Val'[u] \in Memory /\ Len(Val'[u]) = Len(Val[u]) /\ Len(Val[u]) >= 1
              /\ \A i \in 1..len[u] : Val'[u][i] = IF off[u] + i = k THEN v ELSE Val[u][i]
  <2>1. u \in Slices /\ owner[u] = o /\ Live(u)
    BY NoneAssumption DEF Users, Live
  <2>2. /\ Val[u] = SubSeq(mem[o], off[u] + 1, off[u] + len[u])
        /\ Val'[u] = SubSeq(mem'[o], off[u] + 1, off[u] + len[u])
    BY <2>1 DEF Val, Live, Data
  <2>3. off[u] \in Nat /\ len[u] \in Nat /\ len[u] >= 1 /\ off[u] + len[u] <= Len(mem[o])
    BY <2>1, SizeAssumption DEF IInv, TypeOK, NotEmpty
  <2>4. /\ Len(Val[u]) = len[u]
        /\ \A i \in 1..len[u] : Val[u][i] = mem[o][off[u] + i]
    <3>1. LET w == SubSeq(mem[o], off[u] + 1, off[u] + len[u])
          IN  Len(w) = len[u] /\ \A i \in 1..len[u] : w[i] = mem[o][off[u] + i]
      BY <1>1, <2>3, Part
    <3>. QED BY <2>2, <3>1
  <2>5. /\ Val'[u] \in Memory /\ Len(Val'[u]) = len[u]
        /\ \A i \in 1..len[u] : Val'[u][i] = mem'[o][off[u] + i]
    <3>1. LET w == SubSeq(mem'[o], off[u] + 1, off[u] + len[u])
          IN  /\ w \in Memory /\ Len(w) = len[u]
              /\ \A i \in 1..len[u] : w[i] = mem'[o][off[u] + i]
      <4>1. off[u] + len[u] <= Len(mem'[o])
        BY <1>3, <2>3
      <4>. QED BY <1>4, <2>3, <4>1, Part
    <3>. QED BY <2>2, <3>1
  <2>6. \A i \in 1..len[u] : Val'[u][i] = IF off[u] + i = k THEN v ELSE Val[u][i]
    BY <1>1, <1>3, <2>3, <2>4, <2>5
  <2>. QED BY <2>3, <2>4, <2>5, <2>6
<1>. QED BY <1>8, <1>9, <1>10

----------------------------------------------------------------------------
(* Every action preserves the invariant and does what ValueSemantics says. *)

\* Contents of a buffer, in both specifications, and the mark of an absent one.
LEMMA ContentsMemory ==
  /\ \A m \in Memory : Len(m) >= 1 => m \in Abstract!Contents
  /\ None \notin Memory
  /\ \A m \in [1..Size -> Values] : m \in Memory /\ Len(m) = Size
<1>1. ASSUME NEW m \in Memory, Len(m) >= 1 PROVE m \in Abstract!Contents
  <2>1. m \in [1..Len(m) -> Values] /\ Len(m) \in 1..Size
    BY <1>1, MemoryIsSeq, LenProperties, SizeAssumption
  <2>. QED BY <2>1 DEF Abstract!Contents
<1>2. ASSUME NEW m \in [1..Size -> Values] PROVE m \in Memory /\ Len(m) = Size
  <2>1. m \in Memory
    BY SizeAssumption DEF Memory
  <2>2. m \in Seq(Values)
    BY <2>1, MemoryIsSeq
  <2>. QED BY <2>1, <2>2, LenProperties, SizeAssumption
<1>. QED BY <1>1, <1>2, NoneAssumption DEF Memory

\* A buffer has a value exactly while it exists.
LEMMA ValExists ==
  ASSUME IInv, NEW s \in Slices
  PROVE  /\ Live(s) <=> Val[s] # None
         /\ Live(s) => Val[s] = Data(s) /\ Val[s] \in Memory /\ Val[s] \in Seq(Values)
                       /\ Len(Val[s]) = len[s] /\ len[s] >= 1 /\ len[s] <= Size
  BY DataType, ContentsMemory DEF Val, IInv, NotEmpty

\* as_buffer
LEMMA CreateStep ==
  ASSUME IInv, NEW s \in Slices, NEW o \in Owners, NEW m \in [1..Size -> Values],
         NEW x \in BOOLEAN, Create(s, o, m, x)
  PROVE  IInv' /\ (ExternalOpen => ExternalOpen') /\ Abstract!Create(s, m, x)
<1>1. /\ ~Live(s) /\ FreeOwner(o) /\ NewOwner(s, o, m, x)
      /\ external' = IF x THEN external \cup {o} ELSE external
      /\ open' = IF x THEN open \cup {s} ELSE open
  BY DEF Create
<1>2. m \in Memory /\ Len(m) >= 1
  BY ContentsMemory, SizeAssumption
<1>3. external' \subseteq Owners /\ open' \subseteq Slices
  BY <1>1 DEF IInv, TypeOK
<1>4. IInv' /\ Val' = [Val EXCEPT ![s] = m]
  BY <1>1, <1>2, <1>3, NewOwnerStep
<1>5. ExternalOpen => ExternalOpen'
  BY <1>1 DEF NewOwner, IInv, TypeOK, ExternalOpen, Users, FreeOwner
<1>6. Val[s] = None
  BY <1>1, ValExists
<1>. QED BY <1>1, <1>4, <1>5, <1>6 DEF Abstract!Create, Abstract!Exists, Val

\* __getitem__
LEMMA GetItemStep ==
  ASSUME IInv, NEW s \in Slices, NEW d \in Slices, NEW i \in 1..Size, NEW j \in 1..Size,
         GetItem(s, d, i, j)
  PROVE  IInv' /\ (ExternalOpen => ExternalOpen') /\ Abstract!View(s, d, i, j)
<1>1. /\ Live(s) /\ ~Live(d) /\ 1 <= i /\ i <= j /\ j <= len[s]
      /\ NewSlice(d, owner[s], off[s] + i - 1, j - i + 1)
      /\ open' = IF s \in open THEN open \cup {d} ELSE open
  BY DEF GetItem
<1>2. i \in Nat /\ j \in Nat
  BY SizeAssumption
<1>3. /\ owner[s] \in Owners /\ off[s] \in Nat /\ len[s] \in Nat
      /\ off[s] + len[s] <= Len(mem[owner[s]]) /\ mem[owner[s]] \in Memory
  BY <1>1, SizeAssumption DEF IInv, TypeOK, Live, Memory
<1>4. mem[owner[s]] \in Seq(Values) /\ Len(mem[owner[s]]) \in Nat
  BY <1>3, MemoryIsSeq, LenProperties
<1>5. /\ off[s] + i - 1 \in Nat /\ j - i + 1 \in Nat /\ j - i + 1 >= 1
      /\ (off[s] + i - 1) + (j - i + 1) <= Len(mem[owner[s]])
      /\ off[s] + i - 1 + 1 = off[s] + i /\ (off[s] + i - 1) + (j - i + 1) = off[s] + j
  BY <1>1, <1>2, <1>3, <1>4
<1>6. open' \subseteq Slices
  BY <1>1 DEF IInv, TypeOK
<1>7. IInv' /\ Val' = [Val EXCEPT ![d] = SubSeq(mem[owner[s]], off[s] + i, off[s] + j)]
  <2>. DEFINE f == off[s] + i - 1
              n == j - i + 1
              o == owner[s]
  <2>1. /\ f \in Nat /\ n \in Nat /\ n >= 1 /\ f + n <= Len(mem[o])
        /\ NewSlice(d, o, f, n) /\ ~Live(d) /\ o \in Owners
    BY <1>1, <1>3, <1>5
  <2>2. f + 1 = off[s] + i /\ f + n = off[s] + j
    BY <1>5
  <2>. HIDE DEF f, n, o
  <2>3. IInv' /\ Val' = [Val EXCEPT ![d] = SubSeq(mem[o], f + 1, f + n)]
    BY <1>6, <2>1, NewSliceStep
  <2>. QED BY <2>2, <2>3 DEF o
<1>8. SubSeq(Data(s), i, j) = SubSeq(mem[owner[s]], off[s] + i, off[s] + j)
  <2>1. off[s] \in Nat /\ len[s] \in Nat /\ off[s] + len[s] <= Len(mem[owner[s]])
    BY <1>3
  <2>2. 1 <= i /\ i <= j /\ j <= len[s]
    BY <1>1
  <2>. DEFINE m == mem[owner[s]]
              f == off[s]
              n == len[s]
  <2>3. m \in Seq(Values) /\ f \in Nat /\ n \in Nat /\ f + n <= Len(m) /\ j <= n
    BY <1>4, <2>1, <2>2
  <2>. HIDE DEF m, f, n
  <2>4. SubSeq(SubSeq(m, f + 1, f + n), i, j) = SubSeq(m, f + i, f + j)
    BY <1>2, <2>2, <2>3, PartOfPart
  <2>. QED BY <2>4 DEF Data, m, f, n
<1>9. ExternalOpen => ExternalOpen'
  BY <1>1, <1>3 DEF NewSlice, IInv, TypeOK, ExternalOpen, Users
<1>10. Val[d] = None /\ Val[s] # None /\ Val[s] = Data(s) /\ Len(Val[s]) = len[s]
  BY <1>1, ValExists
<1>. QED BY <1>1, <1>7, <1>8, <1>9, <1>10 DEF Abstract!View, Abstract!Exists, Val

\* copy(deep=False) of memory that is not exposed
LEMMA ShallowCopyStep ==
  ASSUME IInv, NEW s \in Slices, NEW d \in Slices, ShallowCopy(s, d)
  PROVE  IInv' /\ (ExternalOpen => ExternalOpen') /\ Abstract!Copy(s, d)
<1>1. /\ Live(s) /\ ~Live(d) /\ ~exposed[owner[s]]
      /\ NewSlice(d, owner[s], off[s], len[s]) /\ open' = open
  BY DEF ShallowCopy
<1>2. /\ owner[s] \in Owners /\ off[s] \in Nat /\ len[s] \in Nat
      /\ off[s] + len[s] <= Len(mem[owner[s]]) /\ len[s] >= 1
  BY <1>1, SizeAssumption DEF IInv, TypeOK, Live, NotEmpty
<1>3. IInv' /\ Val' = [Val EXCEPT ![d] = Data(s)]
  BY <1>1, <1>2, NewSliceStep, SMTT(30) DEF IInv, TypeOK, Data
<1>4. ExternalOpen => ExternalOpen'
  BY <1>1, <1>2 DEF NewSlice, IInv, TypeOK, ExternalOpen, Users
<1>5. Val[d] = None /\ Val[s] # None /\ Val[s] = Data(s)
  BY <1>1, ValExists
<1>. QED BY <1>1, <1>3, <1>4, <1>5 DEF Abstract!Copy, Abstract!Exists, Val

\* copy(deep=True), or of exposed memory
LEMMA DeepCopyStep ==
  ASSUME IInv, NEW s \in Slices, NEW d \in Slices, NEW o \in Owners, DeepCopy(s, d, o)
  PROVE  IInv' /\ (ExternalOpen => ExternalOpen') /\ Abstract!Copy(s, d)
<1>1. /\ Live(s) /\ ~Live(d) /\ FreeOwner(o) /\ NewOwner(d, o, Data(s), FALSE)
      /\ external' = external /\ open' = open
  BY DEF DeepCopy
<1>2. Val[d] = None /\ Val[s] # None /\ Val[s] = Data(s) /\ Data(s) \in Memory /\ Len(Data(s)) >= 1
  BY <1>1, ValExists
<1>3. IInv' /\ Val' = [Val EXCEPT ![d] = Data(s)]
  BY <1>1, <1>2, NewOwnerStep DEF IInv, TypeOK
<1>4. ExternalOpen => ExternalOpen'
  BY <1>1 DEF NewOwner, IInv, TypeOK, ExternalOpen, Users, FreeOwner
<1>. QED BY <1>1, <1>2, <1>3, <1>4 DEF Abstract!Copy, Abstract!Exists, Val

\* A write: the slice copies first if it is not the only one of its owner.
LEMMA WriteStep ==
  ASSUME IInv, NEW s \in Slices, NEW o \in Owners, NEW i \in 1..Size, NEW v \in Values,
         Write(s, o, i, v)
  PROVE  IInv' /\ (ExternalOpen => ExternalOpen') /\ Abstract!Write(s, i, v)
<1>1. Live(s) /\ i \in 1..len[s] /\ external' = external
  BY DEF Write
<1>2. /\ Val[s] # None /\ Val[s] = Data(s) /\ Data(s) \in Memory /\ Data(s) \in Seq(Values)
      /\ Len(Data(s)) = len[s] /\ len[s] >= 1 /\ len[s] <= Size
  BY <1>1, ValExists
<1>3. CASE Shared(s)
  <2>1. FreeOwner(o) /\ NewOwner(s, o, [Data(s) EXCEPT ![i] = v], FALSE) /\ open' = open \ {s}
    BY <1>3 DEF Write
  <2>2. [Data(s) EXCEPT ![i] = v] \in Seq(Values) /\ Len([Data(s) EXCEPT ![i] = v]) = len[s]
    BY <1>1, <1>2, ExceptSeq
  <2>3. [Data(s) EXCEPT ![i] = v] \in Memory
    BY <1>2, <2>2, MemoryIsSeq
  <2>4. external' \subseteq Owners /\ open' \subseteq Slices
    BY <1>1, <2>1 DEF IInv, TypeOK
  <2>5. IInv' /\ Val' = [Val EXCEPT ![s] = [Data(s) EXCEPT ![i] = v]]
    BY <1>2, <2>1, <2>2, <2>3, <2>4, NewOwnerStep
  <2>6. ExternalOpen => ExternalOpen'
    BY <1>1, <2>1 DEF NewOwner, IInv, TypeOK, ExternalOpen, Users, FreeOwner
  <2>7. Val' = [Val EXCEPT ![s][i] = v]
    BY <1>2, <2>5 DEF Val
  <2>. QED BY <1>1, <1>2, <2>1, <2>5, <2>6, <2>7 DEF Abstract!Write, Abstract!Exists, Val
<1>4. CASE ~Shared(s)
  <2>1. /\ o = owner[s] /\ mem' = [mem EXCEPT ![o][off[s] + i] = v]
        /\ UNCHANGED <<owner, off, len, slices, exposed, open>>
    BY <1>4 DEF Write
  <2>2. Users(o) = {s}
    BY <1>1, <1>4, <2>1, Unshared DEF IInv
  <2>3. /\ off[s] \in Nat /\ len[s] \in Nat /\ off[s] + len[s] <= Len(mem[o])
        /\ Len(mem[o]) \in Nat
    BY <1>1, <2>1, SizeAssumption, MemoryIsSeq, LenProperties DEF IInv, TypeOK, Memory
  <2>4. off[s] + i \in 1..Len(mem[o])
    BY <1>1, <2>3
  <2>5. exposed' \in [Owners -> BOOLEAN] /\ external' \subseteq Owners /\ open' \subseteq Slices
    BY <1>1, <2>1 DEF IInv, TypeOK
  <2>6. /\ IInv' /\ \A u \in Slices \ {s} : Val'[u] = Val[u]
        /\ Val'[s] \in Memory /\ Len(Val'[s]) = Len(Val[s])
        /\ \A k \in 1..len[s] : Val'[s][k] = IF off[s] + k = off[s] + i THEN v ELSE Val[s][k]
    <3>. DEFINE k == off[s] + i
    <3>1. k \in 1..Len(mem[o]) /\ mem' = [mem EXCEPT ![o][k] = v]
      BY <2>1, <2>4
    <3>. HIDE DEF k
    <3>2. /\ IInv' /\ \A u \in Slices \ Users(o) : Val'[u] = Val[u]
          /\ \A u \in Users(o) :
               /\ Val'[u] \in Memory /\ Len(Val'[u]) = Len(Val[u]) /\ Len(Val[u]) >= 1
               /\ \A j \in 1..len[u] : Val'[u][j] = IF off[u] + j = k THEN v ELSE Val[u][j]
      <4>. HIDE DEF IInv, Val, Memory, Users
      <4>1. UNCHANGED <<owner, off, len, slices>>
        BY <2>1
      <4>. QED BY <2>5, <3>1, <4>1, CellStep, Zenon
    <3>. QED BY <2>2, <3>2 DEF k
  <2>7. Val'[s] = [Val[s] EXCEPT ![i] = v]
    <3>1. Val'[s] \in Seq(Values) /\ Len(Val'[s]) = len[s]
      BY <1>2, <2>6, MemoryIsSeq
    <3>2. /\ [Val[s] EXCEPT ![i] = v] \in Seq(Values) /\ Len([Val[s] EXCEPT ![i] = v]) = len[s]
          /\ \A k \in 1..len[s] : [Val[s] EXCEPT ![i] = v][k] = IF k = i THEN v ELSE Val[s][k]
      BY <1>1, <1>2, ExceptSeq
    <3>3. \A k \in 1..len[s] : Val'[s][k] = [Val[s] EXCEPT ![i] = v][k]
      BY <1>1, <2>3, <2>6, <3>2
    <3>. QED BY <3>1, <3>2, <3>3, SeqEqual
  <2>8. Val' = [Val EXCEPT ![s][i] = v]
    BY <2>6, <2>7 DEF Val
  <2>9. ExternalOpen => ExternalOpen'
    BY <1>1, <2>1 DEF ExternalOpen, Users
  <2>. QED BY <1>1, <1>2, <2>1, <2>6, <2>8, <2>9 DEF Abstract!Write, Abstract!Exists, Val
<1>. QED BY <1>3, <1>4

\* __cuda_array_interface__.  Only the owners of the spilling build are marked.
LEMMA ExposeStep ==
  ASSUME IInv, NEW s \in Slices, NEW o \in Owners, Expose(s, o)
  PROVE  IInv' /\ (Spilling /\ ExternalOpen => ExternalOpen') /\ Abstract!Expose(s)
<1>1. Live(s) /\ external' = external \cup {o} /\ open' = open \cup {s}
  BY DEF Expose
<1>2. /\ Val[s] # None /\ Val[s] = Data(s) /\ Data(s) \in Memory /\ Len(Data(s)) >= 1
  BY <1>1, ValExists
<1>3. external' \subseteq Owners /\ open' \subseteq Slices
  BY <1>1 DEF IInv, TypeOK
<1>4. CASE Shared(s)
  <2>1. FreeOwner(o) /\ NewOwner(s, o, Data(s), Spilling)
    BY <1>4 DEF Expose
  <2>2. IInv' /\ Val' = [Val EXCEPT ![s] = Data(s)]
    BY <1>2, <1>3, <2>1, SpillingAssumption, NewOwnerStep
  <2>3. Spilling /\ ExternalOpen => ExternalOpen'
    BY <1>1, <2>1 DEF NewOwner, IInv, TypeOK, ExternalOpen, Users, FreeOwner
  <2>4. Val' = Val
    BY <1>2, <2>2 DEF Val
  <2>. QED BY <1>1, <1>2, <2>2, <2>3, <2>4 DEF Abstract!Expose, Abstract!Exists, Val
<1>5. CASE ~Shared(s)
  <2>1. /\ o = owner[s] /\ exposed' = [exposed EXCEPT ![o] = @ \/ Spilling]
        /\ UNCHANGED <<owner, off, len, slices, mem>>
    BY <1>5 DEF Expose
  <2>2. Users(o) = {s}
    BY <1>1, <1>5, <2>1, Unshared DEF IInv
  <2>3. IInv' /\ Val' = Val
    BY <1>3, <2>1, SpillingAssumption
       DEF IInv, TypeOK, SlicesTracked, NotEmpty, Live, Val, Data
  <2>4. Spilling /\ ExternalOpen => ExternalOpen'
    BY <1>1, <2>1, <2>2 DEF IInv, TypeOK, ExternalOpen, Users
  <2>. QED BY <1>1, <1>2, <2>3, <2>4 DEF Abstract!Expose, Abstract!Exists, Val
<1>. QED BY <1>4, <1>5

\* get_ptr(mode="read") changes no value.
LEMMA ReadPointerStep ==
  ASSUME IInv, NEW s \in Slices, ReadPointer(s)
  PROVE  IInv' /\ (ExternalOpen => ExternalOpen') /\ Val' = Val /\ open' = open
<1>1. /\ exposed' = [exposed EXCEPT ![owner[s]] = @ \/ Spilling]
      /\ UNCHANGED <<owner, off, len, slices, mem, external, open>> /\ Live(s)
  BY DEF ReadPointer
<1>2. IInv' /\ Val' = Val
  BY <1>1, SpillingAssumption DEF IInv, TypeOK, SlicesTracked, NotEmpty, Live, Val, Data
<1>3. ExternalOpen => ExternalOpen'
  BY <1>1 DEF IInv, TypeOK, ExternalOpen, Users
<1>. QED BY <1>1, <1>2, <1>3

\* A third party writes to memory it has: only open buffers change.
LEMMA ThirdPartyWriteStep ==
  ASSUME IInv, NEW o \in Owners, NEW i \in 1..Size, NEW v \in Values, ThirdPartyWrite(o, i, v)
  PROVE  IInv' /\ (ExternalOpen => ExternalOpen' /\ Abstract!ThirdPartyWrite)
<1>1. /\ o \in external /\ i \in 1..Len(mem[o]) /\ mem' = [mem EXCEPT ![o][i] = v]
      /\ UNCHANGED <<owner, off, len, slices, exposed, external, open>>
  BY DEF ThirdPartyWrite
<1>2. exposed' \in [Owners -> BOOLEAN] /\ external' \subseteq Owners /\ open' \subseteq Slices
  BY <1>1 DEF IInv, TypeOK
<1>3. /\ IInv'
      /\ \A u \in Slices \ Users(o) : Val'[u] = Val[u]
      /\ \A u \in Users(o) : Val'[u] \in Memory /\ Len(Val'[u]) = Len(Val[u]) /\ Len(Val[u]) >= 1
  BY <1>1, <1>2, CellStep
<1>4. ExternalOpen => ExternalOpen'
  BY <1>1 DEF ExternalOpen, Users
<1>5. \A u \in Slices : Live(u) => Val[u] \in Abstract!Contents
  BY ValExists, ContentsMemory
<1>6. \A u \in Slices : ~Live(u) => Val[u] = None
  BY DEF Val
<1>7. \A u \in Users(o) : Val'[u] \in Abstract!Contents /\ Val'[u] # None
  BY <1>3, ContentsMemory
<1>8. Val' \in [Slices -> Abstract!Contents \cup {None}]
  <2>1. \A u \in Slices : Val'[u] \in Abstract!Contents \cup {None}
    BY <1>3, <1>5, <1>6, <1>7
  <2>. QED BY <2>1 DEF Val
<1>9. ASSUME ExternalOpen, NEW u \in Slices, u \notin open \/ Val[u] = None
      PROVE  Val'[u] = Val[u]
  <2>1. CASE u \in Users(o)
    <3>1. Live(u)
      BY <2>1, NoneAssumption DEF Users, Live
    <3>2. u \in open
      BY <1>1, <1>9, <2>1 DEF ExternalOpen
    <3>. QED BY <1>9, <3>1, <3>2, ValExists
  <2>. QED BY <1>3, <2>1
<1>10. ASSUME NEW u \in Slices, Val[u] # None
       PROVE  Val'[u] # None /\ Len(Val'[u]) = Len(Val[u])
  BY <1>3, <1>7, <1>10
<1>. QED BY <1>1, <1>3, <1>4, <1>8, <1>9, <1>10
         DEF Abstract!ThirdPartyWrite, Abstract!Exists, Val

\* A third party drops its pointer.
LEMMA ThirdPartyDropStep ==
  ASSUME IInv, NEW o \in Owners, ThirdPartyDrop(o)
  PROVE  IInv' /\ (ExternalOpen => ExternalOpen') /\ Abstract!ThirdPartyDrop
<1>1. /\ external' = external \ {o} /\ open' = open \ Users(o)
      /\ UNCHANGED <<owner, off, len, slices, exposed, mem>>
  BY DEF ThirdPartyDrop
<1>2. IInv' /\ Val' = Val
  BY <1>1 DEF IInv, TypeOK, SlicesTracked, NotEmpty, Live, Val, Data
<1>3. ExternalOpen => ExternalOpen'
  BY <1>1 DEF ExternalOpen, Users
<1>. QED BY <1>1, <1>2, <1>3 DEF Abstract!ThirdPartyDrop, Val

\* A buffer is collected.
LEMMA DeleteStep ==
  ASSUME IInv, NEW s \in Slices, Delete(s)
  PROVE  IInv' /\ (ExternalOpen => ExternalOpen') /\ Abstract!Delete(s)
<1>1. /\ Live(s) /\ owner' = [owner EXCEPT ![s] = None] /\ off' = [off EXCEPT ![s] = 0]
      /\ len' = [len EXCEPT ![s] = 0] /\ slices' = [o \in Owners |-> slices[o] \ {s}]
      /\ open' = open \ {s} /\ UNCHANGED <<exposed, mem, external>>
  BY DEF Delete
<1>2. TypeOK'
  BY <1>1, SizeAssumption DEF IInv, TypeOK, Live
<1>3. SlicesTracked' /\ NotEmpty'
  BY <1>1 DEF IInv, TypeOK, SlicesTracked, NotEmpty, Live
<1>4. Val' = [Val EXCEPT ![s] = None]
  BY <1>1 DEF IInv, TypeOK, Val, Live, Data
<1>5. ExternalOpen => ExternalOpen'
  BY <1>1, NoneAssumption DEF IInv, TypeOK, ExternalOpen, Users
<1>6. Val[s] # None
  BY <1>1, ValExists
<1>. QED BY <1>1, <1>2, <1>3, <1>4, <1>5, <1>6 DEF IInv, Abstract!Delete, Abstract!Exists, Val

----------------------------------------------------------------------------
(* The behaviours.                                                         *)

\* The first state, and what it implements.
LEMMA InitStep == Init => FullInv /\ Abstract!Init
<1>. SUFFICES ASSUME Init PROVE FullInv /\ Abstract!Init
  OBVIOUS
<1>1. <<>> \in Memory
  <2>1. <<>> \in Seq(Values) /\ Len(<<>>) <= Size
    BY EmptySeq, SizeAssumption
  <2>. QED BY <2>1, MemoryIsSeq
<1>2. TypeOK
  <2>1. \A s \in Slices : ~Live(s)
    BY DEF Init, Live
  <2>2. mem \in [Owners -> Memory]
    BY <1>1 DEF Init
  <2>3. 0 \in 0..Size
    BY SizeAssumption
  <2>. QED BY <2>1, <2>2, <2>3 DEF Init, TypeOK
<1>3. SlicesTracked /\ NotEmpty /\ ExternalOpen
  BY DEF Init, SlicesTracked, NotEmpty, ExternalOpen, Live
<1>4. Abstract!Init
  BY DEF Init, Abstract!Init, Live
<1>. QED BY <1>2, <1>3, <1>4 DEF FullInv, IInv

\* One lemma for each action of the code.
LEMMA IInvInductive == IInv /\ [Next]_vars => IInv'
<1>. SUFFICES ASSUME IInv, [Next]_vars PROVE IInv'
  OBVIOUS
<1>1. ASSUME NEW s \in Slices, NEW o \in Owners, NEW m \in [1..Size -> Values],
             NEW x \in BOOLEAN, Create(s, o, m, x)
      PROVE  IInv'
  BY <1>1, CreateStep
<1>2. ASSUME NEW s \in Slices, NEW o \in Owners, NEW d \in Slices, DeepCopy(s, d, o)
      PROVE  IInv'
  BY <1>2, DeepCopyStep
<1>3. ASSUME NEW s \in Slices, NEW o \in Owners, NEW i \in 1..Size, NEW v \in Values,
             Write(s, o, i, v)
      PROVE  IInv'
  BY <1>3, WriteStep
<1>4. ASSUME NEW s \in Slices, NEW o \in Owners, Expose(s, o) PROVE IInv'
  BY <1>4, ExposeStep
<1>5. ASSUME NEW s \in Slices, NEW d \in Slices, NEW i \in 1..Size, NEW j \in 1..Size,
             GetItem(s, d, i, j)
      PROVE  IInv'
  BY <1>5, GetItemStep
<1>6. ASSUME NEW s \in Slices, NEW d \in Slices, ShallowCopy(s, d) PROVE IInv'
  BY <1>6, ShallowCopyStep
<1>7. ASSUME NEW o \in Owners, NEW i \in 1..Size, NEW v \in Values, ThirdPartyWrite(o, i, v)
      PROVE  IInv'
  BY <1>7, ThirdPartyWriteStep
<1>8. ASSUME NEW o \in Owners, ThirdPartyDrop(o) PROVE IInv'
  BY <1>8, ThirdPartyDropStep
<1>9. ASSUME NEW s \in Slices, Delete(s) PROVE IInv'
  BY <1>9, DeleteStep
<1>10. ASSUME NEW s \in Slices, ReadPointer(s) PROVE IInv'
  BY <1>10, ReadPointerStep
<1>11. CASE UNCHANGED vars
  BY <1>11 DEF IInv, TypeOK, SlicesTracked, NotEmpty, Live, vars
<1>. QED BY <1>1, <1>2, <1>3, <1>4, <1>5, <1>6, <1>7, <1>8, <1>9, <1>10, <1>11 DEF Next

\* With spilling, every step is one of independent values, or no step at all.
LEMMA StepImplements ==
  ASSUME Spilling, FullInv, [Next]_vars
  PROVE  ExternalOpen' /\ [Abstract!Next]_<<Val, open>>
<1>. USE DEF FullInv
<1>1. ASSUME NEW s \in Slices, NEW o \in Owners, NEW m \in [1..Size -> Values],
             NEW x \in BOOLEAN, Create(s, o, m, x)
      PROVE  ExternalOpen' /\ Abstract!Next
  <2>1. m \in Abstract!Contents
    BY SizeAssumption DEF Abstract!Contents
  <2>2. ExternalOpen' /\ Abstract!Create(s, m, x)
    BY <1>1, CreateStep
  <2>. QED BY <2>1, <2>2 DEF Abstract!Next
<1>2. ASSUME NEW s \in Slices, NEW o \in Owners, NEW d \in Slices, DeepCopy(s, d, o)
      PROVE  ExternalOpen' /\ Abstract!Next
  BY <1>2, DeepCopyStep DEF Abstract!Next
<1>3. ASSUME NEW s \in Slices, NEW o \in Owners, NEW i \in 1..Size, NEW v \in Values,
             Write(s, o, i, v)
      PROVE  ExternalOpen' /\ Abstract!Next
  BY <1>3, WriteStep DEF Abstract!Next
<1>4. ASSUME NEW s \in Slices, NEW o \in Owners, Expose(s, o)
      PROVE  ExternalOpen' /\ Abstract!Next
  BY <1>4, ExposeStep DEF Abstract!Next
<1>5. ASSUME NEW s \in Slices, NEW d \in Slices, NEW i \in 1..Size, NEW j \in 1..Size,
             GetItem(s, d, i, j)
      PROVE  ExternalOpen' /\ Abstract!Next
  BY <1>5, GetItemStep DEF Abstract!Next
<1>6. ASSUME NEW s \in Slices, NEW d \in Slices, ShallowCopy(s, d)
      PROVE  ExternalOpen' /\ Abstract!Next
  BY <1>6, ShallowCopyStep DEF Abstract!Next
<1>7. ASSUME NEW o \in Owners, NEW i \in 1..Size, NEW v \in Values, ThirdPartyWrite(o, i, v)
      PROVE  ExternalOpen' /\ Abstract!Next
  BY <1>7, ThirdPartyWriteStep DEF Abstract!Next
<1>8. ASSUME NEW o \in Owners, ThirdPartyDrop(o) PROVE ExternalOpen' /\ Abstract!Next
  BY <1>8, ThirdPartyDropStep DEF Abstract!Next
<1>9. ASSUME NEW s \in Slices, Delete(s) PROVE ExternalOpen' /\ Abstract!Next
  BY <1>9, DeleteStep DEF Abstract!Next
<1>10. ASSUME NEW s \in Slices, ReadPointer(s)
       PROVE  ExternalOpen' /\ UNCHANGED <<Val, open>>
  BY <1>10, ReadPointerStep
<1>11. CASE UNCHANGED vars
  BY <1>11 DEF ExternalOpen, Users, Val, Data, Live, vars
<1>. QED BY <1>1, <1>2, <1>3, <1>4, <1>5, <1>6, <1>7, <1>8, <1>9, <1>10, <1>11 DEF Next

\* Every state of every behaviour.
LEMMA InvariantsHold == Spec => []IInv
<1>1. Init => IInv
  BY InitStep DEF FullInv
<1>. QED BY <1>1, IInvInductive, PTL DEF Spec

\* The range of a slice stays inside the memory of its owner, whichever owner
\* a write, an exposure or a copy gave it (ExposureTrackedBuffer, Buffer).
THEOREM TypeCorrect == Spec => []TypeOK
<1>1. IInv => TypeOK
  BY DEF IInv
<1>. QED BY <1>1, InvariantsHold, PTL

\* Every live slice is in the _slices of its owner, across copies, views,
\* collections and the change of owner of make_single_owner_inplace.
THEOREM AllSlicesTracked == Spec => []SlicesTracked
<1>1. IInv => SlicesTracked
  BY DEF IInv
<1>. QED BY <1>1, InvariantsHold, PTL

\* Copy-on-write with spillable owners is invisible: whatever slices share
\* memory and whatever a third party writes, each buffer behaves as a value
\* of its own, and only buffers the user handed out, or views of such, change
\* behind cudf's back.
THEOREM CopyOnWriteImplementsValues == Spilling => (Spec => ImplementsValues)
<1>. SUFFICES ASSUME Spilling PROVE Spec => ImplementsValues
  OBVIOUS
<1>1. Init => FullInv /\ Abstract!Init
  BY InitStep
<1>2. FullInv /\ [Next]_vars => FullInv'
  BY IInvInductive, StepImplements DEF FullInv
<1>3. FullInv /\ [Next]_vars
        => [Abstract!Next]_<<[s \in Slices |-> IF Live(s) THEN Data(s) ELSE None], open>>
  BY StepImplements DEF Val
<1>. QED BY <1>1, <1>2, <1>3, PTL DEF Spec, ImplementsValues, Abstract!Spec
=============================================================================
