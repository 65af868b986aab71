------------------------- MODULE MultibyteSplitProofs -------------------------
(***************************************************************************)
(* Proofs about MultibyteSplit: the rows of a byte range are exact for any *)
(* text, delimiter and byte range, any division into chunks, tiles and     *)
(* threads, and any content of the items past the end of a chunk.          *)
(***************************************************************************)
EXTENDS MultibyteSplit, SequenceTheorems, FiniteSetTheorems, FoldTheorems, TLAPS

DelimOK == delim \in Seq(Alphabet) /\ delim # <<>>

(* The multistate of a word, without a recursion: the matches that begin   *)
(* in the word, and those that go through all of it.                       *)
Suffix(w, t) == t <= Len(w) /\ \A i \in 1 .. t : w[Len(w) - t + i] = delim[i]
Inner(w, h) == h + Len(w) <= Len(delim) /\ \A i \in 1 .. Len(w) : w[i] = delim[h + i]

Known(w) == {<<0, t>> : t \in {u \in 0 .. Len(delim) : Suffix(w, u)}}
Through(w) == {<<h, h + Len(w)>> : h \in {g \in 0 .. Len(delim) : Inner(w, g)}}
Multi(w) == Known(w) \cup Through(w)

----------------------------------------------------------------------------
(* Multistates.                                                            *)

\* One more character.
LEMMA SuffixAppend ==
  ASSUME DelimOK, NEW w \in Seq(Alphabet), NEW c \in Alphabet, NEW t \in 0 .. Len(delim)
  PROVE  Suffix(Append(w, c), t) <=> t = 0 \/ (Suffix(w, t - 1) /\ delim[t] = c)
<1>. DEFINE v == Append(w, c)
<1>1. /\ Len(w) \in Nat /\ Len(delim) \in Nat
      /\ Len(v) = Len(w) + 1 /\ v[Len(w) + 1] = c /\ \A i \in 1 .. Len(w) : v[i] = w[i]
  BY AppendProperties DEF DelimOK
<1>. HIDE DEF v
<1>2. ASSUME Suffix(v, t), t # 0 PROVE Suffix(w, t - 1) /\ delim[t] = c
  <2>1. t <= Len(w) + 1 /\ t \in 1 .. t /\ Len(v) - t + t = Len(w) + 1
    BY <1>1, <1>2 DEF Suffix
  <2>2. delim[t] = c
    BY <1>1, <1>2, <2>1 DEF Suffix
  <2>3. ASSUME NEW i \in 1 .. t - 1 PROVE w[Len(w) - (t - 1) + i] = delim[i]
    <3>1. i \in 1 .. t /\ Len(v) - t + i = Len(w) - (t - 1) + i /\ Len(v) - t + i \in 1 .. Len(w)
      BY <1>1, <2>1
    <3>. QED BY <1>1, <1>2, <3>1 DEF Suffix
  <2>. QED BY <1>1, <2>1, <2>2, <2>3 DEF Suffix
<1>3. ASSUME Suffix(w, t - 1), delim[t] = c, t # 0 PROVE Suffix(v, t)
  <2>1. t <= Len(v)
    BY <1>1, <1>3 DEF Suffix
  <2>2. ASSUME NEW i \in 1 .. t PROVE v[Len(v) - t + i] = delim[i]
    <3>1. CASE i = t
      BY <1>1, <1>3, <3>1
    <3>2. CASE i # t
      <4>1. i \in 1 .. t - 1 /\ Len(v) - t + i = Len(w) - (t - 1) + i /\ Len(v) - t + i \in 1 .. Len(w)
        BY <1>1, <2>1, <3>2
      <4>. QED BY <1>1, <1>3, <4>1 DEF Suffix
    <3>. QED BY <3>1, <3>2
  <2>. QED BY <2>1, <2>2 DEF Suffix
<1>4. t = 0 => Suffix(v, t)
  BY <1>1 DEF Suffix
<1>. QED BY <1>2, <1>3, <1>4 DEF v

\* A match through a word, one character longer.
LEMMA InnerAppend ==
  ASSUME DelimOK, NEW w \in Seq(Alphabet), NEW c \in Alphabet, NEW h \in 0 .. Len(delim)
  PROVE  Inner(Append(w, c), h)
           <=> Inner(w, h) /\ h + Len(w) < Len(delim) /\ delim[h + Len(w) + 1] = c
<1>. DEFINE v == Append(w, c)
<1>1. /\ Len(w) \in Nat /\ Len(delim) \in Nat
      /\ Len(v) = Len(w) + 1 /\ v[Len(w) + 1] = c /\ \A i \in 1 .. Len(w) : v[i] = w[i]
  BY AppendProperties DEF DelimOK
<1>. HIDE DEF v
<1>2. Inner(v, h) => Inner(w, h) /\ h + Len(w) < Len(delim) /\ delim[h + Len(w) + 1] = c
  <2>. SUFFICES ASSUME Inner(v, h)
                PROVE  Inner(w, h) /\ h + Len(w) < Len(delim) /\ delim[h + Len(w) + 1] = c
    OBVIOUS
  <2>1. h + Len(w) + 1 <= Len(delim) /\ \A i \in 1 .. Len(w) + 1 : v[i] = delim[h + i]
    BY <1>1 DEF Inner
  <2>2. delim[h + (Len(w) + 1)] = c
    BY <1>1, <2>1
  <2>. QED BY <1>1, <2>1, <2>2 DEF Inner
<1>3. Inner(w, h) /\ h + Len(w) < Len(delim) /\ delim[h + Len(w) + 1] = c => Inner(v, h)
  BY <1>1 DEF Inner
<1>. QED BY <1>2, <1>3 DEF v

\* Membership.
LEMMA MultiMembers ==
  ASSUME NEW w
  PROVE  /\ \A p : p \in Known(w) <=> \E t \in 0 .. Len(delim) : Suffix(w, t) /\ p = <<0, t>>
         /\ \A p : p \in Through(w)
                     <=> \E h \in 0 .. Len(delim) : Inner(w, h) /\ p = <<h, h + Len(w)>>
         /\ \A p : p \in Multi(w) <=> p \in Known(w) \/ p \in Through(w)
BY DEF Known, Through, Multi

\* The segments after one more character.
LEMMA TransitionMembers ==
  ASSUME NEW c, NEW S
  PROVE  \A p : p \in Transition(c, S) <=>
           \/ p = <<0, 0>>
           \/ \E s \in S : s[2] < Len(delim) /\ delim[s[2] + 1] = c /\ p = <<s[1], s[2] + 1>>
BY DEF Transition

\* transition: the multistate of a word and one more character.
LEMMA TransitionKnown ==
  ASSUME DelimOK, NEW w \in Seq(Alphabet), NEW c \in Alphabet
  PROVE  Transition(c, Known(w)) = Known(Append(w, c))
<1>. DEFINE v == Append(w, c)
<1>1. Len(delim) \in Nat \ {0}
  BY EmptySeq DEF DelimOK
<1>2. \A t \in 0 .. Len(delim) : Suffix(v, t) <=> t = 0 \/ (Suffix(w, t - 1) /\ delim[t] = c)
  BY SuffixAppend
<1>. HIDE DEF v
<1>3. ASSUME NEW p, p \in Transition(c, Known(w)) PROVE p \in Known(v)
  <2>1. CASE p = <<0, 0>>
    BY <1>1, <1>2, <2>1, MultiMembers
  <2>2. CASE p # <<0, 0>>
    <3>1. PICK s \in Known(w) : s[2] < Len(delim) /\ delim[s[2] + 1] = c /\ p = <<s[1], s[2] + 1>>
      BY <1>3, <2>2, TransitionMembers
    <3>2. PICK t \in 0 .. Len(delim) : Suffix(w, t) /\ s = <<0, t>>
      BY MultiMembers
    <3>3. t + 1 \in 0 .. Len(delim) /\ (t + 1) - 1 = t /\ p = <<0, t + 1>> /\ delim[t + 1] = c
      BY <1>1, <3>1, <3>2
    <3>4. Suffix(v, t + 1)
      BY <1>2, <3>2, <3>3
    <3>. QED BY <3>3, <3>4, MultiMembers
  <2>. QED BY <2>1, <2>2
<1>4. ASSUME NEW p, p \in Known(v) PROVE p \in Transition(c, Known(w))
  <2>1. PICK t \in 0 .. Len(delim) : Suffix(v, t) /\ p = <<0, t>>
    BY <1>4, MultiMembers
  <2>2. CASE t = 0
    BY <2>1, <2>2, TransitionMembers
  <2>3. CASE t # 0
    <3>1. t - 1 \in 0 .. Len(delim) /\ (t - 1) + 1 = t /\ t - 1 < Len(delim)
      BY <1>1, <2>3
    <3>2. Suffix(w, t - 1) /\ delim[t] = c
      BY <1>2, <2>1, <2>3
    <3>3. <<0, t - 1>> \in Known(w)
      BY <3>1, <3>2, MultiMembers
    <3>. DEFINE s == <<0, t - 1>>
    <3>4. s[1] = 0 /\ s[2] = t - 1
      OBVIOUS
    <3>. HIDE DEF s
    <3>. QED BY <2>1, <3>1, <3>2, <3>3, <3>4, TransitionMembers DEF s
  <2>. QED BY <2>2, <2>3
<1>. QED BY <1>3, <1>4 DEF v

\* transition: what goes through a word and one more character.
LEMMA TransitionThrough ==
  ASSUME DelimOK, NEW w \in Seq(Alphabet), NEW c \in Alphabet
  PROVE  /\ Transition(c, Through(w)) = {<<0, 0>>} \cup Through(Append(w, c))
         /\ Transition(c, Multi(w)) = Multi(Append(w, c))
<1>. DEFINE v == Append(w, c)
<1>1. Len(delim) \in Nat \ {0} /\ Len(w) \in Nat /\ Len(v) = Len(w) + 1
  BY EmptySeq, AppendProperties DEF DelimOK
<1>2. \A h \in 0 .. Len(delim) :
        Inner(v, h) <=> Inner(w, h) /\ h + Len(w) < Len(delim) /\ delim[h + Len(w) + 1] = c
  BY InnerAppend
<1>3. Transition(c, Known(w)) = Known(v)
  BY TransitionKnown
<1>. HIDE DEF v
<1>4. ASSUME NEW p, p \in Transition(c, Through(w)), p # <<0, 0>> PROVE p \in Through(v)
  <2>1. PICK s \in Through(w) : s[2] < Len(delim) /\ delim[s[2] + 1] = c /\ p = <<s[1], s[2] + 1>>
    BY <1>4, TransitionMembers
  <2>2. PICK h \in 0 .. Len(delim) : Inner(w, h) /\ s = <<h, h + Len(w)>>
    BY MultiMembers
  <2>3. h + Len(w) < Len(delim) /\ delim[h + Len(w) + 1] = c /\ p = <<h, h + Len(v)>>
    BY <1>1, <2>1, <2>2
  <2>4. Inner(v, h)
    BY <1>2, <2>2, <2>3
  <2>. QED BY <2>3, <2>4, MultiMembers
<1>5. ASSUME NEW p, p \in Through(v) PROVE p \in Transition(c, Through(w))
  <2>1. PICK h \in 0 .. Len(delim) : Inner(v, h) /\ p = <<h, h + Len(v)>>
    BY <1>5, MultiMembers
  <2>2. Inner(w, h) /\ h + Len(w) < Len(delim) /\ delim[h + Len(w) + 1] = c
    BY <1>2, <2>1
  <2>. DEFINE s == <<h, h + Len(w)>>
  <2>3. s \in Through(w) /\ s[1] = h /\ s[2] = h + Len(w) /\ p = <<h, h + Len(w) + 1>>
    BY <1>1, <2>1, <2>2, MultiMembers
  <2>. HIDE DEF s
  <2>. QED BY <2>2, <2>3, TransitionMembers
<1>6. <<0, 0>> \in Transition(c, Through(w)) /\ <<0, 0>> \in Known(v)
  BY <1>3, TransitionMembers
<1>7. Transition(c, Through(w)) = {<<0, 0>>} \cup Through(v)
  BY <1>4, <1>5, <1>6
<1>8. Transition(c, Multi(w)) = Transition(c, Known(w)) \cup Transition(c, Through(w))
  BY DEF Multi, Transition
<1>9. Transition(c, Multi(w)) = Known(v) \cup Through(v)
  BY <1>3, <1>6, <1>7, <1>8
<1>. QED BY <1>7, <1>9 DEF v, Multi

\* transition_init: the first character.
LEMMA TransitionFirst ==
  ASSUME DelimOK, NEW c \in Alphabet
  PROVE  TransitionInit(c) = Multi(<<c>>)
<1>1. Len(delim) \in Nat /\ <<>> \in Seq(Alphabet) /\ Len(<<>>) = 0
  BY EmptySeq DEF DelimOK
<1>2. \A h \in 0 .. Len(delim) : Inner(<<>>, h)
  BY <1>1 DEF Inner
<1>3. \A t \in 0 .. Len(delim) : Suffix(<<>>, t) <=> t = 0
  BY <1>1 DEF Suffix
<1>4. \A p : p \in Multi(<<>>) <=> \E h \in 0 .. Len(delim) : p = <<h, h>>
  <2>1. \A h \in 0 .. Len(delim) : h + Len(<<>>) = h
    BY <1>1
  <2>. QED BY <1>1, <1>2, <1>3, <2>1, MultiMembers
<1>5. ASSUME NEW p, p \in TransitionInit(c) PROVE p \in Transition(c, Multi(<<>>))
  <2>1. CASE p = <<0, 0>>
    BY <2>1, TransitionMembers
  <2>2. CASE p # <<0, 0>>
    <3>1. PICK h \in 0 .. Len(delim) - 1 : delim[h + 1] = c /\ p = <<h, h + 1>>
      BY <1>5, <2>2 DEF TransitionInit
    <3>. DEFINE s == <<h, h>>
    <3>2. s \in Multi(<<>>) /\ s[1] = h /\ s[2] = h /\ h < Len(delim)
      BY <1>1, <1>4
    <3>. HIDE DEF s
    <3>. QED BY <3>1, <3>2, TransitionMembers
  <2>. QED BY <2>1, <2>2
<1>6. ASSUME NEW p, p \in Transition(c, Multi(<<>>)) PROVE p \in TransitionInit(c)
  <2>1. CASE p = <<0, 0>>
    BY <2>1 DEF TransitionInit
  <2>2. CASE p # <<0, 0>>
    <3>1. PICK s \in Multi(<<>>) : s[2] < Len(delim) /\ delim[s[2] + 1] = c /\ p = <<s[1], s[2] + 1>>
      BY <1>6, <2>2, TransitionMembers
    <3>2. PICK h \in 0 .. Len(delim) : s = <<h, h>>
      BY <1>4
    <3>3. h \in 0 .. Len(delim) - 1 /\ delim[h + 1] = c /\ p = <<h, h + 1>>
      BY <1>1, <3>1, <3>2
    <3>. QED BY <3>3 DEF TransitionInit
  <2>. QED BY <2>1, <2>2
<1>7. TransitionInit(c) = Transition(c, Multi(<<>>))
  BY <1>5, <1>6
<1>8. Append(<<>>, c) = <<c>>
  OBVIOUS
<1>. QED BY <1>1, <1>7, <1>8, TransitionThrough

----------------------------------------------------------------------------
(* Two words, one after the other.                                         *)

\* Joining words is associative.
LEMMA WordsAssociative ==
  ASSUME NEW s \in Seq(Alphabet), NEW t \in Seq(Alphabet), NEW u \in Seq(Alphabet)
  PROVE  (s \o t) \o u = s \o (t \o u)
BY ConcatAssociative

\* Two words in a row.
LEMMA ConcatFacts ==
  ASSUME NEW u \in Seq(Alphabet), NEW v \in Seq(Alphabet)
  PROVE  /\ u \o v \in Seq(Alphabet) /\ Len(u) \in Nat /\ Len(v) \in Nat
         /\ Len(u \o v) = Len(u) + Len(v)
         /\ \A i \in 1 .. Len(u) : (u \o v)[i] = u[i]
         /\ \A i \in 1 .. Len(v) : (u \o v)[Len(u) + i] = v[i]
<1>1. /\ u \o v \in Seq(Alphabet) /\ Len(u) \in Nat /\ Len(v) \in Nat
      /\ Len(u \o v) = Len(u) + Len(v)
      /\ \A i \in 1 .. Len(u) + Len(v) :
           (u \o v)[i] = IF i <= Len(u) THEN u[i] ELSE v[i - Len(u)]
  BY ConcatProperties, LenProperties
<1>2. ASSUME NEW i \in 1 .. Len(v) PROVE (u \o v)[Len(u) + i] = v[i]
  <2>1. Len(u) + i \in 1 .. Len(u) + Len(v) /\ ~(Len(u) + i <= Len(u)) /\ (Len(u) + i) - Len(u) = i
    BY <1>1
  <2>. QED BY <1>1, <2>1
<1>3. \A i \in 1 .. Len(u) : i \in 1 .. Len(u) + Len(v) /\ i <= Len(u)
  BY <1>1
<1>. QED BY <1>1, <1>2, <1>3

\* The end of both: inside the second, or from inside the first through the second.
LEMMA SuffixConcat ==
  ASSUME DelimOK, NEW u \in Seq(Alphabet), NEW v \in Seq(Alphabet), NEW t \in 0 .. Len(delim)
  PROVE  Suffix(u \o v, t) <=> \/ Suffix(v, t)
                               \/ t >= Len(v) /\ Suffix(u, t - Len(v)) /\ Inner(v, t - Len(v))
<1>. DEFINE w == u \o v
            a == Len(u)
            b == Len(v)
<1>1. /\ a \in Nat /\ b \in Nat /\ Len(delim) \in Nat /\ Len(w) = a + b /\ t \in Nat
      /\ \A i \in 1 .. a : w[i] = u[i]
      /\ \A i \in 1 .. b : w[a + i] = v[i]
  BY ConcatFacts DEF DelimOK
<1>. HIDE DEF w
<1>2. ASSUME Suffix(w, t), t <= b PROVE Suffix(v, t)
  <2>1. ASSUME NEW i \in 1 .. t PROVE v[b - t + i] = delim[i]
    <3>1. b - t + i \in 1 .. b /\ Len(w) - t + i = a + (b - t + i)
      BY <1>1, <1>2
    <3>2. w[Len(w) - t + i] = delim[i]
      BY <1>2 DEF Suffix
    <3>. QED BY <1>1, <3>1, <3>2
  <2>. QED BY <1>1, <1>2, <2>1 DEF Suffix
<1>3. ASSUME Suffix(w, t), t >= b PROVE Suffix(u, t - b) /\ Inner(v, t - b)
  <2>0. t <= a + b /\ t - b \in Nat /\ t - b <= a
    BY <1>1, <1>3 DEF Suffix
  <2>1. ASSUME NEW i \in 1 .. t - b PROVE u[a - (t - b) + i] = delim[i]
    <3>1. /\ a - (t - b) + i \in 1 .. a /\ Len(w) - t + i = a - (t - b) + i /\ i \in 1 .. t
      BY <1>1, <1>3, <2>0
    <3>2. w[Len(w) - t + i] = delim[i]
      BY <1>3, <3>1 DEF Suffix
    <3>. QED BY <1>1, <3>1, <3>2
  <2>2. ASSUME NEW i \in 1 .. b PROVE v[i] = delim[t - b + i]
    <3>1. t - b + i \in 1 .. t /\ Len(w) - t + (t - b + i) = a + i
      BY <1>1, <1>3, <2>0
    <3>2. w[Len(w) - t + (t - b + i)] = delim[t - b + i]
      BY <1>3, <3>1 DEF Suffix
    <3>. QED BY <1>1, <3>1, <3>2
  <2>3. t - b + b <= Len(delim)
    BY <1>1
  <2>. QED BY <2>0, <2>1, <2>2, <2>3 DEF Suffix, Inner
<1>4. ASSUME Suffix(v, t) PROVE Suffix(w, t)
  <2>1. t <= b
    BY <1>4 DEF Suffix
  <2>2. ASSUME NEW i \in 1 .. t PROVE w[Len(w) - t + i] = delim[i]
    <3>1. b - t + i \in 1 .. b /\ Len(w) - t + i = a + (b - t + i)
      BY <1>1, <2>1
    <3>2. v[b - t + i] = delim[i]
      BY <1>4 DEF Suffix
    <3>. QED BY <1>1, <3>1, <3>2
  <2>3. t <= Len(w)
    BY <1>1, <2>1
  <2>. QED BY <2>2, <2>3 DEF Suffix
<1>5. ASSUME t >= b, Suffix(u, t - b), Inner(v, t - b) PROVE Suffix(w, t)
  <2>1. t - b \in Nat /\ t - b <= a
    BY <1>1, <1>5 DEF Suffix
  <2>2. ASSUME NEW i \in 1 .. t PROVE w[Len(w) - t + i] = delim[i]
    <3>1. CASE i <= t - b
      <4>1. i \in 1 .. t - b /\ a - (t - b) + i \in 1 .. a /\ Len(w) - t + i = a - (t - b) + i
        BY <1>1, <2>1, <3>1
      <4>2. u[a - (t - b) + i] = delim[i]
        BY <1>5, <4>1 DEF Suffix
      <4>. QED BY <1>1, <4>1, <4>2
    <3>2. CASE i > t - b
      <4>1. /\ i - (t - b) \in 1 .. b /\ Len(w) - t + i = a + (i - (t - b))
            /\ t - b + (i - (t - b)) = i
        BY <1>1, <2>1, <3>2
      <4>2. v[i - (t - b)] = delim[t - b + (i - (t - b))]
        BY <1>5, <4>1 DEF Inner
      <4>. QED BY <1>1, <4>1, <4>2
    <3>. QED BY <1>1, <2>1, <3>1, <3>2
  <2>3. t <= Len(w)
    BY <1>1, <2>1
  <2>. QED BY <2>2, <2>3 DEF Suffix
<1>6. t <= b \/ t >= b
  BY <1>1
<1>. QED BY <1>2, <1>3, <1>4, <1>5, <1>6 DEF w

\* A part of the delimiter that goes through both.
LEMMA InnerConcat ==
  ASSUME DelimOK, NEW u \in Seq(Alphabet), NEW v \in Seq(Alphabet), NEW h \in 0 .. Len(delim)
  PROVE  Inner(u \o v, h) <=> Inner(u, h) /\ Inner(v, h + Len(u))
<1>. DEFINE w == u \o v
            a == Len(u)
            b == Len(v)
<1>1. /\ a \in Nat /\ b \in Nat /\ Len(delim) \in Nat /\ Len(w) = a + b /\ h \in Nat
      /\ \A i \in 1 .. a : w[i] = u[i]
      /\ \A i \in 1 .. b : w[a + i] = v[i]
  BY ConcatFacts DEF DelimOK
<1>. HIDE DEF w
<1>2. ASSUME Inner(w, h) PROVE Inner(u, h) /\ Inner(v, h + a)
  <2>1. h + (a + b) <= Len(delim) /\ \A i \in 1 .. a + b : w[i] = delim[h + i]
    BY <1>1, <1>2 DEF Inner
  <2>2. ASSUME NEW i \in 1 .. a PROVE u[i] = delim[h + i]
    BY <1>1, <2>1
  <2>3. ASSUME NEW i \in 1 .. b PROVE v[i] = delim[h + a + i]
    <3>1. a + i \in 1 .. a + b /\ h + (a + i) = h + a + i
      BY <1>1
    <3>2. w[a + i] = delim[h + (a + i)]
      BY <2>1, <3>1
    <3>. QED BY <1>1, <3>1, <3>2
  <2>. QED BY <1>1, <2>1, <2>2, <2>3 DEF Inner
<1>3. ASSUME Inner(u, h), Inner(v, h + a) PROVE Inner(w, h)
  <2>1. /\ h + a + b <= Len(delim) /\ \A i \in 1 .. a : u[i] = delim[h + i]
        /\ \A i \in 1 .. b : v[i] = delim[h + a + i]
    BY <1>3 DEF Inner
  <2>2. ASSUME NEW i \in 1 .. a + b PROVE w[i] = delim[h + i]
    <3>1. CASE i <= a
      BY <1>1, <2>1, <3>1
    <3>2. CASE i > a
      <4>1. i - a \in 1 .. b /\ a + (i - a) = i /\ h + a + (i - a) = h + i
        BY <1>1, <3>2
      <4>2. w[a + (i - a)] = v[i - a] /\ v[i - a] = delim[h + a + (i - a)]
        BY <1>1, <2>1, <4>1
      <4>. QED BY <4>1, <4>2
    <3>. QED BY <1>1, <3>1, <3>2
  <2>. QED BY <1>1, <2>1, <2>2 DEF Inner
<1>. QED BY <1>2, <1>3 DEF w

\* What a sum of multistates has.
LEMMA JoinedMembers ==
  ASSUME NEW S, NEW T
  PROVE  \A p : p \in Joined(S, T)
                  <=> \E a \in S, b \in T : a[2] = b[1] /\ p = <<a[1], b[2]>>
<1>1. ASSUME NEW p, p \in Joined(S, T)
      PROVE  \E a \in S, b \in T : a[2] = b[1] /\ p = <<a[1], b[2]>>
  <2>1. PICK q \in S \X T : q[1][2] = q[2][1] /\ p = <<q[1][1], q[2][2]>>
    BY <1>1 DEF Joined
  <2>2. q[1] \in S /\ q[2] \in T
    OBVIOUS
  <2>. QED BY <2>1, <2>2
<1>2. ASSUME NEW p, NEW a \in S, NEW b \in T, a[2] = b[1], p = <<a[1], b[2]>>
      PROVE  p \in Joined(S, T)
  <2>. DEFINE q == <<a, b>>
  <2>1. q \in S \X T /\ q[1] = a /\ q[2] = b
    OBVIOUS
  <2>2. q[1][2] = q[2][1] /\ p = <<q[1][1], q[2][2]>>
    BY <1>2, <2>1
  <2>. HIDE DEF q
  <2>. QED BY <2>1, <2>2 DEF Joined
<1>. QED BY <1>1, <1>2

\* operator+: what is known after a word, joined with the multistate of the next.
LEMMA JoinedKnown ==
  ASSUME DelimOK, NEW u \in Seq(Alphabet), NEW v \in Seq(Alphabet)
  PROVE  Joined(Known(u), Multi(v)) = Known(u \o v)
<1>. DEFINE w == u \o v
<1>1. Len(delim) \in Nat /\ Len(u) \in Nat /\ Len(v) \in Nat
  BY LenProperties DEF DelimOK
<1>2. \A t \in 0 .. Len(delim) :
        Suffix(w, t) <=> \/ Suffix(v, t)
                         \/ t >= Len(v) /\ Suffix(u, t - Len(v)) /\ Inner(v, t - Len(v))
  BY SuffixConcat
<1>3. Suffix(u, 0)
  BY <1>1 DEF Suffix
<1>. HIDE DEF w
<1>4. ASSUME NEW p, p \in Joined(Known(u), Multi(v)) PROVE p \in Known(w)
  <2>1. PICK a \in Known(u), b \in Multi(v) : a[2] = b[1] /\ p = <<a[1], b[2]>>
    BY <1>4, JoinedMembers
  <2>2. PICK s \in 0 .. Len(delim) : Suffix(u, s) /\ a = <<0, s>>
    BY MultiMembers
  <2>3. CASE b \in Known(v)
    <3>1. PICK t \in 0 .. Len(delim) : Suffix(v, t) /\ b = <<0, t>>
      BY <2>3, MultiMembers
    <3>2. p = <<0, t>> /\ Suffix(w, t)
      BY <1>2, <2>1, <2>2, <3>1
    <3>. QED BY <3>2, MultiMembers
  <2>4. CASE b \in Through(v)
    <3>1. PICK h \in 0 .. Len(delim) : Inner(v, h) /\ b = <<h, h + Len(v)>>
      BY <2>4, MultiMembers
    <3>. DEFINE t == h + Len(v)
    <3>2. h = s /\ p = <<0, t>>
      BY <2>1, <2>2, <3>1
    <3>3. t \in 0 .. Len(delim) /\ t >= Len(v) /\ t - Len(v) = h
      BY <1>1, <3>1 DEF Inner
    <3>4. Suffix(w, t)
      BY <1>2, <2>2, <3>1, <3>2, <3>3
    <3>. QED BY <3>2, <3>3, <3>4, MultiMembers
  <2>. QED BY <2>3, <2>4, MultiMembers
<1>5. ASSUME NEW p, p \in Known(w) PROVE p \in Joined(Known(u), Multi(v))
  <2>1. PICK t \in 0 .. Len(delim) : Suffix(w, t) /\ p = <<0, t>>
    BY <1>5, MultiMembers
  <2>2. CASE Suffix(v, t)
    <3>. DEFINE a == <<0, 0>>
                b == <<0, t>>
    <3>1. a \in Known(u) /\ b \in Multi(v) /\ a[2] = b[1] /\ p = <<a[1], b[2]>>
      BY <1>1, <1>3, <2>1, <2>2, MultiMembers
    <3>. HIDE DEF a, b
    <3>. QED BY <3>1, JoinedMembers
  <2>3. CASE t >= Len(v) /\ Suffix(u, t - Len(v)) /\ Inner(v, t - Len(v))
    <3>. DEFINE h == t - Len(v)
                a == <<0, h>>
                b == <<h, h + Len(v)>>
    <3>1. h \in 0 .. Len(delim) /\ h + Len(v) = t
      BY <1>1, <2>3
    <3>2. a \in Known(u) /\ b \in Multi(v)
      BY <2>3, <3>1, MultiMembers
    <3>3. a[2] = b[1] /\ p = <<a[1], b[2]>>
      BY <2>1, <3>1
    <3>. HIDE DEF a, b
    <3>. QED BY <3>2, <3>3, JoinedMembers
  <2>. QED BY <1>2, <2>1, <2>2, <2>3
<1>. QED BY <1>4, <1>5 DEF w

\* operator+: the multistates of two words join to that of both.
LEMMA JoinedMulti ==
  ASSUME DelimOK, NEW u \in Seq(Alphabet), u # <<>>, NEW v \in Seq(Alphabet)
  PROVE  Joined(Multi(u), Multi(v)) = Multi(u \o v)
<1>. DEFINE w == u \o v
<1>1. Len(delim) \in Nat /\ Len(u) \in Nat \ {0} /\ Len(v) \in Nat /\ Len(w) = Len(u) + Len(v)
  BY LenProperties, EmptySeq, ConcatFacts DEF DelimOK
<1>2. \A h \in 0 .. Len(delim) : Inner(w, h) <=> Inner(u, h) /\ Inner(v, h + Len(u))
  BY InnerConcat
<1>3. Joined(Known(u), Multi(v)) = Known(w)
  BY JoinedKnown
<1>. HIDE DEF w
<1>4. ASSUME NEW p, p \in Joined(Through(u), Multi(v)) PROVE p \in Through(w)
  <2>1. PICK a \in Through(u), b \in Multi(v) : a[2] = b[1] /\ p = <<a[1], b[2]>>
    BY <1>4, JoinedMembers
  <2>2. PICK h \in 0 .. Len(delim) : Inner(u, h) /\ a = <<h, h + Len(u)>>
    BY MultiMembers
  <2>3. CASE b \in Known(v)
    <3>1. PICK t \in 0 .. Len(delim) : Suffix(v, t) /\ b = <<0, t>>
      BY <2>3, MultiMembers
    <3>2. h + Len(u) = 0
      BY <2>1, <2>2, <3>1
    <3>. QED BY <1>1, <3>2
  <2>4. CASE b \in Through(v)
    <3>1. PICK g \in 0 .. Len(delim) : Inner(v, g) /\ b = <<g, g + Len(v)>>
      BY <2>4, MultiMembers
    <3>2. g = h + Len(u) /\ p = <<h, g + Len(v)>>
      BY <2>1, <2>2, <3>1
    <3>3. Inner(w, h) /\ p = <<h, h + Len(w)>>
      BY <1>1, <1>2, <2>2, <3>1, <3>2
    <3>. QED BY <3>3, MultiMembers
  <2>. QED BY <2>3, <2>4, MultiMembers
<1>5. ASSUME NEW p, p \in Through(w) PROVE p \in Joined(Through(u), Multi(v))
  <2>1. PICK h \in 0 .. Len(delim) : Inner(w, h) /\ p = <<h, h + Len(w)>>
    BY <1>5, MultiMembers
  <2>. DEFINE g == h + Len(u)
              a == <<h, g>>
              b == <<g, g + Len(v)>>
  <2>2. Inner(u, h) /\ Inner(v, g) /\ g \in 0 .. Len(delim)
    <3>1. Inner(u, h) /\ Inner(v, g)
      BY <1>2, <2>1
    <3>. QED BY <1>1, <3>1 DEF Inner
  <2>3. a \in Through(u) /\ b \in Multi(v)
    BY <2>2, MultiMembers
  <2>4. a[2] = b[1] /\ p = <<a[1], b[2]>>
    BY <1>1, <2>1
  <2>. HIDE DEF a, b
  <2>. QED BY <2>3, <2>4, JoinedMembers
<1>6. Joined(Multi(u), Multi(v)) = Joined(Known(u), Multi(v)) \cup Joined(Through(u), Multi(v))
  <2>1. \A p : p \in Joined(Multi(u), Multi(v))
                 <=> p \in Joined(Known(u), Multi(v)) \/ p \in Joined(Through(u), Multi(v))
    BY JoinedMembers, MultiMembers
  <2>. QED BY <2>1
<1>. QED BY <1>3, <1>4, <1>5, <1>6 DEF w, Multi

----------------------------------------------------------------------------
(* The scans.                                                              *)

\* Multiples of a number.
LEMMA Multiples ==
  ASSUME NEW n \in Nat, NEW k \in Nat
  PROVE  /\ k * n \in Nat /\ (k + 1) * n = k * n + n
         /\ \A m \in Nat : k <= m => k * n <= m * n
<1>1. k * n \in Nat /\ (k + 1) * n = k * n + n
  OBVIOUS
<1>2. ASSUME NEW m \in Nat, k <= m PROVE k * n <= m * n
  <2>1. PICK d \in Nat : m = k + d
    <3>1. m - k \in Nat /\ m = k + (m - k)
      BY <1>2
    <3>. QED BY <3>1
  <2>2. m * n = k * n + d * n /\ d * n \in Nat
    BY <2>1
  <2>. QED BY <1>1, <2>2
<1>. QED BY <1>1, <1>2

\* Parts of a word.
LEMMA PartFacts ==
  ASSUME NEW s \in Seq(Alphabet), NEW a \in 0 .. Len(s), NEW b \in a .. Len(s)
  PROVE  /\ SubSeq(s, a + 1, b) \in Seq(Alphabet) /\ Len(SubSeq(s, a + 1, b)) = b - a
         /\ \A i \in 1 .. b - a : SubSeq(s, a + 1, b)[i] = s[a + i]
         /\ SubSeq(s, 1, a) \in Seq(Alphabet) /\ Len(SubSeq(s, 1, a)) = a
         /\ SubSeq(s, 1, a) \o SubSeq(s, a + 1, b) = SubSeq(s, 1, b)
<1>1. Len(s) \in Nat /\ a \in Nat /\ b \in Nat /\ a <= b /\ b <= Len(s)
  BY LenProperties
<1>2. \A i \in a + 1 .. b : s[i] \in Alphabet
  BY <1>1, ElementOfSeq
<1>3. /\ SubSeq(s, a + 1, b) \in Seq(Alphabet)
      /\ Len(SubSeq(s, a + 1, b)) = IF a + 1 <= b THEN b - (a + 1) + 1 ELSE 0
      /\ \A i \in 1 .. b - (a + 1) + 1 : SubSeq(s, a + 1, b)[i] = s[a + 1 + i - 1]
  BY <1>1, <1>2, SubSeqProperties
<1>4. \A i \in 1 .. a : s[i] \in Alphabet
  BY <1>1, ElementOfSeq
<1>5. SubSeq(s, 1, a) \in Seq(Alphabet) /\ Len(SubSeq(s, 1, a)) = IF 1 <= a THEN a - 1 + 1 ELSE 0
  BY <1>1, <1>4, SubSeqProperties
<1>6. SubSeq(s, 1, a) \o SubSeq(s, a + 1, b) = SubSeq(s, 1, b)
  <2>1. 1 \in 1 .. Len(s) + 1 /\ a \in 1 - 1 .. Len(s) /\ b \in a .. Len(s)
    BY <1>1
  <2>. QED BY <2>1, ConcatAdjacentSubSeq
<1>7. Len(SubSeq(s, a + 1, b)) = b - a /\ Len(SubSeq(s, 1, a)) = a
  BY <1>1, <1>3, <1>5
<1>8. \A i \in 1 .. b - a : i \in 1 .. b - (a + 1) + 1 /\ a + 1 + i - 1 = a + i
  BY <1>1
<1>. QED BY <1>3, <1>5, <1>6, <1>7, <1>8

\* One more character of a word.
LEMMA PartAppend ==
  ASSUME NEW s \in Seq(Alphabet), NEW a \in 0 .. Len(s) - 1
  PROVE  SubSeq(s, 1, a + 1) = Append(SubSeq(s, 1, a), s[a + 1]) /\ s[a + 1] \in Alphabet
<1>1. Len(s) \in Nat /\ a \in 0 .. Len(s) /\ a + 1 \in a .. Len(s) /\ a + 1 \in 1 .. Len(s)
  BY LenProperties
<1>. DEFINE p == SubSeq(s, a + 1, a + 1)
<1>2. /\ p \in Seq(Alphabet) /\ Len(p) = (a + 1) - a /\ \A i \in 1 .. (a + 1) - a : p[i] = s[a + i]
      /\ SubSeq(s, 1, a) \in Seq(Alphabet)
      /\ SubSeq(s, 1, a) \o p = SubSeq(s, 1, a + 1)
  BY <1>1, PartFacts
<1>3. s[a + 1] \in Alphabet
  BY <1>1, ElementOfSeq
<1>. HIDE DEF p
<1>4. p = <<s[a + 1]>>
  <2>1. Len(p) = 1 /\ p[1] = s[a + 1]
    BY <1>1, <1>2
  <2>2. <<s[a + 1]>> \in Seq(Alphabet) /\ Len(<<s[a + 1]>>) = 1 /\ <<s[a + 1]>>[1] = s[a + 1]
    BY <1>3
  <2>. HIDE DEF p
  <2>3. \A i \in 1 .. Len(p) : p[i] = <<s[a + 1]>>[i]
    BY <2>1, <2>2
  <2>. QED BY <1>2, <2>1, <2>2, <2>3, SeqEqual
<1>. QED BY <1>2, <1>3, <1>4, AppendIsConcat

\* The multistates of the first characters of a thread.
ThreadStates(chars, f) ==
  f = [i \in 1 .. Len(chars) |-> IF i = 1 THEN TransitionInit(chars[1])
                                 ELSE Transition(chars[i], f[i - 1])]

\* The multistate of a thread is that of its characters.
LEMMA StateOfIs ==
  ASSUME DelimOK, NEW chars \in Seq(Alphabet), chars # <<>>
  PROVE  StateOf(chars) = Multi(chars)
<1>. DEFINE n == Len(chars)
            g == [i \in 1 .. n |-> Multi(SubSeq(chars, 1, i))]
            h == CHOOSE f : ThreadStates(chars, f)
<1>1. n \in Nat \ {0} /\ \A i \in 1 .. n : chars[i] \in Alphabet
  BY LenProperties, EmptySeq, ElementOfSeq
<1>2. ASSUME NEW i \in 1 .. n
      PROVE  g[i] = IF i = 1 THEN TransitionInit(chars[1]) ELSE Transition(chars[i], g[i - 1])
  <2>1. CASE i = 1
    <3>1. SubSeq(chars, 1, 0 + 1) = Append(SubSeq(chars, 1, 0), chars[0 + 1])
      <4>1. 0 \in 0 .. Len(chars) - 1
        BY <1>1
      <4>. QED BY <4>1, PartAppend
    <3>5. SubSeq(chars, 1, 0) = <<>>
      BY SubSeqEmpty
    <3>2. \A c : Append(<<>>, c) = <<c>>
      OBVIOUS
    <3>3. g[1] = Multi(<<chars[1]>>)
      <4>1. SubSeq(chars, 1, 0 + 1) = <<chars[1]>>
        <5>1. SubSeq(chars, 1, 0 + 1) = Append(SubSeq(chars, 1, 0), chars[1])
          BY <3>1
        <5>. QED BY <3>5, <3>2, <5>1
      <4>2. SubSeq(chars, 1, 1) = <<chars[1]>>
        BY <4>1
      <4>3. g[1] = Multi(SubSeq(chars, 1, 1))
        BY <1>1
      <4>. QED BY <4>2, <4>3
    <3>4. chars[1] \in Alphabet
      BY <1>1
    <3>. QED BY <2>1, <3>3, <3>4, TransitionFirst
  <2>2. CASE i # 1
    <3>1. i - 1 \in 1 .. n /\ i - 1 \in 0 .. Len(chars) - 1 /\ i - 1 \in 0 .. Len(chars)
          /\ (i - 1) + 1 = i /\ n \in i - 1 .. Len(chars)
      BY <1>1, <2>2
    <3>. DEFINE w == SubSeq(chars, 1, i - 1)
    <3>2. SubSeq(chars, 1, i) = Append(w, chars[i]) /\ chars[i] \in Alphabet
      BY <3>1, PartAppend
    <3>3. w \in Seq(Alphabet)
      BY <3>1, PartFacts
    <3>4. g[i] = Multi(Append(w, chars[i])) /\ g[i - 1] = Multi(w)
      BY <3>1, <3>2
    <3>. HIDE DEF w, g
    <3>. QED BY <2>2, <3>2, <3>3, <3>4, TransitionThrough
  <2>. QED BY <2>1, <2>2
<1>3. ThreadStates(chars, g)
  <2>1. g = [i \in 1 .. n |-> g[i]]
    OBVIOUS
  <2>. HIDE DEF g
  <2>2. g = [i \in 1 .. n |-> IF i = 1 THEN TransitionInit(chars[1]) ELSE Transition(chars[i], g[i - 1])]
    BY <1>2, <2>1
  <2>. QED BY <2>2 DEF ThreadStates
<1>. HIDE DEF g
<1>4. ThreadStates(chars, h)
  BY <1>3
<1>5. StateOf(chars) = h[n]
  BY DEF StateOf, ThreadStates
<1>. HIDE DEF h
<1>. DEFINE S == {i \in Nat : i + 1 <= n => h[i + 1] = g[i + 1]}
<1>6. 0 \in S
  <2>1. 1 \in 1 .. n
    BY <1>1
  <2>2. h[1] = TransitionInit(chars[1])
    BY <1>4, <2>1 DEF ThreadStates
  <2>. QED BY <1>2, <2>1, <2>2
<1>7. ASSUME NEW i \in Nat, i \in S PROVE i + 1 \in S
  <2>. SUFFICES ASSUME (i + 1) + 1 <= n PROVE h[(i + 1) + 1] = g[(i + 1) + 1]
    OBVIOUS
  <2>. DEFINE k == (i + 1) + 1
  <2>1. k \in 1 .. n /\ k # 1 /\ k - 1 = i + 1 /\ i + 1 <= n
    BY <1>1
  <2>2. h[i + 1] = g[i + 1]
    BY <1>7, <2>1
  <2>. HIDE DEF k
  <2>3. h[k] = Transition(chars[k], h[k - 1])
    BY <1>4, <2>1 DEF ThreadStates
  <2>4. h[k] = g[k]
    BY <1>2, <2>1, <2>2, <2>3
  <2>. QED BY <2>4 DEF k
<1>8. Nat \subseteq S
  <2>. HIDE DEF S
  <2>. QED BY <1>6, <1>7, NatSetInduction
<1>9. n - 1 \in Nat /\ (n - 1) + 1 = n
  BY <1>1
<1>10. h[n] = g[n]
  BY <1>8, <1>9
<1>11. g[n] = Multi(chars)
  <2>1. n \in 1 .. n
    BY <1>1
  <2>2. SubSeq(chars, 1, n) = chars
    BY SubSeqFull
  <2>. QED BY <2>1, <2>2 DEF g
<1>. QED BY <1>5, <1>10, <1>11

\* The multistates before each thread of a tile.
TileSums(tile, f) ==
  f = [t \in 1 .. THREADS_PER_TILE |->
         IF t = 1 THEN StateOf(Part(tile, 0, ITEMS_PER_THREAD))
         ELSE Joined(f[t - 1], StateOf(Part(tile, t - 1, ITEMS_PER_THREAD)))]

\* The parts of a sequence whose length is a multiple of k.
IsPart(s, n, k, p) ==
  /\ n * k \in 0 .. Len(s) /\ n * k + k \in n * k .. Len(s) /\ (n + 1) * k = n * k + k
  /\ p = SubSeq(s, n * k + 1, n * k + k)
  /\ p \in Seq(Alphabet) /\ p # <<>> /\ Len(p) = k
  /\ \A i \in 1 .. k : p[i] = s[n * k + i]
  /\ SubSeq(s, 1, n * k) \o p = SubSeq(s, 1, (n + 1) * k)

\* A whole part has k elements.
LEMMA PartIs ==
  ASSUME NEW s \in Seq(Alphabet), NEW k \in Nat \ {0}, NEW m \in Nat, Len(s) = m * k,
         NEW n \in Nat, n < m
  PROVE  IsPart(s, n, k, Part(s, n, k))
<1>1. /\ n * k \in Nat /\ (n + 1) * k = n * k + k /\ n + 1 \in Nat /\ n + 1 <= m
  BY Multiples
<1>2. (n + 1) * k <= m * k
  BY <1>1, Multiples
<1>. DEFINE a == n * k
<1>3. a \in 0 .. Len(s) /\ a + k \in a .. Len(s) /\ a \in Nat
  BY <1>1, <1>2
<1>4. Part(s, n, k) = SubSeq(s, a + 1, a + k)
  BY <1>1 DEF Part
<1>5. /\ SubSeq(s, a + 1, a + k) \in Seq(Alphabet) /\ Len(SubSeq(s, a + 1, a + k)) = (a + k) - a
      /\ \A i \in 1 .. (a + k) - a : SubSeq(s, a + 1, a + k)[i] = s[a + i]
      /\ SubSeq(s, 1, a) \o SubSeq(s, a + 1, a + k) = SubSeq(s, 1, a + k)
  <2>. HIDE DEF a
  <2>. QED BY <1>3, PartFacts
<1>6. (a + k) - a = k
  BY <1>3
<1>7. Len(<<>>) # k
  OBVIOUS
<1>. HIDE DEF a
<1>8. Len(Part(s, n, k)) = k
  BY <1>4, <1>5, <1>6
<1>9. Part(s, n, k) # <<>>
  BY <1>7, <1>8
<1>. QED BY <1>1, <1>3, <1>4, <1>5, <1>6, <1>8, <1>9 DEF a, IsPart

\* The characters of a thread, and those before it.
LEMMA ThreadPart ==
  ASSUME DelimOK, NEW tile \in Seq(Alphabet), Len(tile) = ITEMS_PER_TILE,
         NEW u \in 0 .. THREADS_PER_TILE - 1
  PROVE  /\ IsPart(tile, u, ITEMS_PER_THREAD, Part(tile, u, ITEMS_PER_THREAD))
         /\ StateOf(Part(tile, u, ITEMS_PER_THREAD)) = Multi(Part(tile, u, ITEMS_PER_THREAD))
<1>1. /\ ITEMS_PER_THREAD \in Nat \ {0} /\ THREADS_PER_TILE \in Nat /\ u \in Nat
      /\ u < THREADS_PER_TILE /\ Len(tile) = THREADS_PER_TILE * ITEMS_PER_THREAD
  BY SplitAssumption DEF ITEMS_PER_TILE
<1>. DEFINE p == Part(tile, u, ITEMS_PER_THREAD)
<1>2. IsPart(tile, u, ITEMS_PER_THREAD, p)
  BY <1>1, PartIs
<1>3. StateOf(p) = Multi(p)
  <2>. HIDE DEF p
  <2>1. p \in Seq(Alphabet) /\ p # <<>>
    BY <1>2 DEF IsPart
  <2>. QED BY <2>1, StateOfIs
<1>. QED BY <1>2, <1>3

\* PatternScan: the sum before a thread is the multistate of the characters before it.
LEMMA BlockScanIs ==
  ASSUME DelimOK, NEW tile \in Seq(Alphabet), Len(tile) = ITEMS_PER_TILE,
         NEW t \in 1 .. THREADS_PER_TILE
  PROVE  BlockScan(tile)[t] = Multi(SubSeq(tile, 1, t * ITEMS_PER_THREAD))
<1>. DEFINE k == ITEMS_PER_THREAD
            n == THREADS_PER_TILE
            thread(u) == StateOf(Part(tile, u, k))
            g == [u \in 1 .. n |-> Multi(SubSeq(tile, 1, u * k))]
            h == CHOOSE f : TileSums(tile, f)
<1>1. k \in Nat \ {0} /\ n \in Nat \ {0} /\ Len(tile) = n * k
  BY SplitAssumption DEF ITEMS_PER_TILE
<1>2. \A u \in 0 .. n - 1 : u \in Nat /\ u < n
  BY <1>1
<1>. HIDE DEF k, n
<1>3. ASSUME NEW u \in 0 .. n - 1
      PROVE  /\ Part(tile, u, k) \in Seq(Alphabet) /\ thread(u) = Multi(Part(tile, u, k))
             /\ u * k \in 0 .. Len(tile) /\ (u + 1) * k = u * k + k
             /\ Part(tile, u, k) # <<>>
             /\ SubSeq(tile, 1, u * k) \o Part(tile, u, k) = SubSeq(tile, 1, (u + 1) * k)
  <2>1. /\ IsPart(tile, u, k, Part(tile, u, k))
        /\ StateOf(Part(tile, u, k)) = Multi(Part(tile, u, k))
    BY ThreadPart DEF k, n
  <2>. QED BY <2>1 DEF IsPart
<1>4. ASSUME NEW u \in 1 .. n
      PROVE  g[u] = IF u = 1 THEN thread(0) ELSE Joined(g[u - 1], thread(u - 1))
  <2>1. CASE u = 1
    <3>1. 0 \in 0 .. n - 1 /\ 0 * k = 0 /\ (0 + 1) * k = 1 * k
      BY <1>1
    <3>. DEFINE p == Part(tile, 0, k)
    <3>2. SubSeq(tile, 1, 0) \o p = SubSeq(tile, 1, 1 * k) /\ p \in Seq(Alphabet)
      BY <1>3, <3>1
    <3>3. SubSeq(tile, 1, 0) = <<>>
      BY SubSeqEmpty
    <3>4. SubSeq(tile, 1, 1 * k) = p
      BY <3>2, <3>3, ConcatEmptySeq
    <3>5. g[1] = Multi(p)
      BY <2>1, <3>4
    <3>. QED BY <1>3, <2>1, <3>1, <3>5
  <2>2. CASE u # 1
    <3>. DEFINE w == SubSeq(tile, 1, (u - 1) * k)
                p == Part(tile, u - 1, k)
    <3>1. u - 1 \in 0 .. n - 1 /\ u - 1 \in 1 .. n /\ (u - 1) + 1 = u
      BY <1>1, <2>2
    <3>2. /\ p \in Seq(Alphabet) /\ thread(u - 1) = Multi(p) /\ (u - 1) * k \in 0 .. Len(tile)
          /\ w \o p = SubSeq(tile, 1, u * k)
      BY <1>3, <3>1
    <3>3. w \in Seq(Alphabet) /\ Len(w) = (u - 1) * k
      <4>1. Len(tile) \in (u - 1) * k .. Len(tile)
        BY <3>2, LenProperties
      <4>. QED BY <3>2, <4>1, PartFacts
    <3>4. w # <<>>
      <4>1. 1 * k <= (u - 1) * k
        <5>1. u - 1 \in Nat /\ 1 <= u - 1
          BY <3>1
        <5>. QED BY <1>1, <5>1, Multiples
      <4>2. (u - 1) * k # 0
        BY <1>1, <4>1
      <4>3. Len(<<>>) = 0
        OBVIOUS
      <4>. QED BY <3>3, <4>2, <4>3
    <3>5. g[u - 1] = Multi(w) /\ g[u] = Multi(w \o p)
      BY <3>1, <3>2
    <3>. HIDE DEF w, p, g
    <3>6. Joined(Multi(w), Multi(p)) = Multi(w \o p)
      BY <3>2, <3>3, <3>4, JoinedMulti
    <3>. QED BY <2>2, <3>2, <3>5, <3>6
  <2>. QED BY <2>1, <2>2
<1>5. TileSums(tile, g)
  <2>. HIDE DEF g
  <2>1. g = [u \in 1 .. n |-> g[u]]
    BY DEF g
  <2>2. g = [u \in 1 .. n |-> IF u = 1 THEN thread(0) ELSE Joined(g[u - 1], thread(u - 1))]
    BY <1>4, <2>1
  <2>. QED BY <2>2 DEF TileSums, k, n
<1>. HIDE DEF g
<1>6. TileSums(tile, h)
  BY <1>5
<1>7. BlockScan(tile) = h
  BY DEF BlockScan, TileSums
<1>. HIDE DEF h
<1>8. \A u \in 1 .. n : h[u] = IF u = 1 THEN thread(0) ELSE Joined(h[u - 1], thread(u - 1))
  BY <1>6 DEF TileSums, k, n
<1>. HIDE DEF thread
<1>. DEFINE S == {i \in Nat : i + 1 <= n => h[i + 1] = g[i + 1]}
<1>9. 0 \in S
  <2>1. 1 \in 1 .. n
    BY <1>1
  <2>. QED BY <1>4, <1>8, <2>1
<1>10. ASSUME NEW i \in Nat, i \in S PROVE i + 1 \in S
  <2>. SUFFICES ASSUME (i + 1) + 1 <= n PROVE h[(i + 1) + 1] = g[(i + 1) + 1]
    OBVIOUS
  <2>. DEFINE u == (i + 1) + 1
  <2>1. u \in 1 .. n /\ u # 1 /\ u - 1 = i + 1 /\ i + 1 <= n
    BY <1>1
  <2>2. h[i + 1] = g[i + 1]
    BY <1>10, <2>1
  <2>. HIDE DEF u
  <2>3. h[u] = g[u]
    BY <1>4, <1>8, <2>1, <2>2
  <2>. QED BY <2>3 DEF u
<1>11. Nat \subseteq S
  <2>. HIDE DEF S
  <2>. QED BY <1>9, <1>10, NatSetInduction
<1>12. t - 1 \in Nat /\ (t - 1) + 1 = t /\ t <= n /\ t \in 1 .. n
  BY <1>1 DEF n
<1>13. h[t] = g[t]
  BY <1>11, <1>12
<1>. QED BY <1>7, <1>12, <1>13 DEF g, k

\* The tiles of a launch, and the multistate of each.
LEMMA TileIs ==
  ASSUME DelimOK, NEW chars \in Seq(Alphabet), NEW tiles \in Nat,
         Len(chars) = tiles * ITEMS_PER_TILE, NEW k \in 0 .. tiles - 1
  PROVE  /\ IsPart(chars, k, ITEMS_PER_TILE, Part(chars, k, ITEMS_PER_TILE))
         /\ BlockScan(Part(chars, k, ITEMS_PER_TILE))[THREADS_PER_TILE]
              = Multi(Part(chars, k, ITEMS_PER_TILE))
<1>1. /\ ITEMS_PER_TILE \in Nat \ {0} /\ k \in Nat /\ k < tiles
      /\ THREADS_PER_TILE \in 1 .. THREADS_PER_TILE
      /\ ITEMS_PER_TILE = THREADS_PER_TILE * ITEMS_PER_THREAD
  BY SplitAssumption DEF ITEMS_PER_TILE
<1>. DEFINE tile == Part(chars, k, ITEMS_PER_TILE)
<1>2. IsPart(chars, k, ITEMS_PER_TILE, tile)
  BY <1>1, PartIs
<1>3. tile \in Seq(Alphabet) /\ Len(tile) = ITEMS_PER_TILE
  BY <1>2 DEF IsPart
<1>. HIDE DEF tile
<1>4. BlockScan(tile)[THREADS_PER_TILE]
        = Multi(SubSeq(tile, 1, THREADS_PER_TILE * ITEMS_PER_THREAD))
  BY <1>1, <1>3, BlockScanIs
<1>5. SubSeq(tile, 1, THREADS_PER_TILE * ITEMS_PER_THREAD) = tile
  BY <1>1, <1>3, SubSeqFull
<1>. QED BY <1>2, <1>4, <1>5 DEF tile

\* The multistates before each tile of a launch.
TileStates(chars, tiles, f) ==
  f = [k \in 0 .. tiles |->
         IF k = 0 THEN carry
         ELSE Joined(f[k - 1], BlockScan(Part(chars, k - 1, ITEMS_PER_TILE))[THREADS_PER_TILE])]

\* The prefix of a tile is what is known after all characters before it.
LEMMA TilePrefixIs ==
  ASSUME DelimOK, NEW w \in Seq(Alphabet), carry = Known(w), NEW chars \in Seq(Alphabet),
         NEW tiles \in Nat, Len(chars) = tiles * ITEMS_PER_TILE, NEW k \in 0 .. tiles
  PROVE  /\ TilePrefix(chars, tiles)[k] = Known(w \o SubSeq(chars, 1, k * ITEMS_PER_TILE))
         /\ SubSeq(chars, 1, k * ITEMS_PER_TILE) \in Seq(Alphabet)
         /\ Len(SubSeq(chars, 1, k * ITEMS_PER_TILE)) = k * ITEMS_PER_TILE
         /\ k * ITEMS_PER_TILE \in 0 .. Len(chars)
<1>. DEFINE P == ITEMS_PER_TILE
            first(j) == SubSeq(chars, 1, j * P)
            tile(j) == Part(chars, j, P)
            total(j) == BlockScan(tile(j))[THREADS_PER_TILE]
            h == CHOOSE f : TileStates(chars, tiles, f)
            g == [j \in 0 .. tiles |-> Known(w \o first(j))]
<1>1. P \in Nat \ {0} /\ Len(chars) = tiles * P /\ Len(chars) \in Nat
  BY SplitAssumption, LenProperties DEF ITEMS_PER_TILE
<1>. HIDE DEF P
<1>2. ASSUME NEW j \in 0 .. tiles - 1
      PROVE  /\ tile(j) \in Seq(Alphabet) /\ total(j) = Multi(tile(j))
             /\ first(j) \o tile(j) = first(j + 1)
  <2>1. IsPart(chars, j, P, tile(j)) /\ total(j) = Multi(tile(j))
    BY TileIs DEF P
  <2>. QED BY <2>1 DEF IsPart
<1>3. ASSUME NEW j \in 0 .. tiles
      PROVE  first(j) \in Seq(Alphabet) /\ Len(first(j)) = j * P /\ j * P \in 0 .. Len(chars)
  <2>1. j * P \in Nat /\ j * P <= tiles * P
    BY <1>1, Multiples
  <2>. DEFINE a == j * P
  <2>2. a \in 0 .. Len(chars) /\ Len(chars) \in a .. Len(chars)
    BY <1>1, <2>1
  <2>. HIDE DEF a
  <2>3. SubSeq(chars, 1, a) \in Seq(Alphabet) /\ Len(SubSeq(chars, 1, a)) = a
    BY <2>2, PartFacts
  <2>. QED BY <2>2, <2>3 DEF a
<1>4. first(0) = <<>>
  <2>1. 0 * P = 0
    BY <1>1
  <2>. QED BY <2>1, SubSeqEmpty
<1>. HIDE DEF first, tile, total
<1>5. ASSUME NEW j \in 0 .. tiles
      PROVE  g[j] = IF j = 0 THEN carry ELSE Joined(g[j - 1], total(j - 1))
  <2>1. CASE j = 0
    <3>1. w \o <<>> = w
      BY ConcatEmptySeq
    <3>2. g[0] = Known(w \o first(0))
      BY <2>1
    <3>3. g[0] = Known(w)
      BY <1>4, <3>1, <3>2
    <3>. QED BY <2>1, <3>3
  <2>2. CASE j # 0
    <3>1. j - 1 \in 0 .. tiles - 1 /\ j - 1 \in 0 .. tiles /\ (j - 1) + 1 = j
      BY <2>2
    <3>. DEFINE u == first(j - 1)
                v == tile(j - 1)
    <3>2. u \in Seq(Alphabet) /\ v \in Seq(Alphabet) /\ total(j - 1) = Multi(v)
          /\ first(j) = u \o v
      BY <1>2, <1>3, <3>1
    <3>3. g[j - 1] = Known(w \o u) /\ g[j] = Known(w \o first(j))
      BY <3>1
    <3>. HIDE DEF u, v, g
    <3>4. w \o u \in Seq(Alphabet) /\ (w \o u) \o v = w \o (u \o v)
      <4>1. w \o u \in Seq(Alphabet)
        BY <3>2, ConcatFacts
      <4>2. (w \o u) \o v = w \o (u \o v)
        BY <3>2, WordsAssociative
      <4>. QED BY <4>1, <4>2
    <3>5. Joined(Known(w \o u), Multi(v)) = Known((w \o u) \o v)
      BY <3>2, <3>4, JoinedKnown
    <3>. QED BY <2>2, <3>2, <3>3, <3>4, <3>5
  <2>. QED BY <2>1, <2>2
<1>6. TileStates(chars, tiles, g)
  <2>1. g = [j \in 0 .. tiles |-> g[j]]
    OBVIOUS
  <2>. HIDE DEF g
  <2>2. g = [j \in 0 .. tiles |-> IF j = 0 THEN carry ELSE Joined(g[j - 1], total(j - 1))]
    BY <1>5, <2>1
  <2>. QED BY <2>2 DEF TileStates, total, tile, P
<1>. HIDE DEF g
<1>7. TileStates(chars, tiles, h)
  BY <1>6
<1>8. TilePrefix(chars, tiles) = h
  BY DEF TilePrefix, TileStates
<1>. HIDE DEF h
<1>9. \A j \in 0 .. tiles : h[j] = IF j = 0 THEN carry ELSE Joined(h[j - 1], total(j - 1))
  BY <1>7 DEF TileStates, total, tile, P
<1>. DEFINE S == {i \in Nat : i <= tiles => h[i] = g[i]}
<1>10. 0 \in S
  <2>1. 0 \in 0 .. tiles
    OBVIOUS
  <2>. QED BY <1>5, <1>9, <2>1
<1>11. ASSUME NEW i \in Nat, i \in S PROVE i + 1 \in S
  <2>. SUFFICES ASSUME i + 1 <= tiles PROVE h[i + 1] = g[i + 1]
    OBVIOUS
  <2>. DEFINE u == i + 1
  <2>1. u \in 0 .. tiles /\ u # 0 /\ u - 1 = i /\ i <= tiles
    OBVIOUS
  <2>2. h[i] = g[i]
    BY <1>11, <2>1
  <2>. HIDE DEF u
  <2>3. h[u] = g[u]
    BY <1>5, <1>9, <2>1, <2>2
  <2>. QED BY <2>3 DEF u
<1>12. Nat \subseteq S
  <2>. HIDE DEF S
  <2>. QED BY <1>10, <1>11, NatSetInduction
<1>13. h[k] = g[k]
  BY <1>12
<1>14. g[k] = Known(w \o first(k))
  BY DEF g
<1>15. TilePrefix(chars, tiles)[k] = Known(w \o first(k))
  BY <1>8, <1>13, <1>14
<1>. QED BY <1>3, <1>15 DEF first, P

\* The greatest of some numbers.
LEMMA GreatestExists ==
  ASSUME NEW n \in Nat, NEW S \in SUBSET (0 .. n), S # {}
  PROVE  \E m \in S : \A k \in S : k <= m
<1>. DEFINE T == {i \in Nat : \A U \in SUBSET (0 .. i) : U # {} => \E m \in U : \A k \in U : k <= m}
<1>1. 0 \in T
  <2>. SUFFICES ASSUME NEW U \in SUBSET (0 .. 0), U # {}
                PROVE  \E m \in U : \A k \in U : k <= m
    OBVIOUS
  <2>1. PICK m \in U : TRUE
    OBVIOUS
  <2>2. \A k \in U : k = 0
    OBVIOUS
  <2>. QED BY <2>1, <2>2
<1>2. ASSUME NEW i \in Nat, i \in T PROVE i + 1 \in T
  <2>. SUFFICES ASSUME NEW U \in SUBSET (0 .. i + 1), U # {}
                PROVE  \E m \in U : \A k \in U : k <= m
    OBVIOUS
  <2>1. CASE i + 1 \in U
    BY <2>1
  <2>2. CASE i + 1 \notin U
    <3>1. U \in SUBSET (0 .. i)
      BY <2>2
    <3>. QED BY <1>2, <3>1
  <2>. QED BY <2>1, <2>2
<1>3. Nat \subseteq T
  <2>. HIDE DEF T
  <2>. QED BY <1>1, <1>2, NatSetInduction
<1>. QED BY <1>3

\* A delimiter is complete exactly where a word ends with it.
LEMMA MaxTailIs ==
  ASSUME DelimOK, NEW w \in Seq(Alphabet)
  PROVE  MaxTail(Known(w)) = Len(delim) <=> Suffix(w, Len(delim))
<1>. DEFINE T == {s[2] : s \in Known(w)}
            L == Len(delim)
<1>1. L \in Nat /\ Len(w) \in Nat
  BY LenProperties DEF DelimOK
<1>2. T = {t \in 0 .. L : Suffix(w, t)}
  <2>1. ASSUME NEW x \in T PROVE x \in 0 .. L /\ Suffix(w, x)
    <3>1. PICK s \in Known(w) : x = s[2]
      OBVIOUS
    <3>2. PICK t \in 0 .. L : Suffix(w, t) /\ s = <<0, t>>
      BY MultiMembers
    <3>. QED BY <3>1, <3>2
  <2>2. ASSUME NEW t \in 0 .. L, Suffix(w, t) PROVE t \in T
    <3>. DEFINE s == <<0, t>>
    <3>1. s \in Known(w) /\ s[2] = t
      BY <2>2, MultiMembers
    <3>. HIDE DEF s
    <3>. QED BY <3>1
  <2>. QED BY <2>1, <2>2
<1>3. MaxTail(Known(w)) = CHOOSE n \in T : \A s \in Known(w) : s[2] <= n
  BY DEF MaxTail
<1>4. \A n : (\A s \in Known(w) : s[2] <= n) <=> (\A x \in T : x <= n)
  OBVIOUS
<1>. HIDE DEF T
<1>5. 0 \in T
  BY <1>1, <1>2 DEF Suffix
<1>6. T \in SUBSET (0 .. L) /\ T # {}
  BY <1>2, <1>5
<1>7. \E m \in T : \A x \in T : x <= m
  BY <1>1, <1>6, GreatestExists
<1>8. MaxTail(Known(w)) \in T /\ \A x \in T : x <= MaxTail(Known(w))
  BY <1>3, <1>4, <1>7
<1>9. ASSUME Suffix(w, L) PROVE MaxTail(Known(w)) = L
  BY <1>1, <1>2, <1>8, <1>9
<1>. QED BY <1>2, <1>8, <1>9

----------------------------------------------------------------------------
(* The kernel.                                                             *)

\* The multistates of a thread as it goes through its items, and its matches.
ItemStates(prefix, tile, t, f) ==
  f = [i \in 0 .. ITEMS_PER_THREAD |->
         IF i = 0 THEN ThreadPrefix(prefix, tile, t)
         ELSE Transition(Part(tile, t, ITEMS_PER_THREAD)[i], f[i - 1])]
Items(prefix, tile, t) == CHOOSE f : ItemStates(prefix, tile, t, f)

ThreadMatches(chars, length, tiles, k, t) ==
  {k * ITEMS_PER_TILE + t * ITEMS_PER_THREAD + i : i \in
     {j \in 1 .. ITEMS_PER_THREAD :
        /\ k * ITEMS_PER_TILE + t * ITEMS_PER_THREAD + j <= length
        /\ MaxTail(Items(TilePrefix(chars, tiles)[k], Part(chars, k, ITEMS_PER_TILE), t)[j])
             = Len(delim)}}

\* The matches of a launch are those of its threads.
LEMMA KernelForm ==
  ASSUME NEW chars, NEW length
  PROVE  KernelMatches(chars, length) =
           UNION {ThreadMatches(chars, length, Len(chars) \div ITEMS_PER_TILE, k, t) :
                    k \in 0 .. (Len(chars) \div ITEMS_PER_TILE) - 1, t \in 0 .. THREADS_PER_TILE - 1}
BY DEF KernelMatches, ThreadMatches, Items, ItemStates

\* A thread starts from what is known after all characters before it.
LEMMA ThreadPrefixIs ==
  ASSUME DelimOK, NEW w \in Seq(Alphabet), carry = Known(w), NEW chars \in Seq(Alphabet),
         NEW tiles \in Nat, Len(chars) = tiles * ITEMS_PER_TILE, NEW k \in 0 .. tiles - 1,
         NEW t \in 0 .. THREADS_PER_TILE - 1
  PROVE  LET base == k * ITEMS_PER_TILE + t * ITEMS_PER_THREAD
             tile == Part(chars, k, ITEMS_PER_TILE)
         IN /\ ThreadPrefix(TilePrefix(chars, tiles)[k], tile, t)
                 = Known(w \o SubSeq(chars, 1, base))
            /\ base \in Nat /\ base + ITEMS_PER_THREAD <= Len(chars)
            /\ \A i \in 1 .. ITEMS_PER_THREAD :
                 Part(tile, t, ITEMS_PER_THREAD)[i] = chars[base + i]
<1>. DEFINE P == ITEMS_PER_TILE
            I == ITEMS_PER_THREAD
            tile == Part(chars, k, P)
            a == k * P
            b == t * I
            u == SubSeq(chars, 1, a)
            v == SubSeq(tile, 1, b)
            prefix == TilePrefix(chars, tiles)[k]
<1>1. P \in Nat \ {0} /\ I \in Nat \ {0} /\ Len(chars) \in Nat
  BY SplitAssumption, LenProperties DEF ITEMS_PER_TILE
<1>2. k \in 0 .. tiles /\ IsPart(chars, k, P, tile)
  BY TileIs
<1>3. prefix = Known(w \o u) /\ u \in Seq(Alphabet) /\ a \in 0 .. Len(chars)
  BY <1>2, TilePrefixIs
<1>4. /\ tile \in Seq(Alphabet) /\ Len(tile) = P /\ a + P <= Len(chars)
      /\ \A i \in 1 .. P : tile[i] = chars[a + i]
      /\ tile = SubSeq(chars, a + 1, a + P) /\ a + P \in a .. Len(chars)
  BY <1>1, <1>2 DEF IsPart
<1>5. IsPart(tile, t, I, Part(tile, t, I))
  BY <1>4, ThreadPart
<1>6. /\ b \in 0 .. P /\ b + I \in b .. P /\ b \in Nat
      /\ \A i \in 1 .. I : Part(tile, t, I)[i] = tile[b + i]
  <2>1. /\ b \in 0 .. Len(tile) /\ b + I \in b .. Len(tile)
        /\ \A i \in 1 .. I : Part(tile, t, I)[i] = tile[b + i]
    BY <1>5 DEF IsPart
  <2>. HIDE DEF b, tile, P, I
  <2>2. Len(tile) = P
    BY <1>4
  <2>3. b \in 0 .. P /\ b + I \in b .. P
    BY <2>1, <2>2
  <2>. QED BY <1>1, <2>1, <2>3
<1>. HIDE DEF P, I, tile, a, b, u, v, prefix
<1>7. v \in Seq(Alphabet) /\ Len(v) = b /\ \A i \in 1 .. b : v[i] = tile[i]
  <2>1. b \in 0 .. Len(tile) /\ b \in 0 .. b /\ P \in b .. Len(tile)
    BY <1>1, <1>4, <1>6
  <2>2. v \in Seq(Alphabet) /\ Len(v) = b
    BY <1>4, <2>1, PartFacts DEF v
  <2>3. 0 \in 0 .. Len(tile) /\ b \in 0 .. Len(tile) /\ b - 0 = b
    BY <2>1, <1>6
  <2>4. \A i \in 1 .. b - 0 : SubSeq(tile, 0 + 1, b)[i] = tile[0 + i]
    BY <1>4, <2>3, PartFacts
  <2>5. \A i \in 1 .. b : v[i] = tile[i]
    BY <1>6, <2>4 DEF v
  <2>. QED BY <2>2, <2>5
<1>8. a \in Nat /\ a + b \in 0 .. Len(chars) /\ a + b \in a .. Len(chars) /\ a + b + I <= Len(chars)
  BY <1>1, <1>3, <1>4, <1>6
<1>9. u \o v = SubSeq(chars, 1, a + b)
  <2>. DEFINE r == SubSeq(chars, a + 1, a + b)
  <2>1. /\ r \in Seq(Alphabet) /\ Len(r) = (a + b) - a
        /\ \A i \in 1 .. (a + b) - a : r[i] = chars[a + i]
        /\ u \o r = SubSeq(chars, 1, a + b)
    BY <1>3, <1>8, PartFacts DEF u
  <2>2. (a + b) - a = b /\ \A i \in 1 .. b : i \in 1 .. P
    BY <1>1, <1>6, <1>8
  <2>. HIDE DEF r
  <2>3. \A i \in 1 .. b : v[i] = r[i]
    BY <1>4, <1>7, <2>1, <2>2
  <2>4. v = r
    BY <1>7, <2>1, <2>2, <2>3, SeqEqual
  <2>. QED BY <2>1, <2>4
<1>10. ThreadPrefix(prefix, tile, t) = Known(w \o SubSeq(chars, 1, a + b))
  <2>1. CASE t = 0
    <3>1. b = 0
      BY <1>1, <2>1 DEF b
    <3>2. a + b = a
      BY <1>8, <3>1
    <3>3. ThreadPrefix(prefix, tile, t) = prefix
      BY <2>1 DEF ThreadPrefix
    <3>. QED BY <1>3, <3>2, <3>3 DEF u
  <2>2. CASE t # 0
    <3>1. t \in 1 .. THREADS_PER_TILE
      BY <2>2, SplitAssumption
    <3>2. BlockScan(tile)[t] = Multi(v)
      BY <1>4, <3>1, BlockScanIs DEF v, b, I, P
    <3>3. ThreadPrefix(prefix, tile, t) = Joined(prefix, Multi(v))
      BY <2>2, <3>2 DEF ThreadPrefix
    <3>4. w \o u \in Seq(Alphabet) /\ (w \o u) \o v = w \o (u \o v)
      <4>1. u \in Seq(Alphabet) /\ v \in Seq(Alphabet)
        BY <1>3, <1>7
      <4>2. w \o u \in Seq(Alphabet)
        BY <4>1, ConcatFacts
      <4>3. (w \o u) \o v = w \o (u \o v)
        BY <4>1, WordsAssociative
      <4>. QED BY <4>2, <4>3
    <3>5. Joined(Known(w \o u), Multi(v)) = Known((w \o u) \o v)
      BY <1>7, <3>4, JoinedKnown
    <3>. QED BY <1>3, <1>9, <3>3, <3>4, <3>5
  <2>. QED BY <2>1, <2>2
<1>11. ASSUME NEW i \in 1 .. I PROVE Part(tile, t, I)[i] = chars[a + b + i]
  <2>1. b + i \in 1 .. P /\ a + (b + i) = a + b + i
    BY <1>1, <1>6, <1>8
  <2>2. Part(tile, t, I)[i] = tile[b + i]
    BY <1>6
  <2>3. tile[b + i] = chars[a + (b + i)]
    BY <1>4, <2>1
  <2>. QED BY <2>1, <2>2, <2>3
<1>. QED BY <1>8, <1>10, <1>11 DEF P, I, a, b, tile, prefix

\* What a thread knows after each of its items.
LEMMA ItemsAre ==
  ASSUME DelimOK, NEW w \in Seq(Alphabet), carry = Known(w), NEW chars \in Seq(Alphabet),
         NEW tiles \in Nat, Len(chars) = tiles * ITEMS_PER_TILE, NEW k \in 0 .. tiles - 1,
         NEW t \in 0 .. THREADS_PER_TILE - 1, NEW i \in 0 .. ITEMS_PER_THREAD
  PROVE  Items(TilePrefix(chars, tiles)[k], Part(chars, k, ITEMS_PER_TILE), t)[i]
           = Known(w \o SubSeq(chars, 1, k * ITEMS_PER_TILE + t * ITEMS_PER_THREAD + i))
<1>. DEFINE I == ITEMS_PER_THREAD
            base == k * ITEMS_PER_TILE + t * ITEMS_PER_THREAD
            tile == Part(chars, k, ITEMS_PER_TILE)
            prefix == TilePrefix(chars, tiles)[k]
            start == ThreadPrefix(prefix, tile, t)
            mine == Part(tile, t, I)
            g == [j \in 0 .. I |-> Known(w \o SubSeq(chars, 1, base + j))]
            h == Items(prefix, tile, t)
<1>1. /\ start = Known(w \o SubSeq(chars, 1, base))
      /\ base \in Nat /\ base + I <= Len(chars)
      /\ \A j \in 1 .. I : mine[j] = chars[base + j]
  BY ThreadPrefixIs
<1>2. I \in Nat \ {0} /\ Len(chars) \in Nat
  BY SplitAssumption, LenProperties
<1>. HIDE DEF I, base, tile, prefix, start, mine
<1>3. ASSUME NEW j \in 0 .. I
      PROVE  g[j] = IF j = 0 THEN start ELSE Transition(mine[j], g[j - 1])
  <2>1. CASE j = 0
    <3>1. base + 0 = base
      BY <1>1
    <3>2. g[0] = Known(w \o SubSeq(chars, 1, base + 0))
      BY <1>2
    <3>. QED BY <1>1, <2>1, <3>1, <3>2
  <2>2. CASE j # 0
    <3>. DEFINE n == base + (j - 1)
                u == SubSeq(chars, 1, n)
                c == chars[n + 1]
    <3>1. /\ j - 1 \in 0 .. I /\ j \in 1 .. I /\ n \in 0 .. Len(chars) - 1 /\ n + 1 = base + j
          /\ n \in 0 .. Len(chars) /\ Len(chars) \in n .. Len(chars)
      BY <1>1, <1>2, <2>2
    <3>2. g[j - 1] = Known(w \o u) /\ g[j] = Known(w \o SubSeq(chars, 1, base + j))
      BY <3>1
    <3>. HIDE DEF n, g
    <3>3. SubSeq(chars, 1, n + 1) = Append(u, c) /\ c \in Alphabet
      BY <3>1, PartAppend
    <3>4. u \in Seq(Alphabet)
      BY <3>1, PartFacts
    <3>. HIDE DEF u, c
    <3>5. w \o Append(u, c) = Append(w \o u, c) /\ w \o u \in Seq(Alphabet)
      <4>1. <<c>> \in Seq(Alphabet) /\ w \o u \in Seq(Alphabet)
        BY <3>3, <3>4, ConcatProperties
      <4>2. Append(u, c) = u \o <<c>> /\ Append(w \o u, c) = (w \o u) \o <<c>>
        BY <3>3, <3>4, <4>1, AppendIsConcat
      <4>3. (w \o u) \o <<c>> = w \o (u \o <<c>>)
        BY <3>4, <4>1, WordsAssociative
      <4>. QED BY <4>1, <4>2, <4>3
    <3>6. Transition(c, Known(w \o u)) = Known(Append(w \o u, c))
      BY <3>3, <3>5, TransitionKnown
    <3>7. mine[j] = c
      BY <1>1, <3>1 DEF c
    <3>. QED BY <2>2, <3>1, <3>2, <3>3, <3>5, <3>6, <3>7
  <2>. QED BY <2>1, <2>2
<1>4. ItemStates(prefix, tile, t, g)
  <2>1. g = [j \in 0 .. I |-> g[j]]
    OBVIOUS
  <2>. HIDE DEF g
  <2>2. g = [j \in 0 .. I |-> IF j = 0 THEN start ELSE Transition(mine[j], g[j - 1])]
    BY <1>3, <2>1
  <2>. QED BY <2>2 DEF ItemStates, start, mine, I
<1>. HIDE DEF g
<1>5. ItemStates(prefix, tile, t, h)
  BY <1>4 DEF Items
<1>. HIDE DEF h
<1>6. \A j \in 0 .. I : h[j] = IF j = 0 THEN start ELSE Transition(mine[j], h[j - 1])
  BY <1>5 DEF ItemStates, start, mine, I
<1>. DEFINE S == {j \in Nat : j <= I => h[j] = g[j]}
<1>7. 0 \in S
  <2>1. 0 \in 0 .. I
    BY <1>2
  <2>. QED BY <1>3, <1>6, <2>1
<1>8. ASSUME NEW j \in Nat, j \in S PROVE j + 1 \in S
  <2>. SUFFICES ASSUME j + 1 <= I PROVE h[j + 1] = g[j + 1]
    OBVIOUS
  <2>. DEFINE u == j + 1
  <2>1. u \in 0 .. I /\ u # 0 /\ u - 1 = j /\ j <= I
    BY <1>2
  <2>2. h[j] = g[j]
    BY <1>8, <2>1
  <2>. HIDE DEF u
  <2>3. h[u] = g[u]
    BY <1>3, <1>6, <2>1, <2>2
  <2>. QED BY <2>3 DEF u
<1>9. Nat \subseteq S
  <2>. HIDE DEF S
  <2>. QED BY <1>7, <1>8, NatSetInduction
<1>10. i \in Nat /\ i <= I /\ i \in 0 .. I
  BY <1>2 DEF I
<1>11. h[i] = g[i]
  BY <1>9, <1>10
<1>. QED BY <1>10, <1>11 DEF g, h, base, prefix, tile

\* Which part a place is in, and where in the part.
LEMMA PlaceIn ==
  ASSUME NEW n \in Nat \ {0}, NEW m \in Nat, NEW x \in Nat, x < m * n
  PROVE  \E k \in 0 .. m - 1, r \in 0 .. n - 1 : x = k * n + r
<1>. DEFINE k == x \div n
            r == x % n
<1>1. k \in Int /\ r \in 0 .. n - 1 /\ x = n * k + r
  OBVIOUS
<1>. HIDE DEF k, r
<1>2. k >= 0
  <2>1. SUFFICES ASSUME k <= -1 PROVE FALSE
    BY <1>1
  <2>2. n * k <= -n
    <3>1. PICK d \in Nat : k = -1 - d
      <4>1. -1 - k \in Nat /\ k = -1 - (-1 - k)
        BY <1>1, <2>1
      <4>. QED BY <4>1
    <3>2. n * k = -n - n * d /\ n * d \in Nat
      BY <3>1
    <3>. QED BY <3>2
  <2>3. n * k \in Int
    BY <1>1
  <2>. QED BY <1>1, <2>2, <2>3
<1>3. k < m
  <2>1. SUFFICES ASSUME m <= k PROVE FALSE
    BY <1>1
  <2>2. m * n <= k * n
    BY <1>1, <1>2, <2>1, Multiples
  <2>3. k * n = n * k /\ n * k \in Int /\ m * n \in Int
    BY <1>1
  <2>. QED BY <1>1, <2>2, <2>3
<1>4. k * n = n * k /\ k \in 0 .. m - 1
  BY <1>1, <1>2, <1>3
<1>. QED BY <1>1, <1>4

\* A multiple divided.
LEMMA WholeParts ==
  ASSUME NEW n \in Nat \ {0}, NEW m \in Nat
  PROVE  (m * n) \div n = m
<1>. DEFINE k == (m * n) \div n
            r == (m * n) % n
<1>1. k \in Int /\ r \in 0 .. n - 1 /\ m * n = n * k + r /\ m * n \in Int
  OBVIOUS
<1>. HIDE DEF k, r
<1>2. n * (m - k) = r
  BY <1>1
<1>3. m - k = 0
  <2>. DEFINE d == m - k
  <2>0. d \in Int /\ n * d = r
    BY <1>1, <1>2
  <2>. HIDE DEF d
  <2>1. ASSUME d >= 1 PROVE FALSE
    <3>1. PICK e \in Nat : d = e + 1
      <4>1. d - 1 \in Nat /\ d = (d - 1) + 1
        BY <2>0, <2>1
      <4>. QED BY <4>1
    <3>2. n * d = n * e + n /\ n * e \in Nat
      BY <3>1
    <3>. QED BY <1>1, <2>0, <3>2
  <2>2. ASSUME d <= -1 PROVE FALSE
    <3>1. PICK e \in Nat : d = -1 - e
      <4>1. -1 - d \in Nat /\ d = -1 - (-1 - d)
        BY <2>0, <2>2
      <4>. QED BY <4>1
    <3>2. n * d = -n - n * e /\ n * e \in Nat
      BY <3>1
    <3>. QED BY <1>1, <2>0, <3>2
  <2>3. d = 0
    BY <2>0, <2>1, <2>2
  <2>. QED BY <2>3 DEF d
<1>4. k = m
  BY <1>1, <1>3
<1>. QED BY <1>4 DEF k

\* multibyte_split_kernel finds the places where what was read ends with the delimiter.
LEMMA KernelMatchesAre ==
  ASSUME DelimOK, NEW w \in Seq(Alphabet), carry = Known(w), NEW chars \in Seq(Alphabet),
         NEW tiles \in Nat, Len(chars) = tiles * ITEMS_PER_TILE, NEW length \in 0 .. Len(chars)
  PROVE  KernelMatches(chars, length)
           = {e \in 1 .. length : Suffix(w \o SubSeq(chars, 1, e), Len(delim))}
<1>. DEFINE P == ITEMS_PER_TILE
            I == ITEMS_PER_THREAD
            T == THREADS_PER_TILE
            Found == {e \in 1 .. length : Suffix(w \o SubSeq(chars, 1, e), Len(delim))}
            M(k, t) == ThreadMatches(chars, length, tiles, k, t)
<1>1. P \in Nat \ {0} /\ I \in Nat \ {0} /\ T \in Nat \ {0} /\ Len(chars) \in Nat /\ P = T * I
  BY SplitAssumption, LenProperties DEF ITEMS_PER_TILE
<1>2. Len(chars) \div ITEMS_PER_TILE = tiles
  BY <1>1, WholeParts
<1>3. KernelMatches(chars, length) = UNION {M(k, t) : k \in 0 .. tiles - 1, t \in 0 .. T - 1}
  BY <1>2, KernelForm
<1>4. ASSUME NEW k \in 0 .. tiles - 1, NEW t \in 0 .. T - 1
      PROVE  /\ k * P + t * I \in Nat /\ k * P + t * I + I <= Len(chars)
             /\ \A j \in 1 .. I :
                  MaxTail(Items(TilePrefix(chars, tiles)[k], Part(chars, k, P), t)[j]) = Len(delim)
                    <=> Suffix(w \o SubSeq(chars, 1, k * P + t * I + j), Len(delim))
  <2>1. k * P + t * I \in Nat /\ k * P + t * I + I <= Len(chars)
    BY ThreadPrefixIs
  <2>. DEFINE base == k * P + t * I
  <2>2. ASSUME NEW j \in 1 .. I
        PROVE  MaxTail(Items(TilePrefix(chars, tiles)[k], Part(chars, k, P), t)[j]) = Len(delim)
                 <=> Suffix(w \o SubSeq(chars, 1, base + j), Len(delim))
    <3>1. j \in 0 .. I
      BY <1>1
    <3>2. Items(TilePrefix(chars, tiles)[k], Part(chars, k, P), t)[j]
            = Known(w \o SubSeq(chars, 1, base + j))
      BY <3>1, ItemsAre
    <3>. HIDE DEF P, I, T, base
    <3>3. base + j \in 0 .. Len(chars) /\ Len(chars) \in base + j .. Len(chars)
      BY <1>1, <2>1 DEF base
    <3>4. SubSeq(chars, 1, base + j) \in Seq(Alphabet)
      BY <3>3, PartFacts
    <3>5. w \o SubSeq(chars, 1, base + j) \in Seq(Alphabet)
      BY <3>4, ConcatProperties
    <3>. QED BY <3>2, <3>5, MaxTailIs
  <2>. QED BY <2>1, <2>2
<1>5. ASSUME NEW k \in 0 .. tiles - 1, NEW t \in 0 .. T - 1
      PROVE  M(k, t) = {k * P + t * I + i : i \in {j \in 1 .. I :
                          /\ k * P + t * I + j <= length
                          /\ Suffix(w \o SubSeq(chars, 1, k * P + t * I + j), Len(delim))}}
  BY <1>4, Zenon DEF ThreadMatches
<1>. HIDE DEF P, I, T, M
<1>6. ASSUME NEW k \in 0 .. tiles - 1, NEW t \in 0 .. T - 1, NEW e \in M(k, t) PROVE e \in Found
  <2>. DEFINE base == k * P + t * I
  <2>0. base \in Nat
    BY <1>4
  <2>1. PICK j \in 1 .. I : /\ base + j <= length /\ e = base + j
                            /\ Suffix(w \o SubSeq(chars, 1, base + j), Len(delim))
    BY <1>5
  <2>. HIDE DEF base
  <2>. QED BY <1>1, <2>0, <2>1
<1>7. ASSUME NEW e \in Found
      PROVE  \E k \in 0 .. tiles - 1, t \in 0 .. T - 1 : e \in M(k, t)
  <2>1. e - 1 \in Nat /\ e - 1 < tiles * P /\ e <= length
    BY <1>1 DEF P
  <2>2. PICK k \in 0 .. tiles - 1, r \in 0 .. P - 1 : e - 1 = k * P + r
    <3>. DEFINE x == e - 1
    <3>1. x \in Nat /\ x < tiles * P
      BY <2>1
    <3>. HIDE DEF x
    <3>2. tiles \in Nat /\ P \in Nat \ {0}
      BY <1>1
    <3>3. \E k \in 0 .. tiles - 1, r \in 0 .. P - 1 : x = k * P + r
      BY <3>1, <3>2, PlaceIn
    <3>. QED BY <3>3 DEF x
  <2>3. r \in Nat /\ r < T * I
    BY <1>1
  <2>4. PICK t \in 0 .. T - 1, q \in 0 .. I - 1 : r = t * I + q
    <3>. HIDE DEF T, I
    <3>1. T \in Nat /\ I \in Nat \ {0}
      BY <1>1
    <3>. QED BY <2>3, <3>1, PlaceIn
  <2>. DEFINE base == k * P + t * I
  <2>5. base \in Nat /\ M(k, t) = {base + i : i \in {j \in 1 .. I :
                 base + j <= length /\ Suffix(w \o SubSeq(chars, 1, base + j), Len(delim))}}
    BY <1>4, <1>5
  <2>6. e = base + (q + 1)
    <3>1. k * P \in Int /\ t * I \in Int
      BY <1>1
    <3>. QED BY <1>1, <2>1, <2>2, <2>4, <3>1
  <2>7. q + 1 \in 1 .. I
    BY <1>1
  <2>8. base + (q + 1) <= length /\ Suffix(w \o SubSeq(chars, 1, base + (q + 1)), Len(delim))
    BY <2>1, <2>6
  <2>. HIDE DEF base
  <2>. QED BY <2>5, <2>6, <2>7, <2>8
<1>8. \A e : e \in KernelMatches(chars, length)
               <=> \E k \in 0 .. tiles - 1, t \in 0 .. T - 1 : e \in M(k, t)
  BY <1>3
<1>. HIDE DEF Found
<1>9. KernelMatches(chars, length) = Found
  BY <1>6, <1>7, <1>8
<1>. QED BY <1>9 DEF Found

----------------------------------------------------------------------------
(* The room of a multistate.                                               *)

Occurrences(c) == {i \in DOMAIN delim : delim[i] = c}

\* No character occurs in the delimiter more than MaxDuplicateTokens times.
LEMMA DuplicatesBound ==
  ASSUME DelimOK, NEW c \in Alphabet
  PROVE  /\ IsFiniteSet(Occurrences(c))
         /\ Cardinality(Occurrences(c)) \in Nat /\ MaxDuplicateTokens \in Nat
         /\ Cardinality(Occurrences(c)) <= MaxDuplicateTokens
<1>. DEFINE count(b) == Cardinality(Occurrences(b))
            C == {count(b) : b \in Alphabet}
<1>1. Len(delim) \in Nat /\ DOMAIN delim = 1 .. Len(delim)
  BY LenProperties DEF DelimOK
<1>2. IsFiniteSet(DOMAIN delim) /\ Cardinality(DOMAIN delim) = Len(delim)
  <2>1. IsFiniteSet(1 .. Len(delim))
        /\ Cardinality(1 .. Len(delim)) = IF 1 > Len(delim) THEN 0 ELSE Len(delim) - 1 + 1
    BY <1>1, FS_Interval
  <2>. QED BY <1>1, <2>1
<1>3. ASSUME NEW b
      PROVE  IsFiniteSet(Occurrences(b)) /\ count(b) \in 0 .. Len(delim)
  <2>1. Occurrences(b) \in SUBSET (DOMAIN delim)
    BY DEF Occurrences
  <2>2. IsFiniteSet(Occurrences(b)) /\ count(b) <= Len(delim)
    BY <1>2, <2>1, FS_Subset
  <2>3. count(b) \in Nat
    BY <2>2, FS_CardinalityType
  <2>. QED BY <1>1, <2>2, <2>3
<1>. HIDE DEF count
<1>4. C \in SUBSET (0 .. Len(delim)) /\ C # {}
  BY <1>3
<1>5. \E n \in C : \A k \in C : k <= n
  <2>. HIDE DEF C
  <2>. QED BY <1>1, <1>4, GreatestExists
<1>6. PICK n \in C : \A b \in Alphabet : count(b) <= n
  BY <1>5
<1>7. MaxDuplicateTokens = CHOOSE x \in C : \A b \in Alphabet : count(b) <= x
  BY DEF MaxDuplicateTokens, count, Occurrences
<1>8. MaxDuplicateTokens \in C /\ \A b \in Alphabet : count(b) <= MaxDuplicateTokens
  BY <1>6, <1>7
<1>. QED BY <1>1, <1>3, <1>4, <1>8 DEF count

\* A multistate has a segment for each occurrence of the last character, and (0, 0].
LEMMA MultiSize ==
  ASSUME DelimOK, NEW w \in Seq(Alphabet), w # <<>>
  PROVE  /\ IsFiniteSet(Multi(w)) /\ Cardinality(Multi(w)) \in Nat
         /\ Cardinality(Multi(w)) <= MaxDuplicateTokens + 1
<1>. DEFINE n == Len(w)
            c == w[n]
            zero == <<0, 0>>
            S == Multi(w) \ {zero}
            f == [p \in S |-> p[2]]
<1>1. n \in Nat \ {0} /\ c \in Alphabet /\ Len(delim) \in Nat /\ DOMAIN delim = 1 .. Len(delim)
  BY LenProperties, EmptySeq, ElementOfSeq DEF DelimOK
<1>. HIDE DEF n, c
<1>2. ASSUME NEW p \in S
      PROVE  /\ \/ \E t \in 1 .. n : p = <<0, t>>
                \/ \E h \in Nat : p = <<h, h + n>>
             /\ p[2] \in Occurrences(c)
  <2>1. CASE p \in Known(w)
    <3>1. PICK t \in 0 .. Len(delim) : Suffix(w, t) /\ p = <<0, t>>
      BY <2>1, MultiMembers
    <3>2. t # 0 /\ t <= n /\ p[2] = t
      BY <3>1 DEF Suffix, n
    <3>3. t \in 1 .. t /\ n - t + t = n
      BY <1>1, <3>2
    <3>4. delim[t] = c
      BY <3>1, <3>3 DEF Suffix, n, c
    <3>. QED BY <1>1, <3>1, <3>2, <3>4 DEF Occurrences
  <2>2. CASE p \in Through(w)
    <3>1. PICK h \in 0 .. Len(delim) : Inner(w, h) /\ p = <<h, h + n>>
      BY <2>2, MultiMembers DEF n
    <3>2. h + n <= Len(delim) /\ delim[h + n] = c
      <4>1. n \in 1 .. n
        BY <1>1
      <4>. QED BY <3>1, <4>1 DEF Inner, n, c
    <3>3. p[2] = h + n /\ h + n \in 1 .. Len(delim)
      BY <1>1, <3>1, <3>2
    <3>. QED BY <1>1, <3>1, <3>2, <3>3 DEF Occurrences
  <2>. QED BY <2>1, <2>2, MultiMembers
<1>. HIDE DEF S
<1>3. f \in Injection(S, Occurrences(c))
  <2>1. f \in [S -> Occurrences(c)]
    BY <1>2
  <2>2. ASSUME NEW p \in S, NEW q \in S, p[2] = q[2] PROVE p = q
    <3>1. CASE \E t \in 1 .. n : p = <<0, t>>
      <4>1. PICK t \in 1 .. n : p = <<0, t>>
        BY <3>1
      <4>2. CASE \E h \in Nat : q = <<h, h + n>>
        <5>1. PICK h \in Nat : q = <<h, h + n>>
          BY <4>2
        <5>2. t = h + n
          BY <2>2, <4>1, <5>1
        <5>3. h = 0 /\ h + n = t
          BY <1>1, <5>2
        <5>. QED BY <4>1, <5>1, <5>3
      <4>3. CASE \E x \in 1 .. n : q = <<0, x>>
        BY <2>2, <4>1, <4>3
      <4>. QED BY <1>2, <4>2, <4>3
    <3>2. CASE \E h \in Nat : p = <<h, h + n>>
      <4>1. PICK h \in Nat : p = <<h, h + n>>
        BY <3>2
      <4>2. CASE \E g \in Nat : q = <<g, g + n>>
        <5>1. PICK g \in Nat : q = <<g, g + n>>
          BY <4>2
        <5>2. h + n = g + n
          BY <2>2, <4>1, <5>1
        <5>3. h = g
          BY <1>1, <5>2
        <5>. QED BY <4>1, <5>1, <5>3
      <4>3. CASE \E x \in 1 .. n : q = <<0, x>>
        <5>1. PICK x \in 1 .. n : q = <<0, x>>
          BY <4>3
        <5>2. h + n = x
          BY <2>2, <4>1, <5>1
        <5>3. h = 0 /\ h + n = x
          BY <1>1, <5>2
        <5>. QED BY <4>1, <5>1, <5>3
      <4>. QED BY <1>2, <4>2, <4>3
    <3>. QED BY <1>2, <3>1, <3>2
  <2>. QED BY <2>1, <2>2 DEF Injection, IsInjective
<1>. HIDE DEF f
<1>4. /\ IsFiniteSet(Occurrences(c)) /\ Cardinality(Occurrences(c)) \in Nat
      /\ MaxDuplicateTokens \in Nat /\ Cardinality(Occurrences(c)) <= MaxDuplicateTokens
  BY <1>1, DuplicatesBound
<1>5. IsFiniteSet(S) /\ Cardinality(S) <= Cardinality(Occurrences(c))
  BY <1>3, <1>4, FS_Injection
<1>6. Cardinality(S) \in Nat
  BY <1>5, FS_CardinalityType
<1>7. /\ IsFiniteSet(S \cup {zero})
      /\ Cardinality(S \cup {zero}) = IF zero \in S THEN Cardinality(S) ELSE Cardinality(S) + 1
  BY <1>5, FS_AddElement
<1>8. zero \in Multi(w)
  <2>1. 0 \in 0 .. Len(delim) /\ Suffix(w, 0)
    BY <1>1 DEF Suffix, n
  <2>. QED BY <2>1, MultiMembers
<1>9. S \cup {zero} = Multi(w)
  BY <1>8 DEF S
<1>10. IsFiniteSet(Multi(w)) /\ Cardinality(Multi(w)) \in {Cardinality(S), Cardinality(S) + 1}
  <2>. HIDE DEF zero
  <2>. QED BY <1>7, <1>9
<1>. QED BY <1>4, <1>5, <1>6, <1>10

\* What is known needs a segment for each duplicate and one more.
LEMMA KnownSize ==
  ASSUME DelimOK, NEW w \in Seq(Alphabet)
  PROVE  /\ IsFiniteSet(Known(w)) /\ Cardinality(Known(w)) \in Nat
         /\ Cardinality(Known(w)) <= MaxDuplicateTokens + 1
<1>1. PICK v \in Seq(Alphabet) : v # <<>> /\ Known(w) \subseteq Multi(v)
  <2>1. CASE w # <<>>
    BY <2>1, MultiMembers
  <2>2. CASE w = <<>>
    <3>1. Len(delim) \in Nat /\ 0 \in 0 .. Len(delim) /\ delim \in Seq(Alphabet) /\ delim # <<>>
      BY LenProperties DEF DelimOK
    <3>2. Suffix(delim, 0) /\ \A t \in 0 .. Len(delim) : Suffix(<<>>, t) => t = 0
      BY <3>1 DEF Suffix
    <3>3. ASSUME NEW p \in Known(<<>>) PROVE p \in Multi(delim)
      BY <3>1, <3>2, MultiMembers
    <3>. QED BY <2>2, <3>1, <3>3
  <2>. QED BY <2>1, <2>2
<1>2. IsFiniteSet(Multi(v)) /\ Cardinality(Multi(v)) \in Nat
      /\ Cardinality(Multi(v)) <= MaxDuplicateTokens + 1
  BY <1>1, MultiSize
<1>3. IsFiniteSet(Known(w)) /\ Cardinality(Known(w)) <= Cardinality(Multi(v))
  BY <1>1, <1>2, FS_Subset
<1>4. PICK c : c \in Alphabet
  <2>1. Len(delim) \in Nat \ {0}
    BY EmptySeq DEF DelimOK
  <2>2. delim[1] \in Alphabet
    BY <2>1, ElementOfSeq DEF DelimOK
  <2>. QED BY <2>2
<1>5. MaxDuplicateTokens \in Nat
  BY <1>4, DuplicatesBound
<1>6. Cardinality(Known(w)) \in Nat
  BY <1>3, FS_CardinalityType
<1>. QED BY <1>2, <1>3, <1>5, <1>6

\* No multistate of a launch has more segments than there is room for.
LEMMA SegmentsUsedFit ==
  ASSUME DelimOK, ~Refused, NEW w \in Seq(Alphabet), carry = Known(w),
         NEW chars \in Seq(Alphabet),
         NEW tiles \in Nat, Len(chars) = tiles * ITEMS_PER_TILE
  PROVE  SegmentsUsed(chars) \subseteq 0 .. max_segment_count
<1>1. /\ ITEMS_PER_TILE \in Nat \ {0} /\ max_segment_count \in Nat
      /\ Len(chars) \div ITEMS_PER_TILE = tiles
  <2>1. ITEMS_PER_TILE \in Nat \ {0} /\ max_segment_count \in Nat
    BY SplitAssumption DEF ITEMS_PER_TILE
  <2>. QED BY <2>1, WholeParts
<1>2. PICK c : c \in Alphabet
  <2>1. Len(delim) \in Nat \ {0}
    BY EmptySeq DEF DelimOK
  <2>2. delim[1] \in Alphabet
    BY <2>1, ElementOfSeq DEF DelimOK
  <2>. QED BY <2>2
<1>3. MaxDuplicateTokens \in Nat /\ MaxDuplicateTokens + 1 <= max_segment_count
  <2>1. MaxDuplicateTokens \in Nat
    BY <1>2, DuplicatesBound
  <2>. QED BY <1>1, <2>1 DEF Refused
<1>4. ASSUME NEW k \in 0 .. tiles - 1, NEW t \in 1 .. THREADS_PER_TILE
      PROVE  Cardinality(BlockScan(Part(chars, k, ITEMS_PER_TILE))[t]) \in 0 .. max_segment_count
  <2>. DEFINE tile == Part(chars, k, ITEMS_PER_TILE)
              I == ITEMS_PER_THREAD
              u == t - 1
  <2>1. IsPart(chars, k, ITEMS_PER_TILE, tile)
    BY TileIs
  <2>2. tile \in Seq(Alphabet) /\ Len(tile) = ITEMS_PER_TILE
    BY <2>1 DEF IsPart
  <2>3. THREADS_PER_TILE \in Nat /\ I \in Nat \ {0} /\ u \in 0 .. THREADS_PER_TILE - 1 /\ u + 1 = t
    BY SplitAssumption
  <2>. HIDE DEF tile, u, I
  <2>4. IsPart(tile, u, I, Part(tile, u, I))
    BY <2>2, <2>3, ThreadPart DEF I
  <2>. DEFINE a == u * I
  <2>5. a \in 0 .. Len(tile) /\ a + I \in a .. Len(tile) /\ (u + 1) * I = a + I
    BY <2>4 DEF IsPart
  <2>6. a + I \in 0 .. Len(tile) /\ Len(tile) \in a + I .. Len(tile) /\ a + I # 0
    <3>. HIDE DEF a
    <3>. QED BY <1>1, <2>2, <2>3, <2>5
  <2>. DEFINE v == SubSeq(tile, 1, a + I)
  <2>7. v \in Seq(Alphabet) /\ Len(v) = a + I
    <3>. HIDE DEF a
    <3>. QED BY <2>2, <2>6, PartFacts
  <2>8. v # <<>>
    <3>1. Len(<<>>) = 0
      OBVIOUS
    <3>. HIDE DEF v, a
    <3>. QED BY <2>6, <2>7, <3>1
  <2>9. BlockScan(tile)[t] = Multi(v)
    <3>1. BlockScan(tile)[t] = Multi(SubSeq(tile, 1, t * I))
      BY <2>2, BlockScanIs DEF I
    <3>. QED BY <2>3, <2>5, <3>1
  <2>. HIDE DEF v
  <2>10. Cardinality(Multi(v)) \in Nat /\ Cardinality(Multi(v)) <= MaxDuplicateTokens + 1
    BY <2>7, <2>8, MultiSize
  <2>11. Cardinality(BlockScan(tile)[t]) \in 0 .. max_segment_count
    BY <1>1, <1>3, <2>9, <2>10
  <2>. QED BY <2>11 DEF tile
<1>5. ASSUME NEW k \in 0 .. tiles
      PROVE  Cardinality(TilePrefix(chars, tiles)[k]) \in 0 .. max_segment_count
  <2>. DEFINE v == w \o SubSeq(chars, 1, k * ITEMS_PER_TILE)
  <2>1. TilePrefix(chars, tiles)[k] = Known(v) /\ v \in Seq(Alphabet)
    <3>1. /\ TilePrefix(chars, tiles)[k] = Known(v)
          /\ SubSeq(chars, 1, k * ITEMS_PER_TILE) \in Seq(Alphabet)
      BY TilePrefixIs
    <3>. QED BY <3>1, ConcatProperties
  <2>. HIDE DEF v
  <2>2. Cardinality(Known(v)) \in Nat /\ Cardinality(Known(v)) <= MaxDuplicateTokens + 1
    BY <2>1, KnownSize
  <2>. QED BY <1>1, <1>3, <2>1, <2>2
<1>6. ASSUME NEW x \in SegmentsUsed(chars) PROVE x \in 0 .. max_segment_count
  <2>. DEFINE sums == UNION {{BlockScan(Part(chars, k, ITEMS_PER_TILE))[t] :
                                t \in 1 .. THREADS_PER_TILE} : k \in 0 .. tiles - 1}
              prefixes == {TilePrefix(chars, tiles)[k] : k \in 0 .. tiles}
  <2>1. PICK z \in sums \cup prefixes : x = Cardinality(z)
    BY <1>1 DEF SegmentsUsed
  <2>2. CASE z \in sums
    <3>1. PICK k \in 0 .. tiles - 1, t \in 1 .. THREADS_PER_TILE :
            z = BlockScan(Part(chars, k, ITEMS_PER_TILE))[t]
      BY <2>2
    <3>. QED BY <1>4, <2>1, <3>1
  <2>3. CASE z \in prefixes
    BY <1>5, <2>1, <2>3
  <2>. QED BY <2>2, <2>3
<1>. QED BY <1>6

----------------------------------------------------------------------------
(* Numbers in ascending order.                                             *)

Values(s) == {s[i] : i \in 1 .. Len(s)}
Sorted(s) == s \in Seq(Nat) /\ \A i, j \in 1 .. Len(s) : i < j => s[i] < s[j]

\* There is one way to put numbers in order.
LEMMA SortedIsAscending ==
  ASSUME NEW s, Sorted(s)
  PROVE  /\ Ascending(Values(s)) = s
         /\ IsFiniteSet(Values(s)) /\ Cardinality(Values(s)) = Len(s)
<1>. DEFINE n == Len(s)
            S == Values(s)
            below(x) == {m \in S : m < x}
<1>1. n \in Nat /\ s \in [1 .. n -> Nat] /\ \A i, j \in 1 .. n : i < j => s[i] < s[j]
  BY LenProperties DEF Sorted
<1>. HIDE DEF n
<1>2. S = {s[i] : i \in 1 .. n}
  BY DEF Values, n
<1>. HIDE DEF S
<1>3. \A i, j \in 1 .. n : s[i] = s[j] => i = j
  <2>. SUFFICES ASSUME NEW i \in 1 .. n, NEW j \in 1 .. n, s[i] = s[j], i # j PROVE FALSE
    OBVIOUS
  <2>1. s[i] \in Nat /\ s[j] \in Nat /\ (i < j \/ j < i)
    BY <1>1
  <2>. QED BY <1>1, <2>1
<1>4. \A i, j \in 1 .. n : s[i] < s[j] <=> i < j
  <2>. SUFFICES ASSUME NEW i \in 1 .. n, NEW j \in 1 .. n, s[i] < s[j], ~(i < j) PROVE FALSE
    BY <1>1
  <2>1. s[i] \in Nat /\ s[j] \in Nat /\ (i = j \/ j < i)
    BY <1>1
  <2>. QED BY <1>1, <2>1
<1>5. IsFiniteSet(S) /\ Cardinality(S) = n
  <2>1. s \in Bijection(1 .. n, S)
    BY <1>1, <1>2, <1>3 DEF Bijection, Injection, Surjection, IsInjective
  <2>2. ExistsBijection(1 .. n, S)
    BY <2>1 DEF ExistsBijection
  <2>. QED BY <1>1, <2>2, FS_CountingElements, FS_NatBijection
<1>6. ASSUME NEW i \in 1 .. n PROVE Cardinality(below(s[i])) = i - 1
  <2>. DEFINE f == [j \in 1 .. i - 1 |-> s[j]]
              B == below(s[i])
  <2>1. \A j \in 1 .. i - 1 : j \in 1 .. n /\ j < i
    BY <1>1
  <2>2. B = {s[j] : j \in 1 .. i - 1}
    <3>1. ASSUME NEW m \in B PROVE \E j \in 1 .. i - 1 : m = s[j]
      <4>1. PICK j \in 1 .. n : m = s[j]
        BY <1>2
      <4>2. j < i
        BY <1>4, <4>1
      <4>3. j \in 1 .. i - 1
        BY <1>1, <4>2
      <4>. QED BY <4>1, <4>3
    <3>2. \A j \in 1 .. i - 1 : s[j] \in B
      BY <1>2, <1>4, <2>1
    <3>. HIDE DEF B
    <3>. QED BY <3>1, <3>2
  <2>. HIDE DEF B
  <2>3. f \in Bijection(1 .. i - 1, B)
    <3>1. f \in [1 .. i - 1 -> B] /\ \A b \in B : \E j \in 1 .. i - 1 : f[j] = b
      BY <2>2
    <3>2. \A j, k \in 1 .. i - 1 : f[j] = f[k] => j = k
      BY <1>3, <2>1
    <3>. HIDE DEF f
    <3>. QED BY <3>1, <3>2 DEF Bijection, Injection, Surjection, IsInjective
  <2>4. ExistsBijection(1 .. i - 1, B) /\ i - 1 \in Nat
    BY <1>1, <2>3 DEF ExistsBijection
  <2>5. Cardinality(B) = i - 1
    BY <2>4, FS_CountingElements
  <2>. QED BY <2>5 DEF B
<1>. DEFINE place(i) == CHOOSE x \in S : Cardinality(below(x)) = i - 1
<1>7. ASSUME NEW i \in 1 .. n PROVE place(i) = s[i]
  <2>. HIDE DEF below
  <2>1. s[i] \in S /\ Cardinality(below(s[i])) = i - 1
    BY <1>2, <1>6
  <2>2. ASSUME NEW x \in S, Cardinality(below(x)) = i - 1 PROVE x = s[i]
    <3>1. PICK j \in 1 .. n : x = s[j]
      BY <1>2
    <3>2. j - 1 = i - 1
      BY <1>6, <2>2, <3>1
    <3>3. j = i
      BY <1>1, <3>2
    <3>. QED BY <3>1, <3>3
  <2>. QED BY <2>1, <2>2
<1>8. Ascending(S) = [i \in 1 .. n |-> place(i)]
  BY <1>5 DEF Ascending
<1>. HIDE DEF place
<1>9. Ascending(S) = s
  BY <1>1, <1>7, <1>8
<1>. QED BY <1>5, <1>9 DEF S, n

\* Two ordered sequences, one behind the other.
LEMMA SortedConcat ==
  ASSUME NEW s, NEW r, Sorted(s), Sorted(r), \A x \in Values(s), y \in Values(r) : x < y
  PROVE  Sorted(s \o r) /\ Values(s \o r) = Values(s) \cup Values(r)
<1>. DEFINE n == Len(s)
            m == Len(r)
            q == s \o r
<1>1. /\ n \in Nat /\ m \in Nat /\ q \in Seq(Nat) /\ Len(q) = n + m
      /\ \A i \in 1 .. n + m : q[i] = IF i <= n THEN s[i] ELSE r[i - n]
  BY ConcatProperties, LenProperties DEF Sorted
<1>2. /\ \A i \in 1 .. n : s[i] \in Values(s)
      /\ \A i \in 1 .. m : r[i] \in Values(r)
      /\ \A x \in Values(s) : \E i \in 1 .. n : x = s[i]
      /\ \A x \in Values(r) : \E i \in 1 .. m : x = r[i]
      /\ \A x \in Values(q) : \E i \in 1 .. n + m : x = q[i]
      /\ \A i \in 1 .. n + m : q[i] \in Values(q)
  BY <1>1 DEF Values
<1>3. /\ \A i, j \in 1 .. n : i < j => s[i] < s[j]
      /\ \A i, j \in 1 .. m : i < j => r[i] < r[j]
  BY DEF Sorted
<1>. HIDE DEF n, m, q
<1>4. ASSUME NEW i \in 1 .. n + m
      PROVE  \/ i \in 1 .. n /\ q[i] = s[i]
             \/ i - n \in 1 .. m /\ i > n /\ q[i] = r[i - n]
  BY <1>1
<1>5. ASSUME NEW i \in 1 .. n + m, NEW j \in 1 .. n + m, i < j PROVE q[i] < q[j]
  <2>1. CASE j \in 1 .. n /\ q[j] = s[j]
    <3>1. i \in 1 .. n /\ q[i] = s[i]
      BY <1>1, <1>4, <1>5, <2>1
    <3>. QED BY <1>3, <1>5, <2>1, <3>1
  <2>2. CASE j - n \in 1 .. m /\ j > n /\ q[j] = r[j - n]
    <3>1. CASE i \in 1 .. n /\ q[i] = s[i]
      BY <1>2, <2>2, <3>1
    <3>2. CASE i - n \in 1 .. m /\ i > n /\ q[i] = r[i - n]
      <4>1. i - n < j - n
        BY <1>1, <1>5
      <4>. QED BY <1>3, <2>2, <3>2, <4>1
    <3>. QED BY <1>4, <3>1, <3>2
  <2>. QED BY <1>4, <2>1, <2>2
<1>6. ASSUME NEW x \in Values(q) PROVE x \in Values(s) \cup Values(r)
  BY <1>2, <1>4
<1>7. ASSUME NEW x \in Values(s) PROVE x \in Values(q)
  <2>1. PICK i \in 1 .. n : x = s[i]
    BY <1>2
  <2>2. i \in 1 .. n + m /\ i <= n
    BY <1>1
  <2>. QED BY <1>1, <1>2, <2>1, <2>2
<1>8. ASSUME NEW x \in Values(r) PROVE x \in Values(q)
  <2>1. PICK i \in 1 .. m : x = r[i]
    BY <1>2
  <2>2. n + i \in 1 .. n + m /\ ~(n + i <= n) /\ (n + i) - n = i
    BY <1>1
  <2>3. q[n + i] = x
    BY <1>1, <2>1, <2>2
  <2>. QED BY <1>2, <2>2, <2>3
<1>9. Sorted(q)
  BY <1>1, <1>5 DEF Sorted
<1>10. Values(q) = Values(s) \cup Values(r)
  BY <1>6, <1>7, <1>8
<1>. QED BY <1>9, <1>10 DEF q

\* No number, and one number, in order.
LEMMA SortedSmall ==
  /\ Sorted(<<>>) /\ Values(<<>>) = {}
  /\ \A x \in Nat : Sorted(<<x>>) /\ Values(<<x>>) = {x} /\ Len(<<x>>) = 1 /\ <<x>>[1] = x
<1>1. <<>> \in Seq(Nat) /\ Len(<<>>) = 0
  OBVIOUS
<1>2. ASSUME NEW x \in Nat
      PROVE  Sorted(<<x>>) /\ Values(<<x>>) = {x} /\ Len(<<x>>) = 1 /\ <<x>>[1] = x
  <2>. DEFINE q == <<x>>
  <2>1. q \in Seq(Nat) /\ Len(q) = 1 /\ q[1] = x
    OBVIOUS
  <2>. HIDE DEF q
  <2>2. 1 .. Len(q) = {1}
    BY <2>1
  <2>3. Sorted(q)
    BY <2>1, <2>2 DEF Sorted
  <2>4. Values(q) = {x}
    BY <2>1, <2>2 DEF Values
  <2>. QED BY <2>1, <2>3, <2>4 DEF q
<1>. QED BY <1>1, <1>2 DEF Sorted, Values

\* Numbers with a bound can be put in order.
LEMMA AscendingIs ==
  ASSUME NEW n \in Nat, NEW S \in SUBSET (0 .. n)
  PROVE  /\ Sorted(Ascending(S)) /\ Values(Ascending(S)) = S
         /\ IsFiniteSet(S) /\ Len(Ascending(S)) = Cardinality(S)
<1>. DEFINE T == {i \in Nat : \A U \in SUBSET (0 .. i - 1) : \E s : Sorted(s) /\ Values(s) = U}
<1>1. 0 \in T
  <2>. SUFFICES ASSUME NEW U \in SUBSET (0 .. 0 - 1) PROVE \E s : Sorted(s) /\ Values(s) = U
    OBVIOUS
  <2>1. U = {}
    OBVIOUS
  <2>. QED BY <2>1, SortedSmall
<1>2. ASSUME NEW i \in Nat, i \in T PROVE i + 1 \in T
  <2>. SUFFICES ASSUME NEW U \in SUBSET (0 .. (i + 1) - 1)
                PROVE  \E s : Sorted(s) /\ Values(s) = U
    OBVIOUS
  <2>. DEFINE V == U \ {i}
  <2>1. V \in SUBSET (0 .. i - 1)
    OBVIOUS
  <2>2. PICK s : Sorted(s) /\ Values(s) = V
    BY <1>2, <2>1
  <2>3. CASE i \in U
    <3>5. Values(<<i>>) = {i} /\ Sorted(<<i>>)
      BY SortedSmall
    <3>1. \A x \in Values(s), y \in Values(<<i>>) : x < y
      <4>1. \A x \in V : x < i
        BY <2>1
      <4>. HIDE DEF V
      <4>. QED BY <2>2, <3>5, <4>1
    <3>2. Sorted(s \o <<i>>) /\ Values(s \o <<i>>) = Values(s) \cup Values(<<i>>)
      BY <2>2, <3>5, <3>1, SortedConcat
    <3>3. Values(s \o <<i>>) = U
      BY <2>2, <2>3, <3>5, <3>2
    <3>. QED BY <3>2, <3>3
  <2>4. CASE i \notin U
    BY <2>2, <2>4
  <2>. QED BY <2>3, <2>4
<1>3. Nat \subseteq T
  <2>. HIDE DEF T
  <2>. QED BY <1>1, <1>2, NatSetInduction
<1>4. n + 1 \in Nat /\ (n + 1) - 1 = n
  OBVIOUS
<1>5. n + 1 \in T
  BY <1>3, <1>4
<1>6. PICK s : Sorted(s) /\ Values(s) = S
  BY <1>4, <1>5
<1>. QED BY <1>6, SortedIsAscending

----------------------------------------------------------------------------
(* The output_builder.                                                     *)

Buffer == [capacity : Nat, data : Seq(Nat)]

\* What gather collects from the first n buffers.
Gathered(b, f) ==
  f = [i \in 0 .. Len(b) |-> IF i = 0 THEN <<>> ELSE f[i - 1] \o b[i].data]
UpTo(b) == CHOOSE f : Gathered(b, f)

\* gather joins the data of all buffers.
LEMMA GatherForm ==
  ASSUME NEW b
  PROVE  Gather(b) = UpTo(b)[Len(b)]
BY DEF Gather, UpTo, Gathered

\* The recursion of Gather defines a function.
LEMMA GatheredExists ==
  ASSUME NEW b \in Seq(Buffer)
  PROVE  \E f : Gathered(b, f)
<1>. DEFINE To(n, f) == f = [i \in 0 .. n |-> IF i = 0 THEN <<>> ELSE f[i - 1] \o b[i].data]
            T == {n \in Nat : \E f : To(n, f)}
<1>1. 0 \in T
  <2>. DEFINE f == [i \in 0 .. 0 |-> <<>>]
  <2>1. To(0, f)
    OBVIOUS
  <2>. QED BY <2>1
<1>2. ASSUME NEW n \in Nat, n \in T PROVE n + 1 \in T
  <2>. DEFINE step(i, f) == IF i = 0 THEN <<>> ELSE f[i - 1] \o b[i].data
  <2>1. PICK f : f = [i \in 0 .. n |-> step(i, f)]
    BY <1>2
  <2>. DEFINE g == [i \in 0 .. n + 1 |-> IF i = n + 1 THEN step(i, f) ELSE f[i]]
  <2>2. ASSUME NEW i \in 0 .. n + 1 PROVE g[i] = step(i, g)
    <3>1. CASE i = 0
      BY <2>1, <3>1
    <3>2. CASE i # 0
      <4>1. i - 1 \in 0 .. n /\ i - 1 \in 0 .. n + 1 /\ i - 1 # n + 1
        BY <3>2
      <4>2. g[i - 1] = f[i - 1]
        BY <4>1
      <4>3. i # n + 1 => f[i] = step(i, f)
        <5>1. i # n + 1 => i \in 0 .. n
          OBVIOUS
        <5>. HIDE DEF step
        <5>. QED BY <2>1, <5>1
      <4>4. g[i] = step(i, f)
        BY <4>3
      <4>. HIDE DEF g
      <4>. QED BY <4>2, <4>4
    <3>. QED BY <3>1, <3>2
  <2>3. g = [i \in 0 .. n + 1 |-> step(i, g)]
    <3>1. g = [i \in 0 .. n + 1 |-> g[i]]
      OBVIOUS
    <3>. HIDE DEF g, step
    <3>. QED BY <2>2, <3>1
  <2>4. To(n + 1, g)
    <3>. HIDE DEF g
    <3>. QED BY <2>3
  <2>. HIDE DEF g, To
  <2>. QED BY <2>4
<1>3. Nat \subseteq T
  <2>. HIDE DEF T
  <2>. QED BY <1>1, <1>2, NatSetInduction
<1>4. Len(b) \in T
  BY <1>3, LenProperties
<1>. QED BY <1>4 DEF Gathered

\* The data of the first n buffers, by the recursion.
LEMMA UpToIs ==
  ASSUME NEW b \in Seq(Buffer)
  PROVE  /\ UpTo(b)[0] = <<>>
         /\ \A n \in 1 .. Len(b) : /\ UpTo(b)[n - 1] \in Seq(Nat) /\ b[n].data \in Seq(Nat)
                                   /\ UpTo(b)[n] = UpTo(b)[n - 1] \o b[n].data
         /\ \A n \in 0 .. Len(b) : UpTo(b)[n] \in Seq(Nat)
<1>. DEFINE f == UpTo(b)
<1>1. Gathered(b, f)
  BY GatheredExists DEF UpTo
<1>2. Len(b) \in Nat /\ \A n \in 1 .. Len(b) : b[n].data \in Seq(Nat)
  <2>1. \A n \in 1 .. Len(b) : b[n] \in Buffer
    BY ElementOfSeq
  <2>. QED BY <2>1, LenProperties DEF Buffer
<1>. HIDE DEF f
<1>3. f[0] = <<>> /\ \A n \in 1 .. Len(b) : n - 1 \in 0 .. Len(b) /\ f[n] = f[n - 1] \o b[n].data
  <2>1. \A i \in 0 .. Len(b) : f[i] = IF i = 0 THEN <<>> ELSE f[i - 1] \o b[i].data
    BY <1>1 DEF Gathered
  <2>2. 0 \in 0 .. Len(b) /\ \A n \in 1 .. Len(b) : n \in 0 .. Len(b) /\ n # 0 /\ n - 1 \in 0 .. Len(b)
    BY <1>2
  <2>. QED BY <2>1, <2>2
<1>. DEFINE T == {n \in Nat : n \in 0 .. Len(b) => f[n] \in Seq(Nat)}
<1>4. 0 \in T
  BY <1>3, EmptySeq
<1>5. ASSUME NEW n \in Nat, n \in T PROVE n + 1 \in T
  <2>. SUFFICES ASSUME n + 1 \in 0 .. Len(b) PROVE f[n + 1] \in Seq(Nat)
    OBVIOUS
  <2>1. n + 1 \in 1 .. Len(b) /\ n \in 0 .. Len(b) /\ (n + 1) - 1 = n
    OBVIOUS
  <2>2. f[n + 1] = f[n] \o b[n + 1].data /\ f[n] \in Seq(Nat) /\ b[n + 1].data \in Seq(Nat)
    BY <1>2, <1>3, <1>5, <2>1
  <2>. QED BY <2>2, ConcatProperties
<1>6. Nat \subseteq T
  <2>. HIDE DEF T
  <2>. QED BY <1>4, <1>5, NatSetInduction
<1>7. \A n \in 0 .. Len(b) : f[n] \in Seq(Nat)
  BY <1>2, <1>6
<1>. QED BY <1>2, <1>3, <1>7 DEF f

\* Builders with the same first n buffers.
LEMMA UpToSame ==
  ASSUME NEW b \in Seq(Buffer), NEW c \in Seq(Buffer), NEW n \in Nat,
         n <= Len(b), n <= Len(c), \A i \in 1 .. n : b[i].data = c[i].data
  PROVE  UpTo(b)[n] = UpTo(c)[n]
<1>. DEFINE T == {k \in Nat : k <= n => UpTo(b)[k] = UpTo(c)[k]}
<1>1. Len(b) \in Nat /\ Len(c) \in Nat
  BY LenProperties
<1>2. 0 \in T
  BY UpToIs
<1>3. ASSUME NEW k \in Nat, k \in T PROVE k + 1 \in T
  <2>. SUFFICES ASSUME k + 1 <= n PROVE UpTo(b)[k + 1] = UpTo(c)[k + 1]
    OBVIOUS
  <2>1. k + 1 \in 1 .. Len(b) /\ k + 1 \in 1 .. Len(c) /\ (k + 1) - 1 = k /\ k + 1 \in 1 .. n /\ k <= n
    BY <1>1
  <2>2. UpTo(b)[k + 1] = UpTo(b)[k] \o b[k + 1].data /\ UpTo(c)[k + 1] = UpTo(c)[k] \o c[k + 1].data
    BY <2>1, UpToIs
  <2>. QED BY <1>3, <2>1, <2>2
<1>4. Nat \subseteq T
  <2>. HIDE DEF T
  <2>. QED BY <1>2, <1>3, NatSetInduction
<1>. QED BY <1>4

(* The invariant of a builder: every buffer has room for two chunks and    *)
(* holds no more than it has room for, all but the last two are full, and  *)
(* the last but one is full once the last is used.                         *)
BuilderOK(b) ==
  /\ b \in Seq(Buffer) /\ b # <<>>
  /\ \A i \in 1 .. Len(b) : 2 * ITEMS_PER_CHUNK <= b[i].capacity /\ Len(b[i].data) <= b[i].capacity
  /\ \A i \in 1 .. Len(b) - 2 : Free(b[i]) = 0
  /\ b[Len(b)].data # <<>> /\ Len(b) > 1 => Free(b[Len(b) - 1]) = 0
  /\ \A i \in 1 .. Len(b) - 1 : b[i].data # <<>>

\* The sizes.
LEMMA Sizes ==
  /\ ITEMS_PER_THREAD \in Nat \ {0} /\ THREADS_PER_TILE \in Nat \ {0}
  /\ TILES_PER_CHUNK \in Nat \ {0} /\ ITEMS_PER_TILE \in Nat \ {0} /\ ITEMS_PER_CHUNK \in Nat \ {0}
  /\ ITEMS_PER_CHUNK = TILES_PER_CHUNK * ITEMS_PER_TILE
  /\ max_growth * ITEMS_PER_CHUNK \in Nat /\ 2 * ITEMS_PER_CHUNK <= max_growth * ITEMS_PER_CHUNK
<1>1. /\ ITEMS_PER_THREAD \in Nat \ {0} /\ THREADS_PER_TILE \in Nat \ {0}
      /\ TILES_PER_CHUNK \in Nat \ {0} /\ max_growth \in Nat /\ 2 <= max_growth
  BY SplitAssumption
<1>2. ITEMS_PER_TILE \in Nat \ {0}
  BY <1>1 DEF ITEMS_PER_TILE
<1>3. ITEMS_PER_CHUNK \in Nat \ {0} /\ ITEMS_PER_CHUNK = TILES_PER_CHUNK * ITEMS_PER_TILE
  BY <1>1, <1>2 DEF ITEMS_PER_CHUNK
<1>4. max_growth * ITEMS_PER_CHUNK \in Nat /\ 2 * ITEMS_PER_CHUNK <= max_growth * ITEMS_PER_CHUNK
  BY <1>1, <1>3, Multiples
<1>. QED BY <1>1, <1>2, <1>3, <1>4

\* A new output_builder.
LEMMA NewBuilderOK ==
  BuilderOK(NewBuilder) /\ Gather(NewBuilder) = <<>>
<1>. DEFINE r == [capacity |-> 2 * ITEMS_PER_CHUNK, data |-> <<>>]
            b == <<r>>
<1>1. r \in Buffer /\ r.capacity = 2 * ITEMS_PER_CHUNK /\ r.data = <<>>
  BY Sizes DEF Buffer
<1>. HIDE DEF r
<1>2. b \in Seq(Buffer) /\ Len(b) = 1 /\ b[1] = r
  BY <1>1
<1>3. b # <<>>
  OBVIOUS
<1>4. NewBuilder = b
  BY DEF NewBuilder, r
<1>. HIDE DEF b
<1>5. BuilderOK(b)
  <2>1. Len(<<>>) = 0 /\ 2 * ITEMS_PER_CHUNK \in Nat
    BY Sizes
  <2>. QED BY <1>1, <1>2, <1>3, <2>1 DEF BuilderOK
<1>6. Gather(b) = <<>>
  <2>1. 1 \in 1 .. Len(b) /\ 1 - 1 = 0
    BY <1>2
  <2>2. UpTo(b)[1] = UpTo(b)[0] \o b[1].data /\ UpTo(b)[0] = <<>>
    BY <1>2, <2>1, UpToIs
  <2>3. UpTo(b)[1] = <<>>
    BY <1>1, <1>2, <2>2
  <2>. QED BY <1>2, <2>3, GatherForm
<1>. QED BY <1>4, <1>5, <1>6

\* What was written to the i-th buffer.
IsFilled(b, i, v, c) ==
  /\ c \in Seq(Buffer) /\ Len(c) = Len(b)
  /\ c[i].capacity = b[i].capacity /\ c[i].data = b[i].data \o v
  /\ c[i].data \in Seq(Nat) /\ Len(c[i].data) = Len(b[i].data) + Len(v)
  /\ \A j \in 1 .. Len(b) : j # i => c[j] = b[j]

\* A buffer that is filled.
LEMMA FilledIs ==
  ASSUME NEW b \in Seq(Buffer), NEW i \in 1 .. Len(b), NEW v \in Seq(Nat)
  PROVE  IsFilled(b, i, v, Filled(b, i, v))
<1>. DEFINE r == [b[i] EXCEPT !.data = @ \o v]
            c == [b EXCEPT ![i] = r]
<1>1. Filled(b, i, v) = c
  BY DEF Filled
<1>2. b[i] \in Buffer
  BY ElementOfSeq
<1>3. b[i].data \o v \in Seq(Nat) /\ Len(b[i].data \o v) = Len(b[i].data) + Len(v)
  BY <1>2, ConcatProperties DEF Buffer
<1>4. r \in Buffer /\ r.capacity = b[i].capacity /\ r.data = b[i].data \o v
  BY <1>2, <1>3 DEF Buffer
<1>. HIDE DEF r
<1>5. /\ c \in Seq(Buffer) /\ Len(c) = Len(b)
      /\ \A j \in 1 .. Len(b) : c[j] = IF j = i THEN r ELSE b[j]
  BY <1>4, ExceptSeq
<1>. HIDE DEF c
<1>. QED BY <1>1, <1>3, <1>4, <1>5 DEF IsFilled

\* A buffer of a builder.
LEMMA BufferIs ==
  ASSUME NEW b, BuilderOK(b)
  PROVE  /\ Len(b) \in Nat \ {0} /\ Len(b) \in 1 .. Len(b)
         /\ \A i \in 1 .. Len(b) :
              /\ b[i] \in Buffer /\ b[i].data \in Seq(Nat) /\ Len(b[i].data) \in Nat
              /\ b[i].capacity \in Nat /\ Free(b[i]) = b[i].capacity - Len(b[i].data)
              /\ Free(b[i]) \in Nat
              /\ b[i].data = <<>> <=> Len(b[i].data) = 0
<1>1. b \in Seq(Buffer) /\ b # <<>>
  BY DEF BuilderOK
<1>2. Len(b) \in Nat \ {0}
  BY <1>1, EmptySeq
<1>3. ASSUME NEW i \in 1 .. Len(b)
      PROVE  /\ b[i] \in Buffer /\ b[i].data \in Seq(Nat) /\ Len(b[i].data) \in Nat
             /\ b[i].capacity \in Nat /\ Free(b[i]) = b[i].capacity - Len(b[i].data)
             /\ Free(b[i]) \in Nat
             /\ b[i].data = <<>> <=> Len(b[i].data) = 0
  <2>1. b[i] \in Buffer
    BY <1>1, ElementOfSeq
  <2>2. b[i].data \in Seq(Nat) /\ b[i].capacity \in Nat
    BY <2>1 DEF Buffer
  <2>3. Len(b[i].data) \in Nat /\ (b[i].data = <<>> <=> Len(b[i].data) = 0)
    BY <2>2, EmptySeq, LenProperties
  <2>4. Len(b[i].data) <= b[i].capacity
    BY DEF BuilderOK
  <2>5. Free(b[i]) = b[i].capacity - Len(b[i].data)
    BY DEF Free
  <2>. QED BY <2>1, <2>2, <2>3, <2>4, <2>5
<1>. QED BY <1>2, <1>3

\* next_output: the last buffer has room for a chunk.
LEMMA NextOutputOK ==
  ASSUME NEW b, BuilderOK(b)
  PROVE  LET c == NextOutput(b) IN
         BuilderOK(c) /\ Gather(c) = Gather(b) /\ Free(c[Len(c)]) >= ITEMS_PER_CHUNK
<1>. DEFINE n == Len(b)
            IPC == ITEMS_PER_CHUNK
            new == [capacity |-> Smaller(max_growth * IPC, 2 * b[n].capacity), data |-> <<>>]
            c == NextOutput(b)
<1>1. b \in Seq(Buffer) /\ n \in Nat \ {0} /\ n \in 1 .. n
  BY BufferIs DEF BuilderOK
<1>2. IPC \in Nat \ {0} /\ max_growth * IPC \in Nat /\ 2 * IPC <= max_growth * IPC
  BY Sizes
<1>3. b[n].capacity \in Nat /\ 2 * IPC <= b[n].capacity /\ Len(b[n].data) \in Nat
      /\ Free(b[n]) = b[n].capacity - Len(b[n].data)
      /\ (b[n].data = <<>> <=> Len(b[n].data) = 0)
  BY <1>1, BufferIs DEF BuilderOK
<1>4. HeadOf(b) = IF n > 1 /\ b[n].data = <<>> THEN n - 1 ELSE n
  BY DEF HeadOf
<1>5. c = IF Free(b[HeadOf(b)]) >= IPC \/ HeadOf(b) # n THEN b ELSE Append(b, new)
  BY DEF NextOutput
<1>. DEFINE mg == max_growth * IPC
<1>6. new \in Buffer /\ 2 * IPC <= new.capacity /\ new.data = <<>> /\ new.capacity \in Nat
  <2>1. mg \in Nat /\ 2 * IPC <= mg
    BY <1>2
  <2>. HIDE DEF mg, IPC
  <2>2. Smaller(mg, 2 * b[n].capacity) \in Nat /\ 2 * IPC <= Smaller(mg, 2 * b[n].capacity)
    BY <1>2, <1>3, <2>1 DEF Smaller
  <2>. QED BY <2>2 DEF Buffer, mg
<1>. HIDE DEF new, c, IPC, mg
<1>7. CASE Free(b[HeadOf(b)]) >= IPC \/ HeadOf(b) # n
  <2>1. c = b
    BY <1>5, <1>7
  <2>2. CASE b[n].data = <<>>
    BY <1>2, <1>3, <2>1, <2>2 DEF c, IPC
  <2>3. CASE b[n].data # <<>>
    <3>1. HeadOf(b) = n
      BY <1>4, <2>3
    <3>. QED BY <1>7, <2>1, <3>1 DEF c, IPC
  <2>. QED BY <2>2, <2>3
<1>8. CASE ~(Free(b[HeadOf(b)]) >= IPC \/ HeadOf(b) # n)
  <2>1. /\ c \in Seq(Buffer) /\ c # <<>> /\ Len(c) = n + 1 /\ c[n + 1] = new
        /\ \A i \in 1 .. n : c[i] = b[i]
    BY <1>1, <1>5, <1>6, <1>8, AppendProperties
  <2>2. HeadOf(b) = n /\ Free(b[n]) < IPC
    BY <1>2, <1>3, <1>8
  <2>3. b[n].data # <<>>
    BY <1>2, <1>3, <2>2
  <2>. HIDE DEF n
  <2>4. \A i \in 1 .. n + 1 : 2 * IPC <= c[i].capacity /\ Len(c[i].data) <= c[i].capacity
    <3>1. \A i \in 1 .. n : 2 * IPC <= b[i].capacity /\ Len(b[i].data) <= b[i].capacity
      BY DEF BuilderOK, n, IPC
    <3>2. Len(new.data) = 0
      BY <1>6
    <3>. QED BY <1>1, <1>6, <2>1, <3>1, <3>2
  <2>5. \A i \in 1 .. (n + 1) - 2 : Free(c[i]) = 0
    <3>1. /\ \A i \in 1 .. n - 2 : Free(b[i]) = 0
          /\ n > 1 => Free(b[n - 1]) = 0
      BY <2>3 DEF BuilderOK, n
    <3>. QED BY <1>1, <2>1, <3>1
  <2>6. c[n + 1].data = <<>>
    BY <1>6, <2>1
  <2>7. \A i \in 1 .. n : c[i].data # <<>>
    <3>1. \A i \in 1 .. n - 1 : b[i].data # <<>>
      BY DEF BuilderOK, n
    <3>. QED BY <1>1, <2>1, <2>3, <3>1
  <2>8. BuilderOK(c)
    <3>1. (n + 1) - 1 = n
      BY <1>1
    <3>. QED BY <2>1, <2>4, <2>5, <2>6, <2>7, <3>1 DEF BuilderOK, IPC
  <2>9. Gather(c) = Gather(b)
    <3>1. n + 1 \in 1 .. Len(c) /\ (n + 1) - 1 = n /\ n <= Len(c) /\ n <= Len(b) /\ n \in 0 .. Len(b)
      BY <1>1, <2>1 DEF n
    <3>2. UpTo(c)[n + 1] = UpTo(c)[n] \o <<>>
      BY <2>1, <2>6, <3>1, UpToIs
    <3>3. UpTo(c)[n] = UpTo(b)[n] /\ UpTo(b)[n] \in Seq(Nat)
      BY <1>1, <2>1, <3>1, UpToSame, UpToIs
    <3>4. UpTo(c)[n + 1] = UpTo(b)[n]
      BY <3>2, <3>3, ConcatEmptySeq
    <3>. QED BY <2>1, <3>4, GatherForm DEF n
  <2>10. Free(c[Len(c)]) >= IPC
    <3>1. Len(new.data) = 0
      BY <1>6
    <3>. QED BY <1>2, <1>6, <2>1, <3>1 DEF Free
  <2>. QED BY <2>8, <2>9, <2>10 DEF c, IPC
<1>. QED BY <1>7, <1>8

\* Numbers cut in two.
LEMMA CutNumbers ==
  ASSUME NEW v \in Seq(Nat), NEW k \in 0 .. Len(v)
  PROVE  /\ SubSeq(v, 1, k) \in Seq(Nat) /\ Len(SubSeq(v, 1, k)) = k
         /\ SubSeq(v, k + 1, Len(v)) \in Seq(Nat) /\ Len(SubSeq(v, k + 1, Len(v))) = Len(v) - k
         /\ SubSeq(v, 1, k) \o SubSeq(v, k + 1, Len(v)) = v
         /\ \A i \in 1 .. k : SubSeq(v, 1, k)[i] = v[i]
         /\ \A i \in 1 .. Len(v) - k : SubSeq(v, k + 1, Len(v))[i] = v[k + i]
<1>1. Len(v) \in Nat /\ v \in [1 .. Len(v) -> Nat]
  BY LenProperties
<1>2. /\ SubSeq(v, 1, k) \in Seq(Nat) /\ Len(SubSeq(v, 1, k)) = k
      /\ \A i \in 1 .. k : SubSeq(v, 1, k)[i] = v[i]
  <2>1. \A i \in 1 .. k : v[i] \in Nat
    BY <1>1
  <2>2. /\ SubSeq(v, 1, k) \in Seq(Nat)
        /\ Len(SubSeq(v, 1, k)) = IF 1 <= k THEN k - 1 + 1 ELSE 0
        /\ \A i \in 1 .. k - 1 + 1 : SubSeq(v, 1, k)[i] = v[1 + i - 1]
    BY <2>1, SubSeqProperties
  <2>. QED BY <2>2
<1>3. /\ SubSeq(v, k + 1, Len(v)) \in Seq(Nat) /\ Len(SubSeq(v, k + 1, Len(v))) = Len(v) - k
      /\ \A i \in 1 .. Len(v) - k : SubSeq(v, k + 1, Len(v))[i] = v[k + i]
  <2>. DEFINE a == k + 1
              n == Len(v)
  <2>1. a \in Int /\ n \in Int /\ \A i \in a .. n : v[i] \in Nat
    BY <1>1
  <2>2. /\ SubSeq(v, a, n) \in Seq(Nat)
        /\ Len(SubSeq(v, a, n)) = IF a <= n THEN n - a + 1 ELSE 0
        /\ \A i \in 1 .. n - a + 1 : SubSeq(v, a, n)[i] = v[a + i - 1]
    <3>. HIDE DEF a, n
    <3>. QED BY <2>1, SubSeqProperties
  <2>3. n - a + 1 = n - k /\ \A i \in 1 .. n - k : a + i - 1 = k + i
    BY <1>1
  <2>4. n \in Nat /\ k \in 0 .. n /\ a = k + 1
    BY <1>1
  <2>. HIDE DEF a, n
  <2>5. Len(SubSeq(v, a, n)) = n - k /\ \A i \in 1 .. n - k : SubSeq(v, a, n)[i] = v[k + i]
    <3>1. (a <= n /\ n - a + 1 = n - k) \/ (~(a <= n) /\ 0 = n - k)
      BY <2>4
    <3>. QED BY <2>2, <2>3, <3>1
  <2>. QED BY <2>2, <2>5 DEF a, n
<1>4. SubSeq(v, 1, k) \o SubSeq(v, k + 1, Len(v)) = v
  <2>1. 1 \in 1 .. Len(v) + 1 /\ k \in 1 - 1 .. Len(v) /\ Len(v) \in k .. Len(v)
    BY <1>1
  <2>2. SubSeq(v, 1, k) \o SubSeq(v, k + 1, Len(v)) = SubSeq(v, 1, Len(v))
    BY <2>1, ConcatAdjacentSubSeq
  <2>. QED BY <2>2, SubSeqFull
<1>. QED BY <1>2, <1>3, <1>4

\* Joining numbers is associative.
LEMMA NumbersAssociative ==
  ASSUME NEW s \in Seq(Nat), NEW t \in Seq(Nat), NEW u \in Seq(Nat)
  PROVE  (s \o t) \o u = s \o (t \o u)
BY ConcatAssociative

\* advance_output: the values are behind what was written before, and they fit.
LEMMA AdvanceOutputOK ==
  ASSUME NEW b, BuilderOK(b), Free(b[Len(b)]) >= ITEMS_PER_CHUNK,
         NEW v \in Seq(Nat), Len(v) <= ITEMS_PER_CHUNK
  PROVE  LET c == AdvanceOutput(b, v) IN BuilderOK(c) /\ Gather(c) = Gather(b) \o v
<1>. DEFINE n == Len(b)
            c == AdvanceOutput(b, v)
            IPC == ITEMS_PER_CHUNK
            Filling(i) == /\ b[i].data \in Seq(Nat) /\ Len(b[i].data) \in Nat /\ b[i].capacity \in Nat
                          /\ Free(b[i]) = b[i].capacity - Len(b[i].data) /\ Free(b[i]) \in Nat
                          /\ (b[i].data = <<>> <=> Len(b[i].data) = 0)
                          /\ 2 * IPC <= b[i].capacity /\ Len(b[i].data) <= b[i].capacity
<1>1. /\ b \in Seq(Buffer) /\ n \in Nat \ {0} /\ n \in 1 .. n /\ Len(v) \in Nat
  BY BufferIs, LenProperties DEF BuilderOK
<1>7. \A i \in 1 .. n : Filling(i)
  BY BufferIs DEF BuilderOK
<1>8. /\ \A i \in 1 .. n - 2 : Free(b[i]) = 0
      /\ b[n].data # <<>> /\ n > 1 => Free(b[n - 1]) = 0
      /\ \A i \in 1 .. n - 1 : b[i].data # <<>>
  BY DEF BuilderOK
<1>2. IPC \in Nat \ {0} /\ Free(b[n]) >= IPC /\ Len(v) <= IPC
  BY Sizes
<1>3. UpTo(b)[n] = Gather(b) /\ UpTo(b)[n] = UpTo(b)[n - 1] \o b[n].data /\ UpTo(b)[n - 1] \in Seq(Nat)
  BY <1>1, UpToIs, GatherForm
<1>4. c = IF n < 2 THEN Filled(b, 1, v)
          ELSE LET k == Smaller(Len(v), Free(b[n - 1]))
               IN Filled(Filled(b, n - 1, SubSeq(v, 1, k)), n, SubSeq(v, k + 1, Len(v)))
  BY DEF AdvanceOutput
<1>. HIDE DEF n, c, IPC, Filling
<1>5. CASE n < 2
  <2>1. n = 1 /\ n - 1 = 0
    BY <1>1, <1>5
  <2>2. /\ c \in Seq(Buffer) /\ Len(c) = 1 /\ 1 \in 1 .. Len(c)
        /\ c[1].capacity = b[1].capacity /\ c[1].data = b[1].data \o v
        /\ c[1].data \in Seq(Nat) /\ Len(c[1].data) = Len(b[1].data) + Len(v)
    <3>1. 1 \in 1 .. Len(b) /\ c = Filled(b, 1, v)
      BY <1>1, <1>4, <2>1 DEF n
    <3>2. Len(b) = 1
      BY <2>1 DEF n
    <3>3. IsFilled(b, 1, v, c)
      BY <1>1, <3>1, FilledIs
    <3>4. /\ c \in Seq(Buffer) /\ Len(c) = Len(b)
          /\ c[1].capacity = b[1].capacity /\ c[1].data = b[1].data \o v
          /\ c[1].data \in Seq(Nat) /\ Len(c[1].data) = Len(b[1].data) + Len(v)
      BY <3>3 DEF IsFilled
    <3>5. 1 \in 1 .. Len(c)
      BY <3>2, <3>4
    <3>. QED BY <3>2, <3>4, <3>5
  <2>3. c # <<>>
    <3>1. Len(<<>>) = 0
      OBVIOUS
    <3>2. Len(c) # 0
      BY <2>2
    <3>. QED BY <3>1, <3>2
  <2>7. Filling(1) /\ Free(b[1]) >= IPC
    BY <1>1, <1>2, <1>7, <2>1
  <2>4. Len(c[1].data) <= c[1].capacity /\ 2 * IPC <= c[1].capacity
    BY <1>1, <1>2, <2>2, <2>7 DEF Filling
  <2>5. BuilderOK(c)
    <3>1. \A i \in 1 .. 1 : i = 1
      OBVIOUS
    <3>2. 1 .. 1 - 2 = {} /\ 1 .. 1 - 1 = {} /\ ~(1 > 1)
      OBVIOUS
    <3>. QED BY <2>2, <2>3, <2>4, <3>1, <3>2 DEF BuilderOK, IPC
  <2>6. Gather(c) = Gather(b) \o v
    <3>1. UpTo(c)[1] = UpTo(c)[0] \o c[1].data /\ UpTo(c)[0] = <<>> /\ UpTo(b)[0] = <<>> /\ 1 - 1 = 0
      <4>1. 1 - 1 = 0
        OBVIOUS
      <4>2. UpTo(c)[1] = UpTo(c)[1 - 1] \o c[1].data
        BY <2>2, UpToIs
      <4>3. UpTo(c)[0] = <<>> /\ UpTo(b)[0] = <<>>
        BY <1>1, <2>2, UpToIs
      <4>. QED BY <4>1, <4>2, <4>3
    <3>2. UpTo(c)[1] = c[1].data /\ UpTo(b)[1] = b[1].data
      <4>1. b[1].data \in Seq(Nat) /\ UpTo(b)[1] = <<>> \o b[1].data
        BY <1>3, <2>1, <2>7, <3>1 DEF Filling
      <4>. QED BY <2>2, <3>1, <4>1, ConcatEmptySeq
    <3>. QED BY <1>3, <2>1, <2>2, <3>2, GatherForm
  <2>. QED BY <2>5, <2>6 DEF c
<1>6. CASE ~(n < 2)
  <2>. DEFINE p == n - 1
              k == Smaller(Len(v), Free(b[p]))
              v1 == SubSeq(v, 1, k)
              v2 == SubSeq(v, k + 1, Len(v))
              d == Filled(b, p, v1)
  <2>1. p \in 1 .. n /\ p \in Nat /\ p # n /\ n = p + 1 /\ p \in 1 .. n - 1 /\ p - 1 = n - 2 /\ n > 1
    BY <1>1, <1>6
  <2>2. k \in 0 .. Len(v) /\ k <= Free(b[p]) /\ (k = Len(v) \/ k = Free(b[p]))
    <3>1. Free(b[p]) \in Nat
      BY <1>7, <2>1 DEF Filling
    <3>. HIDE DEF p
    <3>. QED BY <1>1, <3>1 DEF Smaller
  <2>3. c = Filled(d, n, v2)
    BY <1>4, <1>6
  <2>. HIDE DEF p, k
  <2>17. Filling(p) /\ Filling(n)
    BY <1>1, <1>7, <2>1
  <2>4. v1 \in Seq(Nat) /\ Len(v1) = k /\ v2 \in Seq(Nat) /\ Len(v2) = Len(v) - k /\ v1 \o v2 = v
    BY <2>2, CutNumbers
  <2>. HIDE DEF v1, v2
  <2>5. /\ d \in Seq(Buffer) /\ Len(d) = n
        /\ d[p].capacity = b[p].capacity /\ d[p].data = b[p].data \o v1
        /\ d[p].data \in Seq(Nat) /\ Len(d[p].data) = Len(b[p].data) + k
        /\ \A j \in 1 .. n : j # p => d[j] = b[j]
    <3>1. p \in 1 .. Len(b)
      BY <2>1 DEF n
    <3>2. IsFilled(b, p, v1, d)
      BY <1>1, <2>4, <3>1, FilledIs DEF d
    <3>. QED BY <2>4, <3>2 DEF IsFilled, n
  <2>. HIDE DEF d
  <2>6. /\ c \in Seq(Buffer) /\ Len(c) = n
        /\ c[n].capacity = b[n].capacity /\ c[n].data = b[n].data \o v2
        /\ c[n].data \in Seq(Nat) /\ Len(c[n].data) = Len(b[n].data) + (Len(v) - k)
        /\ \A j \in 1 .. n : j # n => c[j] = d[j]
    <3>1. n \in 1 .. Len(d)
      BY <1>1, <2>5
    <3>2. d[n] = b[n]
      BY <1>1, <2>1, <2>5
    <3>3. IsFilled(d, n, v2, c)
      BY <2>3, <2>4, <2>5, <3>1, FilledIs
    <3>. QED BY <2>4, <2>5, <3>2, <3>3 DEF IsFilled
  <2>7. /\ c[p].capacity = b[p].capacity /\ c[p].data = b[p].data \o v1
        /\ c[p].data \in Seq(Nat) /\ Len(c[p].data) = Len(b[p].data) + k
        /\ \A j \in 1 .. n - 2 : c[j] = b[j]
    <3>1. \A j \in 1 .. n - 2 : j \in 1 .. n /\ j # n /\ j # p
      BY <1>1, <2>1
    <3>. QED BY <2>1, <2>5, <2>6, <3>1
  <2>8. c # <<>>
    BY <1>1, <2>6, EmptySeq
  <2>9. \A i \in 1 .. n : i \in 1 .. n - 2 \/ i = p \/ i = n
    BY <1>1, <2>1
  <2>10. \A i \in 1 .. n : 2 * IPC <= c[i].capacity /\ Len(c[i].data) <= c[i].capacity
    <3>1. Len(c[n].data) <= c[n].capacity /\ 2 * IPC <= c[n].capacity
      <4>1. /\ Len(b[n].data) \in Nat /\ b[n].capacity \in Nat /\ 2 * IPC <= b[n].capacity
            /\ Free(b[n]) = b[n].capacity - Len(b[n].data)
        BY <2>17 DEF Filling
      <4>2. c[n].capacity = b[n].capacity /\ Len(c[n].data) = Len(b[n].data) + (Len(v) - k)
        BY <2>6
      <4>3. Len(b[n].data) + (Len(v) - k) <= b[n].capacity
        BY <1>1, <1>2, <2>2, <4>1
      <4>. QED BY <4>1, <4>2, <4>3
    <3>2. Len(c[p].data) <= c[p].capacity /\ 2 * IPC <= c[p].capacity
      <4>1. /\ Len(b[p].data) \in Nat /\ b[p].capacity \in Nat /\ 2 * IPC <= b[p].capacity
            /\ Free(b[p]) = b[p].capacity - Len(b[p].data)
        BY <2>17 DEF Filling
      <4>2. c[p].capacity = b[p].capacity /\ Len(c[p].data) = Len(b[p].data) + k
        BY <2>7
      <4>3. Len(b[p].data) + k <= b[p].capacity
        BY <1>1, <2>2, <4>1
      <4>. QED BY <4>1, <4>2, <4>3
    <3>3. \A i \in 1 .. n - 2 : i \in 1 .. n
      BY <1>1
    <3>4. \A i \in 1 .. n : 2 * IPC <= b[i].capacity /\ Len(b[i].data) <= b[i].capacity
      BY <1>7 DEF Filling
    <3>. QED BY <2>7, <2>9, <3>1, <3>2, <3>3, <3>4
  <2>11. \A i \in 1 .. n - 2 : Free(c[i]) = 0
    BY <1>8, <2>7
  <2>12. b[n].data # <<>> => k = 0
    <3>1. b[n].data # <<>> => Free(b[p]) = 0
      BY <1>8, <2>1 DEF p
    <3>. QED BY <2>2, <3>1
  <2>13. c[n].data # <<>> => Free(c[p]) = 0
    <3>. SUFFICES ASSUME c[n].data # <<>> PROVE Free(c[p]) = 0
      OBVIOUS
    <3>1. Len(c[n].data) # 0
      BY <2>6, EmptySeq
    <3>2. Len(b[n].data) # 0 \/ k # Len(v)
      BY <1>1, <2>2, <2>6, <2>17, <3>1 DEF Filling
    <3>3. k = Free(b[p])
      <4>1. CASE Len(b[n].data) # 0
        <5>1. k = 0 /\ Free(b[p]) = 0
          BY <1>8, <2>1, <2>12, <2>17, <4>1 DEF Filling, p
        <5>. QED BY <5>1
      <4>. QED BY <2>2, <3>2, <4>1
    <3>4. Free(c[p]) = c[p].capacity - Len(c[p].data)
      BY DEF Free
    <3>5. /\ Len(b[p].data) \in Nat /\ b[p].capacity \in Nat
          /\ Free(b[p]) = b[p].capacity - Len(b[p].data)
      BY <2>17 DEF Filling
    <3>6. c[p].capacity = b[p].capacity /\ Len(c[p].data) = Len(b[p].data) + k
      BY <2>7
    <3>7. c[p].capacity - Len(c[p].data) = 0
      BY <3>3, <3>5, <3>6
    <3>. QED BY <3>4, <3>7
  <2>14. \A i \in 1 .. n - 1 : c[i].data # <<>>
    <3>1. c[p].data # <<>>
      <4>1. Len(c[p].data) # 0
        <5>1. Len(b[p].data) # 0
          BY <1>8, <2>1, <2>17 DEF Filling
        <5>. QED BY <2>2, <2>7, <2>17, <5>1 DEF Filling
      <4>. QED BY <4>1
    <3>2. \A i \in 1 .. n - 2 : i \in 1 .. n - 1 /\ c[i].data = b[i].data
      BY <1>1, <2>7
    <3>3. \A i \in 1 .. n - 1 : i \in 1 .. n - 2 \/ i = p
      BY <1>1, <2>1
    <3>. QED BY <1>8, <3>1, <3>2, <3>3
  <2>15. BuilderOK(c)
    BY <2>6, <2>8, <2>10, <2>11, <2>13, <2>14 DEF BuilderOK, IPC, p
  <2>16. Gather(c) = Gather(b) \o v
    <3>. DEFINE g == UpTo(b)[p - 1]
                x == b[p].data
                y == b[n].data
    <3>1. /\ p \in 1 .. Len(b) /\ n \in 1 .. Len(b) /\ n - 1 = p
          /\ p \in 1 .. Len(c) /\ n \in 1 .. Len(c) /\ p - 1 \in Nat
          /\ p - 1 <= Len(b) /\ p - 1 <= Len(c) /\ p - 1 \in 0 .. Len(b)
          /\ \A i \in 1 .. p - 1 : i \in 1 .. n - 2
      BY <1>1, <2>1, <2>6 DEF n
    <3>2. UpTo(b)[p] = g \o x /\ g \in Seq(Nat) /\ UpTo(b)[n] = (g \o x) \o y
      BY <1>1, <3>1, UpToIs
    <3>3. UpTo(c)[p - 1] = g
      <4>1. \A i \in 1 .. p - 1 : b[i].data = c[i].data
        BY <2>7, <3>1
      <4>. QED BY <1>1, <2>6, <3>1, <4>1, UpToSame
    <3>4. UpTo(c)[p] = g \o (x \o v1) /\ UpTo(c)[n] = (g \o (x \o v1)) \o (y \o v2)
      BY <2>6, <2>7, <3>1, <3>3, UpToIs
    <3>5. x \in Seq(Nat) /\ y \in Seq(Nat) /\ (y = <<>> \/ v1 = <<>>)
      <4>1. Len(v1) = 0 => v1 = <<>>
        BY <2>4, EmptySeq
      <4>. QED BY <2>4, <2>12, <2>17, <4>1 DEF Filling
    <3>6. Gather(c) = UpTo(c)[n] /\ Gather(b) = UpTo(b)[n]
      BY <1>3, <2>6, GatherForm
    <3>. HIDE DEF g, x, y
    <3>7. (g \o (x \o v1)) \o (y \o v2) = ((g \o x) \o y) \o v
      <4>1. g \o x \in Seq(Nat) /\ g \o (x \o v1) = (g \o x) \o v1 /\ x \o v1 \in Seq(Nat)
        <5>1. g \o x \in Seq(Nat) /\ x \o v1 \in Seq(Nat)
          BY <2>4, <3>2, <3>5, ConcatProperties
        <5>2. g \o (x \o v1) = (g \o x) \o v1
          BY <2>4, <3>2, <3>5, NumbersAssociative
        <5>. QED BY <5>1, <5>2
      <4>. DEFINE z == g \o x
      <4>. HIDE DEF z
      <4>4. z \in Seq(Nat) /\ g \o (x \o v1) = z \o v1
        BY <4>1 DEF z
      <4>2. CASE y = <<>>
        <5>1. y \o v2 = v2 /\ z \o y = z
          BY <2>4, <4>4, <4>2, ConcatEmptySeq
        <5>2. (z \o v1) \o v2 = z \o (v1 \o v2)
          BY <2>4, <4>4, NumbersAssociative
        <5>. QED BY <2>4, <4>4, <5>1, <5>2 DEF z
      <4>3. CASE v1 = <<>>
        <5>1. z \o v1 = z /\ v1 \o v2 = v2
          BY <2>4, <4>4, <4>3, ConcatEmptySeq
        <5>2. z \o (y \o v2) = (z \o y) \o v2
          BY <2>4, <3>5, <4>4, NumbersAssociative
        <5>. QED BY <2>4, <4>4, <5>1, <5>2 DEF z
      <4>. QED BY <3>5, <4>2, <4>3
    <3>. QED BY <3>2, <3>4, <3>6, <3>7
  <2>. QED BY <2>15, <2>16 DEF c
<1>. QED BY <1>5, <1>6

\* A write of at most a chunk.
LEMMA WrittenOK ==
  ASSUME NEW b, BuilderOK(b), NEW v \in Seq(Nat), Len(v) <= ITEMS_PER_CHUNK
  PROVE  BuilderOK(Written(b, v)) /\ Gather(Written(b, v)) = Gather(b) \o v
<1>1. LET c == NextOutput(b) IN
      BuilderOK(c) /\ Gather(c) = Gather(b) /\ Free(c[Len(c)]) >= ITEMS_PER_CHUNK
  BY NextOutputOK
<1>. QED BY <1>1, AdvanceOutputOK DEF Written

\* front_element and back_element.
LEMMA FrontBack ==
  ASSUME NEW b, BuilderOK(b)
  PROVE  /\ Gather(b) \in Seq(Nat)
         /\ Gather(b) # <<>> => /\ Front(b) = Gather(b)[1]
                                /\ Back(b) = Gather(b)[Len(Gather(b))]
<1>. DEFINE n == Len(b)
            g == Gather(b)
<1>1. /\ b \in Seq(Buffer) /\ n \in Nat \ {0} /\ n \in 1 .. n
      /\ \A i \in 1 .. n - 1 : b[i].data # <<>>
      /\ \A i \in 1 .. n : /\ b[i].data \in Seq(Nat) /\ Len(b[i].data) \in Nat
                           /\ (b[i].data = <<>> <=> Len(b[i].data) = 0)
  BY BufferIs DEF BuilderOK
<1>2. g = UpTo(b)[n] /\ g \in Seq(Nat)
  <2>1. n \in 0 .. n
    BY <1>1
  <2>. QED BY <1>1, <2>1, UpToIs, GatherForm
<1>. SUFFICES ASSUME g # <<>>
              PROVE  Front(b) = g[1] /\ Back(b) = g[Len(g)]
  BY <1>2
<1>. HIDE DEF n, g
\* The last buffer that is not empty.
<1>. DEFINE h == HeadOf(b)
<1>3. h = IF n > 1 /\ b[n].data = <<>> THEN n - 1 ELSE n
  BY DEF HeadOf, n
<1>. HIDE DEF h
<1>4. h \in 1 .. n /\ h \in Nat /\ h - 1 \in 0 .. n /\ g = UpTo(b)[h] /\ b[h].data # <<>>
  <2>1. CASE b[n].data # <<>>
    BY <1>1, <1>2, <1>3, <2>1
  <2>2. CASE b[n].data = <<>>
    <3>1. g = UpTo(b)[n - 1] /\ UpTo(b)[n - 1] \in Seq(Nat)
      <4>1. UpTo(b)[n] = UpTo(b)[n - 1] \o <<>> /\ UpTo(b)[n - 1] \in Seq(Nat)
        BY <1>1, <2>2, UpToIs DEF n
      <4>. QED BY <1>2, <4>1, ConcatEmptySeq
    <3>2. n > 1
      <4>1. n = 1 => n - 1 = 0
        OBVIOUS
      <4>2. n # 1
        BY <1>1, <3>1, <4>1, UpToIs
      <4>. QED BY <1>1, <4>2
    <3>3. h = n - 1 /\ h \in 1 .. n - 1
      BY <1>1, <1>3, <2>2, <3>2
    <3>. QED BY <1>1, <3>1, <3>2, <3>3
  <2>. QED BY <2>1, <2>2
<1>5. Back(b) = g[Len(g)]
  <2>. DEFINE x == b[h].data
              f == UpTo(b)[h - 1]
  <2>1. g = f \o x /\ f \in Seq(Nat) /\ x \in Seq(Nat) /\ Len(x) \in Nat \ {0} /\ Len(f) \in Nat
    BY <1>1, <1>4, UpToIs, LenProperties DEF n
  <2>2. Back(b) = x[Len(x)]
    BY DEF Back, h
  <2>. HIDE DEF x, f
  <2>3. Len(g) = Len(f) + Len(x) /\ \A i \in 1 .. Len(f) + Len(x) :
          g[i] = IF i <= Len(f) THEN f[i] ELSE x[i - Len(f)]
    BY <2>1, ConcatProperties
  <2>4. Len(g) \in 1 .. Len(f) + Len(x) /\ ~(Len(g) <= Len(f)) /\ Len(g) - Len(f) = Len(x)
    BY <2>1, <2>3
  <2>5. g[Len(g)] = x[Len(x)]
    BY <2>3, <2>4
  <2>. QED BY <2>2, <2>5
<1>6. Front(b) = g[1]
  <2>. DEFINE x == b[1].data
              T == {k \in Nat : k + 1 <= n => /\ Len(UpTo(b)[k + 1]) >= 1
                                              /\ UpTo(b)[k + 1][1] = x[1]}
  <2>1. x \in Seq(Nat) /\ Len(x) \in Nat \ {0}
    <3>1. 1 \in 1 .. n /\ (1 \in 1 .. n - 1 \/ (n = 1 /\ h = 1))
      BY <1>1, <1>4
    <3>. QED BY <1>1, <1>4, <3>1
  <2>2. 0 \in T
    <3>1. 1 \in 1 .. Len(b) /\ 1 - 1 = 0 /\ 0 + 1 = 1
      BY <1>1 DEF n
    <3>2. UpTo(b)[1] = UpTo(b)[1 - 1] \o x
      BY <1>1, <3>1, UpToIs
    <3>3. UpTo(b)[1] = x
      <4>1. UpTo(b)[0] = <<>>
        BY <1>1, UpToIs
      <4>. HIDE DEF x
      <4>. QED BY <2>1, <3>1, <3>2, <4>1, ConcatEmptySeq
    <3>. HIDE DEF x
    <3>. QED BY <2>1, <3>1, <3>3
  <2>3. ASSUME NEW k \in Nat, k \in T PROVE k + 1 \in T
    <3>. SUFFICES ASSUME (k + 1) + 1 <= n
                  PROVE  /\ Len(UpTo(b)[(k + 1) + 1]) >= 1
                         /\ UpTo(b)[(k + 1) + 1][1] = x[1]
      OBVIOUS
    <3>. DEFINE m == (k + 1) + 1
                f == UpTo(b)[k + 1]
                z == b[m].data
    <3>1. m \in 1 .. n /\ m - 1 = k + 1 /\ k + 1 <= n
      BY <1>1
    <3>2. UpTo(b)[m] = f \o z /\ f \in Seq(Nat) /\ z \in Seq(Nat)
      BY <1>1, <3>1, UpToIs DEF n
    <3>3. Len(f) >= 1 /\ f[1] = x[1]
      BY <2>3, <3>1
    <3>. HIDE DEF m, f, z, x
    <3>4. Len(f) \in Nat /\ Len(z) \in Nat
      BY <3>2, LenProperties
    <3>5. Len(f \o z) = Len(f) + Len(z) /\ \A i \in 1 .. Len(f) + Len(z) :
            (f \o z)[i] = IF i <= Len(f) THEN f[i] ELSE z[i - Len(f)]
      BY <3>2, ConcatProperties
    <3>6. 1 \in 1 .. Len(f) + Len(z)
      BY <3>3, <3>4
    <3>7. Len(UpTo(b)[m]) >= 1 /\ UpTo(b)[m][1] = x[1]
      BY <3>2, <3>3, <3>4, <3>5, <3>6
    <3>. QED BY <3>7 DEF m, x
  <2>4. Nat \subseteq T
    <3>. HIDE DEF T
    <3>. QED BY <2>2, <2>3, NatSetInduction
  <2>5. n - 1 \in T /\ (n - 1) + 1 = n /\ n <= n
    <3>1. n - 1 \in Nat /\ (n - 1) + 1 = n /\ n <= n
      BY <1>1
    <3>. HIDE DEF T
    <3>. QED BY <2>4, <3>1
  <2>6. UpTo(b)[n][1] = x[1]
    BY <2>5
  <2>. QED BY <1>2, <2>6 DEF Front
<1>. QED BY <1>5, <1>6

----------------------------------------------------------------------------
(* The chunk and the matches in it.                                        *)

CaseOK == text \in Seq(Alphabet) /\ DelimOK /\ offset \in Nat /\ size \in Nat

ScanBegin == Larger(0, offset - Len(delim))

\* Where the scan is.
ChunkOK ==
  /\ chunk_offset \in Nat /\ ScanBegin <= chunk_offset
  /\ chunk_offset <= Len(text) \/ chunk_offset = ScanBegin
  /\ chunk = NextChunk(Smaller(chunk_offset, Len(text)))
  /\ position = Smaller(chunk_offset, Len(text)) + Len(chunk)

\* What the carried multistate knows.
CarryOK ==
  /\ \E w \in Seq(Alphabet) : carry = Known(w)
  /\ chunk # <<>> /\ Len(delim) # 1 => carry = Known(SubSeq(text, ScanBegin + 1, chunk_offset))

\* The arguments.
LEMMA CaseFacts ==
  ASSUME CaseOK
  PROVE  /\ Len(text) \in Nat /\ Len(delim) \in Nat \ {0} /\ offset \in Nat /\ size \in Nat
         /\ text \in [1 .. Len(text) -> Alphabet] /\ delim \in [1 .. Len(delim) -> Alphabet]
         /\ ScanBegin \in Nat /\ ScanBegin <= offset
         /\ ScanBegin = 0 \/ ScanBegin = offset - Len(delim)
         /\ offset - Len(delim) <= ScanBegin
<1>1. Len(text) \in Nat /\ Len(delim) \in Nat \ {0} /\ offset \in Nat /\ size \in Nat
  BY LenProperties, EmptySeq DEF CaseOK, DelimOK
<1>2. text \in [1 .. Len(text) -> Alphabet] /\ delim \in [1 .. Len(delim) -> Alphabet]
  BY LenProperties DEF CaseOK, DelimOK
<1>. QED BY <1>1, <1>2 DEF ScanBegin, Larger

\* A cut of the text.
LEMMA TextCut ==
  ASSUME CaseOK, NEW a \in 0 .. Len(text), NEW b \in a .. Len(text)
  PROVE  /\ SubSeq(text, a + 1, b) \in Seq(Alphabet) /\ Len(SubSeq(text, a + 1, b)) = b - a
         /\ \A i \in 1 .. b - a : SubSeq(text, a + 1, b)[i] = text[a + i]
BY PartFacts DEF CaseOK

\* Where a delimiter ends.
LEMMA EndsAre ==
  ASSUME CaseOK, NEW x
  PROVE  x \in Ends <=> /\ x \in Len(delim) .. Len(text)
                        /\ \A i \in 1 .. Len(delim) : text[x - Len(delim) + i] = delim[i]
<1>. DEFINE D == Len(delim)
            N == Len(text)
            p == SubSeq(text, x - D + 1, x)
<1>1. D \in Nat \ {0} /\ N \in Nat
  BY CaseFacts
<1>2. SUFFICES ASSUME x \in D .. N
               PROVE  p = delim <=> \A i \in 1 .. D : text[x - D + i] = delim[i]
  BY DEF Ends
<1>3. x - D \in 0 .. N /\ x \in x - D .. N /\ x - (x - D) = D
  BY <1>1, <1>2
<1>4. p \in Seq(Alphabet) /\ Len(p) = D /\ \A i \in 1 .. D : p[i] = text[x - D + i]
  <2>. DEFINE a == x - D
  <2>1. a \in 0 .. N /\ x \in a .. N /\ x - a = D
    BY <1>3
  <2>. HIDE DEF a
  <2>2. /\ SubSeq(text, a + 1, x) \in Seq(Alphabet) /\ Len(SubSeq(text, a + 1, x)) = x - a
        /\ \A i \in 1 .. x - a : SubSeq(text, a + 1, x)[i] = text[a + i]
    BY <2>1, TextCut
  <2>3. /\ SubSeq(text, a + 1, x) \in Seq(Alphabet) /\ Len(SubSeq(text, a + 1, x)) = D
        /\ \A i \in 1 .. D : SubSeq(text, a + 1, x)[i] = text[a + i]
    BY <2>1, <2>2
  <2>. QED BY <2>3 DEF a
<1>5. delim \in Seq(Alphabet)
  BY DEF CaseOK, DelimOK
<1>. HIDE DEF p, D
<1>6. (\A i \in 1 .. D : p[i] = delim[i]) => p = delim
  BY <1>4, <1>5, SeqEqual DEF D
<1>. QED BY <1>4, <1>6 DEF D

\* A match in what was scanned is an end of a delimiter at or after the offset.
LEMMA ScannedEnds ==
  ASSUME CaseOK, NEW x \in ScanBegin .. Len(text)
  PROVE  Suffix(SubSeq(text, ScanBegin + 1, x), Len(delim)) <=> x \in Ends /\ offset <= x
<1>. DEFINE D == Len(delim)
            N == Len(text)
            a == ScanBegin
            w == SubSeq(text, a + 1, x)
<1>1. /\ D \in Nat \ {0} /\ N \in Nat /\ offset \in Nat /\ a \in Nat /\ x \in Nat
      /\ a = 0 \/ a = offset - D
      /\ offset - D <= a /\ a \in 0 .. N /\ x \in a .. N
  BY CaseFacts
<1>2. Len(w) = x - a /\ \A i \in 1 .. x - a : w[i] = text[a + i]
  BY <1>1, TextCut
<1>3. x \in Ends <=> x \in D .. N /\ \A i \in 1 .. D : text[x - D + i] = delim[i]
  BY EndsAre
<1>. HIDE DEF w, a, D, N
<1>4. D <= x - a <=> x \in D .. N /\ offset <= x
  BY <1>1
<1>5. ASSUME D <= x - a, NEW i \in 1 .. D
      PROVE  w[Len(w) - D + i] = text[x - D + i]
  <2>1. Len(w) - D + i = x - a - D + i /\ x - a - D + i \in 1 .. x - a /\ a + (x - a - D + i) = x - D + i
    BY <1>1, <1>2, <1>5
  <2>. QED BY <1>2, <2>1
<1>6. Suffix(w, D) <=> D <= x - a /\ \A i \in 1 .. D : w[Len(w) - D + i] = delim[i]
  BY <1>2 DEF Suffix
<1>7. Suffix(w, D) <=> D <= x - a /\ \A i \in 1 .. D : text[x - D + i] = delim[i]
  BY <1>5, <1>6
<1>8. Suffix(w, D) <=> x \in Ends /\ offset <= x
  BY <1>3, <1>4, <1>7
<1>. QED BY <1>8 DEF w, a, D

\* The chunk that is scanned next.
LEMMA ChunkIs ==
  ASSUME CaseOK, ChunkOK
  PROVE  /\ chunk \in Seq(Alphabet) /\ Len(chunk) \in 0 .. ITEMS_PER_CHUNK
         /\ chunk = <<>> <=> Len(text) <= chunk_offset
         /\ chunk # <<>> => /\ Len(chunk) > 0 /\ chunk_offset + Len(chunk) <= Len(text)
                            /\ chunk = SubSeq(text, chunk_offset + 1, chunk_offset + Len(chunk))
                            /\ \A i \in 1 .. Len(chunk) : chunk[i] = text[chunk_offset + i]
                            /\ position = chunk_offset + Len(chunk)
                            /\ chunk_offset + Len(chunk) < Len(text)
                                 => Len(chunk) = ITEMS_PER_CHUNK
<1>. DEFINE N == Len(text)
            a == Smaller(chunk_offset, N)
            b == Smaller(a + ITEMS_PER_CHUNK, N)
<1>1. N \in Nat /\ chunk_offset \in Nat /\ ITEMS_PER_CHUNK \in Nat \ {0}
  BY CaseFacts, Sizes DEF ChunkOK
<1>2. /\ a \in 0 .. N /\ b \in a .. N /\ b - a <= ITEMS_PER_CHUNK
      /\ b - a = 0 <=> N <= chunk_offset
      /\ ~(N <= chunk_offset) => a = chunk_offset
      /\ b < N => b - a = ITEMS_PER_CHUNK
  BY <1>1 DEF Smaller
<1>3. chunk = SubSeq(text, a + 1, b) /\ position = a + Len(chunk)
  BY DEF ChunkOK, NextChunk
<1>. HIDE DEF a, b
<1>4. chunk \in Seq(Alphabet) /\ Len(chunk) = b - a /\ \A i \in 1 .. b - a : chunk[i] = text[a + i]
  BY <1>2, <1>3, TextCut
<1>5. chunk = <<>> <=> Len(chunk) = 0
  BY <1>4, EmptySeq
<1>6. b = a + Len(chunk)
  BY <1>2, <1>4
<1>. HIDE DEF N
<1>7. (chunk = <<>> <=> N <= chunk_offset) /\ Len(chunk) \in 0 .. ITEMS_PER_CHUNK
  BY <1>1, <1>2, <1>4, <1>5
<1>8. ASSUME chunk # <<>>
      PROVE  /\ Len(chunk) > 0 /\ chunk_offset + Len(chunk) <= N
             /\ chunk = SubSeq(text, chunk_offset + 1, chunk_offset + Len(chunk))
             /\ \A i \in 1 .. Len(chunk) : chunk[i] = text[chunk_offset + i]
             /\ position = chunk_offset + Len(chunk)
             /\ chunk_offset + Len(chunk) < N => Len(chunk) = ITEMS_PER_CHUNK
  <2>1. a = chunk_offset
    BY <1>2, <1>7, <1>8
  <2>2. Len(chunk) > 0
    BY <1>5, <1>7, <1>8
  <2>. QED BY <1>2, <1>3, <1>4, <1>6, <2>1, <2>2
<1>. QED BY <1>4, <1>7, <1>8 DEF N

\* The items of the last tile past the end of the chunk.
LEMMA Rounded ==
  ASSUME NEW n \in Nat, NEW k \in Nat \ {0}
  PROVE  (0 - n) % k \in Nat /\ \E m \in Nat : n + ((0 - n) % k) = m * k
<1>. DEFINE d == (0 - n) \div k
            r == (0 - n) % k
<1>1. d \in Int /\ r \in 0 .. k - 1 /\ 0 - n = k * d + r
  OBVIOUS
<1>. HIDE DEF d, r
<1>2. n + r = (0 - d) * k
  BY <1>1
<1>3. 0 - d \in Nat
  <2>1. CASE d > 0
    <3>1. k * d >= 0
      BY <1>1, <2>1
    <3>2. n = 0 /\ r = 0 /\ k * d = 0
      BY <1>1, <3>1
    <3>3. k * d > 0
      BY <1>1, <2>1
    <3>. QED BY <3>2, <3>3
  <2>. QED BY <1>1, <2>1
<1>4. r \in Nat /\ \E m \in Nat : n + r = m * k
  BY <1>1, <1>2, <1>3
<1>. QED BY <1>4 DEF r

Pads == [1 .. (0 - Len(chunk)) % ITEMS_PER_TILE -> Alphabet]

\* The items of a launch: the chunk, and whatever is behind it.
LEMMA ItemsOfLaunch ==
  ASSUME CaseOK, ChunkOK, chunk # <<>>, NEW pad \in Pads
  PROVE  LET chars == chunk \o pad
             tiles == Len(chars) \div ITEMS_PER_TILE
         IN /\ chars \in Seq(Alphabet) /\ tiles \in Nat /\ Len(chars) = tiles * ITEMS_PER_TILE
            /\ Len(chunk) \in 0 .. Len(chars)
            /\ \A i \in 1 .. Len(chunk) : chars[i] = text[chunk_offset + i]
            /\ \A e \in 0 .. Len(chunk) :
                 SubSeq(chars, 1, e) = SubSeq(text, chunk_offset + 1, chunk_offset + e)
            /\ chunk_offset + Len(chunk) < Len(text) => Len(chars) = Len(chunk)
<1>. DEFINE T == ITEMS_PER_TILE
            r == (0 - Len(chunk)) % T
            chars == chunk \o pad
            c == chunk_offset
<1>1. /\ chunk \in Seq(Alphabet) /\ Len(chunk) \in Nat /\ c \in Nat
      /\ c + Len(chunk) <= Len(text)
      /\ \A i \in 1 .. Len(chunk) : chunk[i] = text[c + i]
      /\ c + Len(chunk) < Len(text) => Len(chunk) = ITEMS_PER_CHUNK
  BY ChunkIs, LenProperties DEF ChunkOK
<1>2. T \in Nat \ {0} /\ TILES_PER_CHUNK \in Nat /\ ITEMS_PER_CHUNK = TILES_PER_CHUNK * T
  BY Sizes
<1>. HIDE DEF T
<1>3. r \in 0 .. T - 1 /\ \E m \in Nat : Len(chunk) + r = m * T
  <2>1. r \in 0 .. T - 1
    BY <1>1, <1>2
  <2>. QED BY <1>1, <1>2, <2>1, Rounded
<1>4. pad \in [1 .. r -> Alphabet]
  BY DEF Pads, T
<1>. HIDE DEF r
<1>5. pad \in Seq(Alphabet) /\ Len(pad) = r
  BY <1>3, <1>4
<1>6. /\ chars \in Seq(Alphabet) /\ Len(chars) = Len(chunk) + r
      /\ \A i \in 1 .. Len(chunk) : chars[i] = chunk[i]
  BY <1>1, <1>5, ConcatFacts
<1>. HIDE DEF chars
<1>7. Len(chunk) \in 0 .. Len(chars) /\ Len(chars) \in Nat
  BY <1>1, <1>3, <1>6
<1>8. PICK m \in Nat : Len(chars) = m * T
  BY <1>3, <1>6
<1>9. Len(chars) \div T = m
  BY <1>2, <1>8, WholeParts
<1>10. ASSUME NEW e \in 0 .. Len(chunk)
       PROVE  SubSeq(chars, 1, e) = SubSeq(text, c + 1, c + e)
  <2>1. e \in 0 .. Len(chars) /\ c \in 0 .. Len(text) /\ c + e \in c .. Len(text) /\ (c + e) - c = e
        /\ e \in Nat
    BY <1>1, <1>7, CaseFacts
  <2>. DEFINE u == SubSeq(chars, 0 + 1, e)
              v == SubSeq(text, c + 1, c + e)
  <2>2. u \in Seq(Alphabet) /\ Len(u) = e /\ \A i \in 1 .. e : u[i] = chars[i]
    <3>1. 0 \in 0 .. Len(chars) /\ e \in 0 .. Len(chars) /\ e - 0 = e /\ \A i \in 1 .. e : 0 + i = i
      BY <1>7, <2>1
    <3>2. /\ u \in Seq(Alphabet) /\ Len(u) = e - 0
          /\ \A i \in 1 .. e - 0 : u[i] = chars[0 + i]
      BY <1>6, <3>1, PartFacts
    <3>. HIDE DEF u
    <3>. QED BY <3>1, <3>2
  <2>3. v \in Seq(Alphabet) /\ Len(v) = e /\ \A i \in 1 .. e : v[i] = text[c + i]
    <3>1. /\ v \in Seq(Alphabet) /\ Len(v) = (c + e) - c
          /\ \A i \in 1 .. (c + e) - c : v[i] = text[c + i]
      BY <2>1, TextCut
    <3>. HIDE DEF v
    <3>. QED BY <2>1, <3>1
  <2>4. SubSeq(chars, 1, e) = u
    OBVIOUS
  <2>. HIDE DEF u, v
  <2>5. \A i \in 1 .. e : i \in 1 .. Len(chunk)
    BY <1>1
  <2>6. \A i \in 1 .. e : u[i] = v[i]
    BY <1>1, <1>6, <2>2, <2>3, <2>5
  <2>7. u = v
    BY <2>2, <2>3, <2>6, SeqEqual
  <2>. QED BY <2>4, <2>7 DEF v
<1>11. c + Len(chunk) < Len(text) => Len(chars) = Len(chunk)
  <2>. SUFFICES ASSUME c + Len(chunk) < Len(text) PROVE r = 0
    BY <1>1, <1>6
  <2>1. TILES_PER_CHUNK * T + r = m * T
    BY <1>1, <1>2, <1>6, <1>8
  <2>2. (m - TILES_PER_CHUNK) * T = r
    BY <1>2, <1>3, <2>1
  <2>. DEFINE j == m - TILES_PER_CHUNK
  <2>3. j \in Int /\ j * T = r
    BY <1>2, <2>2
  <2>. HIDE DEF j
  <2>4. j >= 1 => j * T >= T
    BY <1>2, <2>3
  <2>5. j <= -1 => j * T < 0
    BY <1>2, <2>3
  <2>6. j = 0
    BY <1>2, <1>3, <2>3, <2>4, <2>5
  <2>. QED BY <1>2, <2>3, <2>6
<1>12. \A i \in 1 .. Len(chunk) : chars[i] = text[c + i]
  BY <1>1, <1>6
<1>. QED BY <1>6, <1>7, <1>8, <1>9, <1>10, <1>11, <1>12 DEF chars, T

MatchEnds(pad) ==
  IF Len(delim) = 1 THEN ByteMatches(chunk \o pad, Len(chunk))
  ELSE KernelMatches(chunk \o pad, Len(chunk))

(* The ends of delimiters in the chunk. *)
Found == {e \in Ends : offset <= e /\ chunk_offset < e /\ e <= chunk_offset + Len(chunk)}

\* The kernels find them, whatever is behind the chunk.
LEMMA FoundAre ==
  ASSUME CaseOK, ChunkOK, CarryOK, chunk # <<>>, NEW pad \in Pads
  PROVE  {chunk_offset + e : e \in MatchEnds(pad)} = Found
<1>. DEFINE c == chunk_offset
            n == Len(chunk)
            chars == chunk \o pad
            M == MatchEnds(pad)
            tiles == Len(chars) \div ITEMS_PER_TILE
            D == Len(delim)
            N == Len(text)
<1>1. /\ c \in Nat /\ ScanBegin \in Nat /\ ScanBegin <= c /\ n \in Nat /\ c + n <= N /\ N \in Nat
      /\ D \in Nat \ {0} /\ offset \in Nat /\ offset - D <= ScanBegin
  BY ChunkIs, CaseFacts DEF ChunkOK
<1>2. /\ chars \in Seq(Alphabet) /\ tiles \in Nat /\ Len(chars) = tiles * ITEMS_PER_TILE
      /\ n \in 0 .. Len(chars)
      /\ \A i \in 1 .. n : chars[i] = text[c + i]
      /\ \A e \in 0 .. n : SubSeq(chars, 1, e) = SubSeq(text, c + 1, c + e)
  BY ItemsOfLaunch
<1>. HIDE DEF n, chars, tiles
<1>3. ASSUME NEW e \in 1 .. n
      PROVE  e \in M <=> c + e \in Ends /\ offset <= c + e
  <2>1. c + e \in ScanBegin .. N /\ c + e \in Nat
    BY <1>1
  <2>2. CASE D = 1
    <3>1. e \in M <=> chars[e] = delim[1]
      BY <2>2 DEF MatchEnds, ByteMatches, n, chars
    <3>2. offset <= c + e /\ c + e \in 1 .. N /\ c + e - 1 + 1 = c + e
      BY <1>1, <2>2
    <3>3. c + e \in Ends <=> text[c + e] = delim[1]
      <4>1. c + e \in Ends <=> \A i \in 1 .. 1 : text[c + e - 1 + i] = delim[i]
        BY <2>2, <3>2, EndsAre
      <4>2. \A i \in 1 .. 1 : i = 1
        OBVIOUS
      <4>3. 1 \in 1 .. 1
        OBVIOUS
      <4>. QED BY <3>2, <4>1, <4>2, <4>3
    <3>. QED BY <1>2, <3>1, <3>2, <3>3
  <2>3. CASE D # 1
    <3>. DEFINE w == SubSeq(text, ScanBegin + 1, c)
    <3>1. ScanBegin \in 0 .. N /\ c \in ScanBegin .. N
      BY <1>1
    <3>2. w \in Seq(Alphabet) /\ carry = Known(w)
      BY <2>3, <3>1, TextCut DEF CarryOK
    <3>3. M = {i \in 1 .. n : Suffix(w \o SubSeq(chars, 1, i), D)}
      <4>1. M = KernelMatches(chars, n)
        BY <2>3 DEF MatchEnds, chars, n
      <4>2. DelimOK
        BY DEF CaseOK
      <4>. HIDE DEF w
      <4>. QED BY <1>2, <3>2, <4>1, <4>2, KernelMatchesAre
    <3>4. SubSeq(chars, 1, e) = SubSeq(text, c + 1, c + e)
      BY <1>1, <1>2
    <3>5. w \o SubSeq(text, c + 1, c + e) = SubSeq(text, ScanBegin + 1, c + e)
      <4>1. /\ ScanBegin + 1 \in 1 .. N + 1 /\ c \in (ScanBegin + 1) - 1 .. N
            /\ c + e \in c .. N
        BY <1>1
      <4>2. text \in Seq(Alphabet)
        BY DEF CaseOK
      <4>. QED BY <4>1, <4>2, ConcatAdjacentSubSeq
    <3>6. Suffix(SubSeq(text, ScanBegin + 1, c + e), D) <=> c + e \in Ends /\ offset <= c + e
      BY <2>1, ScannedEnds
    <3>. QED BY <3>3, <3>4, <3>5, <3>6
  <2>. QED BY <2>2, <2>3
<1>4. M \subseteq 1 .. n
  <2>1. CASE D = 1
    BY <2>1 DEF MatchEnds, ByteMatches, n
  <2>2. CASE D # 1
    <3>1. PICK w \in Seq(Alphabet) : carry = Known(w)
      BY DEF CarryOK
    <3>2. DelimOK
      BY DEF CaseOK
    <3>3. KernelMatches(chars, n) = {i \in 1 .. n : Suffix(w \o SubSeq(chars, 1, i), D)}
      BY <1>2, <3>1, <3>2, KernelMatchesAre
    <3>4. M = KernelMatches(chars, n)
      BY <2>2 DEF MatchEnds, chars, n
    <3>. QED BY <3>3, <3>4
  <2>. QED BY <2>1, <2>2
<1>. HIDE DEF M
<1>5. ASSUME NEW x \in {c + e : e \in M} PROVE x \in Found
  <2>1. PICK e \in M : x = c + e
    BY <1>5
  <2>2. e \in 1 .. n /\ c < c + e /\ c + e <= c + n
    BY <1>1, <1>4, <2>1
  <2>. QED BY <1>3, <2>1, <2>2 DEF Found, n
<1>6. ASSUME NEW x \in Found PROVE x \in {c + e : e \in M}
  <2>1. x \in Ends /\ offset <= x /\ c < x /\ x <= c + n
    BY DEF Found, n
  <2>2. x \in D .. N
    BY <2>1, EndsAre
  <2>3. x - c \in 1 .. n /\ c + (x - c) = x
    BY <1>1, <2>1, <2>2
  <2>4. x - c \in M
    BY <1>3, <2>1, <2>3
  <2>. QED BY <2>3, <2>4
<1>. QED BY <1>5, <1>6 DEF M

\* The carried multistate after a launch.
CarryAfter(pad) ==
  IF Len(delim) = 1 THEN carry
  ELSE TilePrefix(chunk \o pad, Len(chunk \o pad) \div ITEMS_PER_TILE)
         [Len(chunk \o pad) \div ITEMS_PER_TILE]

\* The carried multistate knows what was scanned, until the last chunk.
LEMMA CarryAfterIs ==
  ASSUME CaseOK, ChunkOK, CarryOK, chunk # <<>>, NEW pad \in Pads
  PROVE  /\ \E w \in Seq(Alphabet) : CarryAfter(pad) = Known(w)
         /\ chunk_offset + Len(chunk) < Len(text) /\ Len(delim) # 1
              => CarryAfter(pad) = Known(SubSeq(text, ScanBegin + 1, chunk_offset + Len(chunk)))
<1>1. CASE Len(delim) = 1
  BY <1>1 DEF CarryAfter, CarryOK
<1>2. CASE Len(delim) # 1
  <2>. DEFINE chars == chunk \o pad
              tiles == Len(chars) \div ITEMS_PER_TILE
              c == chunk_offset
              n == Len(chunk)
              w == SubSeq(text, ScanBegin + 1, c)
  <2>1. /\ c \in Nat /\ ScanBegin \in Nat /\ ScanBegin <= c /\ n \in Nat /\ c + n <= Len(text)
        /\ Len(text) \in Nat
    BY ChunkIs, CaseFacts DEF ChunkOK
  <2>2. /\ chars \in Seq(Alphabet) /\ tiles \in Nat /\ Len(chars) = tiles * ITEMS_PER_TILE
        /\ n \in 0 .. Len(chars)
        /\ \A e \in 0 .. n : SubSeq(chars, 1, e) = SubSeq(text, c + 1, c + e)
        /\ c + n < Len(text) => Len(chars) = n
    BY ItemsOfLaunch
  <2>3. ScanBegin \in 0 .. Len(text) /\ c \in ScanBegin .. Len(text)
    BY <2>1
  <2>4. w \in Seq(Alphabet) /\ carry = Known(w)
    BY <1>2, <2>3, TextCut DEF CarryOK
  <2>5. CarryAfter(pad) = TilePrefix(chars, tiles)[tiles]
    BY <1>2 DEF CarryAfter
  <2>. HIDE DEF chars, tiles, w, n
  <2>6. DelimOK /\ tiles \in 0 .. tiles
    BY <2>2 DEF CaseOK
  <2>7. /\ TilePrefix(chars, tiles)[tiles] = Known(w \o SubSeq(chars, 1, tiles * ITEMS_PER_TILE))
        /\ SubSeq(chars, 1, tiles * ITEMS_PER_TILE) \in Seq(Alphabet)
    BY <2>2, <2>4, <2>6, TilePrefixIs
  <2>8. /\ CarryAfter(pad) = Known(w \o SubSeq(chars, 1, Len(chars)))
        /\ SubSeq(chars, 1, Len(chars)) \in Seq(Alphabet)
    BY <2>2, <2>5, <2>7
  <2>9. w \o SubSeq(chars, 1, Len(chars)) \in Seq(Alphabet)
    BY <2>4, <2>8, ConcatProperties
  <2>10. ASSUME c + n < Len(text)
         PROVE  w \o SubSeq(chars, 1, Len(chars)) = SubSeq(text, ScanBegin + 1, c + n)
    <3>1. SubSeq(chars, 1, Len(chars)) = SubSeq(text, c + 1, c + n)
      BY <2>1, <2>2, <2>10
    <3>2. /\ ScanBegin + 1 \in 1 .. Len(text) + 1 /\ c \in (ScanBegin + 1) - 1 .. Len(text)
          /\ c + n \in c .. Len(text)
      BY <2>1
    <3>3. text \in Seq(Alphabet)
      BY DEF CaseOK
    <3>4. w \o SubSeq(text, c + 1, c + n) = SubSeq(text, ScanBegin + 1, c + n)
      BY <3>2, <3>3, ConcatAdjacentSubSeq DEF w
    <3>. QED BY <3>1, <3>4
  <2>. QED BY <2>8, <2>9, <2>10 DEF n
<1>. QED BY <1>1, <1>2

\* No multistate holds more than a delimiter has characters.
LEMMA KnownTails ==
  ASSUME CaseOK, ~Refused, NEW w, NEW s \in Known(w)
  PROVE  s[2] <= max_segment_value
<1>1. PICK t \in 0 .. Len(delim) : s = <<0, t>>
  BY MultiMembers
<1>2. Len(delim) < max_segment_value /\ Len(delim) \in Nat /\ max_segment_value \in Nat
  BY CaseFacts, SplitAssumption DEF Refused
<1>. QED BY <1>1, <1>2

(* The most segments after a launch. *)
SegmentsAfter(pad) ==
  IF Len(delim) = 1 THEN segments
  ELSE CHOOSE n \in SegmentsUsed(chunk \o pad) \cup {segments} :
         \A k \in SegmentsUsed(chunk \o pad) \cup {segments} : k <= n

\* A launch needs no more segments than there are.
LEMMA SegmentsAfterFit ==
  ASSUME CaseOK, ChunkOK, CarryOK, ~Refused, chunk # <<>>, NEW pad \in Pads,
         segments \in 0 .. max_segment_count
  PROVE  SegmentsAfter(pad) \in 0 .. max_segment_count
<1>1. CASE Len(delim) = 1
  BY <1>1 DEF SegmentsAfter
<1>2. CASE Len(delim) # 1
  <2>. DEFINE chars == chunk \o pad
              tiles == Len(chars) \div ITEMS_PER_TILE
              S == SegmentsUsed(chars) \cup {segments}
  <2>1. chars \in Seq(Alphabet) /\ tiles \in Nat /\ Len(chars) = tiles * ITEMS_PER_TILE
    BY ItemsOfLaunch
  <2>. HIDE DEF chars, tiles
  <2>2. PICK w \in Seq(Alphabet) : carry = Known(w)
    BY DEF CarryOK
  <2>3. DelimOK /\ max_segment_count \in Nat
    BY SplitAssumption DEF CaseOK
  <2>4. SegmentsUsed(chars) \subseteq 0 .. max_segment_count
    BY <2>1, <2>2, <2>3, SegmentsUsedFit
  <2>5. S \in SUBSET (0 .. max_segment_count) /\ S # {}
    BY <2>4
  <2>. HIDE DEF S
  <2>6. \E m \in S : \A k \in S : k <= m
    BY <2>3, <2>5, GreatestExists
  <2>7. SegmentsAfter(pad) = CHOOSE n \in S : \A k \in S : k <= n
    BY <1>2 DEF SegmentsAfter, S, chars
  <2>8. SegmentsAfter(pad) \in S
    BY <2>6, <2>7
  <2>. QED BY <2>5, <2>8
<1>. QED BY <1>1, <1>2

----------------------------------------------------------------------------
(* The ends that the output has after the first c characters.              *)

Kept(c) ==
  {e \in Ends : /\ offset <= e /\ e <= c
                /\ \A k \in Ends : offset <= k /\ k < e => k < byte_range_end}

\* The last row is known, or no end so far is behind the range.
LastOK(last, c) ==
  \/ last = None /\ \A e \in Ends : offset <= e /\ e <= c => e < byte_range_end
  \/ last \in Kept(c) /\ byte_range_end <= last

\* The first row begins with the input, or behind the first end.
FirstOK(first, c) ==
  first = IF offset = 0 THEN 0 ELSE IF Kept(c) = {} THEN None ELSE Ascending(Kept(c))[1]

\* The characters from the first row on.
Copied(first, last, c) ==
  IF first = None THEN <<>> ELSE Span(first, IF last = None THEN c ELSE last)

\* A set of numbers has a least one.
LEMMA LeastExists ==
  ASSUME NEW n \in Nat, NEW S \in SUBSET (0 .. n), S # {}
  PROVE  \E m \in S : \A k \in S : m <= k
<1>. DEFINE T == {n - x : x \in S}
<1>1. T \in SUBSET (0 .. n) /\ T # {}
  <2>1. ASSUME NEW y \in T PROVE y \in 0 .. n
    <3>1. PICK x \in S : y = n - x
      BY <2>1
    <3>2. x \in 0 .. n
      OBVIOUS
    <3>. QED BY <3>1, <3>2
  <2>2. PICK x : x \in S
    OBVIOUS
  <2>3. n - x \in T
    BY <2>2
  <2>. QED BY <2>1, <2>3
<1>2. PICK m \in T : \A k \in T : k <= m
  BY <1>1, GreatestExists
<1>3. PICK x \in S : m = n - x
  BY <1>2
<1>4. ASSUME NEW k \in S PROVE x <= k
  <2>1. n - k <= n - x
    BY <1>2, <1>3
  <2>. QED BY <1>3, <2>1
<1>. QED BY <1>3, <1>4

\* A delimiter ends behind its first character.
LEMMA EndsBound ==
  ASSUME CaseOK
  PROVE  /\ Ends \in SUBSET (1 .. Len(text)) /\ byte_range_end \in Nat
         /\ offset <= byte_range_end
<1>1. Len(text) \in Nat /\ Len(delim) \in Nat \ {0} /\ offset \in Nat /\ size \in Nat
  BY CaseFacts
<1>2. Ends \subseteq Len(delim) .. Len(text)
  BY DEF Ends
<1>. QED BY <1>1, <1>2 DEF byte_range_end

\* The ends that are kept are numbers that can be put in order.
LEMMA KeptBound ==
  ASSUME CaseOK, NEW c \in Nat
  PROVE  /\ Kept(c) \in SUBSET (0 .. Len(text)) /\ Len(text) \in Nat
         /\ Kept(c) \subseteq Ends
         /\ \A e \in Kept(c) : e \in 1 .. Len(text) /\ offset <= e /\ e <= c
         /\ Sorted(Ascending(Kept(c))) /\ Values(Ascending(Kept(c))) = Kept(c)
<1>1. Ends \in SUBSET (1 .. Len(text)) /\ Len(text) \in Nat
  BY EndsBound, CaseFacts
<1>2. /\ Kept(c) \subseteq Ends
      /\ \A e \in Kept(c) : e \in Ends /\ offset <= e /\ e <= c
  BY DEF Kept
<1>3. Kept(c) \in SUBSET (0 .. Len(text))
  <2>1. \A e \in Ends : e \in 0 .. Len(text)
    BY <1>1
  <2>. QED BY <1>2, <2>1
<1>. QED BY <1>1, <1>2, <1>3, AscendingIs

\* The least and the greatest are first and last.
LEMMA SortedBounds ==
  ASSUME NEW s, Sorted(s), Values(s) # {}
  PROVE  /\ s \in Seq(Nat) /\ s # <<>> /\ Len(s) \in Nat \ {0}
         /\ s[1] \in Values(s) /\ \A x \in Values(s) : x \in Nat /\ s[1] <= x
         /\ s[Len(s)] \in Values(s) /\ \A x \in Values(s) : x <= s[Len(s)]
<1>. DEFINE n == Len(s)
<1>1. n \in Nat /\ s \in [1 .. n -> Nat] /\ s \in Seq(Nat)
      /\ \A i, j \in 1 .. n : i < j => s[i] < s[j]
  BY LenProperties DEF Sorted
<1>2. \A x : x \in Values(s) <=> \E i \in 1 .. n : x = s[i]
  BY DEF Values
<1>. HIDE DEF n
<1>3. PICK k \in 1 .. n : TRUE
  BY <1>2
<1>4. n \in Nat \ {0} /\ 1 \in 1 .. n /\ n \in 1 .. n
  BY <1>1, <1>3
<1>5. ASSUME NEW x \in Values(s) PROVE x \in Nat /\ s[1] <= x /\ x <= s[n]
  <2>1. PICK i \in 1 .. n : x = s[i]
    BY <1>2
  <2>2. x \in Nat /\ s[1] \in Nat /\ s[n] \in Nat
    BY <1>1, <1>4, <2>1
  <2>3. s[1] <= x
    <3>1. i = 1 \/ 1 < i
      BY <1>1
    <3>. QED BY <1>1, <1>4, <2>1, <2>2, <3>1
  <2>4. x <= s[n]
    <3>1. i = n \/ i < n
      BY <1>1
    <3>. QED BY <1>1, <1>4, <2>1, <2>2, <3>1
  <2>. QED BY <2>2, <2>3, <2>4
<1>6. s # <<>>
  <2>1. Len(<<>>) = 0
    OBVIOUS
  <2>2. Len(s) # 0
    BY <1>4 DEF n
  <2>. QED BY <2>1, <2>2
<1>7. s[1] \in Values(s) /\ s[n] \in Values(s)
  BY <1>2, <1>4
<1>. QED BY <1>1, <1>4, <1>5, <1>6, <1>7 DEF n

\* What a chunk adds to the ends that are kept.
LEMMA NewAre ==
  ASSUME CaseOK, ChunkOK, LastOK(None, chunk_offset), chunk # <<>>
  PROVE  LET c1 == chunk_offset + Len(chunk)
             new == Clamped(Found)
         IN /\ new \subseteq Found /\ c1 \in Nat
            /\ Kept(c1) = Kept(chunk_offset) \cup new
            /\ \/ \E m \in new : byte_range_end <= m /\ byte_range_end <= c1
               \/ \A e \in Ends : offset <= e /\ e <= c1 => e < byte_range_end
<1>. DEFINE c == chunk_offset
            c1 == c + Len(chunk)
            new == Clamped(Found)
            E == byte_range_end
<1>1. c \in Nat /\ c1 \in Nat /\ c <= c1 /\ E \in Nat /\ offset \in Nat
      /\ Ends \in SUBSET (1 .. Len(text)) /\ Len(text) \in Nat
  BY ChunkIs, EndsBound, CaseFacts DEF ChunkOK
<1>2. \A e \in Ends : e \in Nat
  BY <1>1
<1>3. \A e \in Ends : offset <= e /\ e <= c => e < E
  <2>1. \A e \in Kept(c) : e \in Nat
    BY <1>1, KeptBound
  <2>2. None \notin Kept(c)
    BY <2>1 DEF None
  <2>. QED BY <2>2 DEF LastOK
<1>4. \A e : e \in Found <=> e \in Ends /\ offset <= e /\ c < e /\ e <= c1
  BY DEF Found
<1>5. new = IF c1 < E THEN Found ELSE {m \in Found : \A k \in Found : k < m => k < E}
  BY DEF Clamped
<1>6. \A x, e : e \in Kept(x) <=> /\ e \in Ends /\ offset <= e /\ e <= x
                                  /\ \A k \in Ends : offset <= k /\ k < e => k < E
  BY DEF Kept
<1>. HIDE DEF c1, new, E, c
<1>7. \A m : m \in new <=> m \in Found /\ \A k \in Found : k < m => k < E
  <2>1. CASE c1 < E
    <3>1. \A k \in Found : k < E
      <4>1. \A k \in Found : k \in Nat /\ k <= c1
        BY <1>2, <1>4
      <4>. QED BY <1>1, <2>1, <4>1
    <3>. QED BY <1>5, <2>1, <3>1
  <2>2. CASE ~(c1 < E)
    BY <1>5, <2>2
  <2>. QED BY <2>1, <2>2
<1>8. ASSUME NEW e \in Kept(c1) PROVE e \in Kept(c) \cup new
  <2>1. e \in Ends /\ offset <= e /\ e <= c1 /\ \A k \in Ends : offset <= k /\ k < e => k < E
    BY <1>6
  <2>2. CASE e <= c
    BY <1>6, <2>1, <2>2
  <2>3. CASE ~(e <= c)
    <3>1. e \in Nat /\ c < e
      BY <1>1, <1>2, <2>1, <2>3
    <3>2. e \in Found
      BY <1>4, <2>1, <3>1
    <3>3. \A k \in Found : k < e => k < E
      BY <1>4, <2>1
    <3>. QED BY <1>7, <3>2, <3>3
  <2>. QED BY <2>2, <2>3
<1>9. ASSUME NEW e \in Kept(c) PROVE e \in Kept(c1)
  <2>1. e \in Ends /\ offset <= e /\ e <= c /\ \A k \in Ends : offset <= k /\ k < e => k < E
    BY <1>6
  <2>2. e <= c1
    BY <1>1, <1>2, <2>1
  <2>. QED BY <1>6, <2>1, <2>2
<1>10. ASSUME NEW e \in new PROVE e \in Kept(c1)
  <2>1. e \in Ends /\ offset <= e /\ c < e /\ e <= c1 /\ \A k \in Found : k < e => k < E
    BY <1>4, <1>7
  <2>2. ASSUME NEW k \in Ends, offset <= k, k < e PROVE k < E
    <3>1. CASE k <= c
      BY <1>3, <2>2, <3>1
    <3>2. CASE ~(k <= c)
      <4>1. k \in Found
        BY <1>1, <1>2, <1>4, <2>1, <2>2, <3>2
      <4>. QED BY <2>1, <2>2, <4>1
    <3>. QED BY <3>1, <3>2
  <2>. QED BY <1>6, <2>1, <2>2
<1>11. Kept(c1) = Kept(c) \cup new
  BY <1>8, <1>9, <1>10
<1>12. \/ \E m \in new : E <= m /\ E <= c1
       \/ \A e \in Ends : offset <= e /\ e <= c1 => e < E
  <2>. DEFINE F == {e \in Found : E <= e}
  <2>1. CASE F = {}
    <3>1. ASSUME NEW e \in Ends, offset <= e, e <= c1 PROVE e < E
      <4>1. CASE e <= c
        BY <1>3, <3>1, <4>1
      <4>2. CASE ~(e <= c)
        <5>1. e \in Found
          BY <1>1, <1>2, <1>4, <3>1, <4>2
        <5>. QED BY <1>1, <1>2, <2>1, <5>1
      <4>. QED BY <4>1, <4>2
    <3>. QED BY <3>1
  <2>2. CASE F # {}
    <3>1. F \in SUBSET (0 .. Len(text))
      <4>1. \A e \in Ends : e \in 0 .. Len(text)
        BY <1>1
      <4>. QED BY <1>4, <4>1
    <3>2. PICK m \in F : \A k \in F : m <= k
      <4>. HIDE DEF F
      <4>. QED BY <1>1, <2>2, <3>1, LeastExists
    <3>3. ASSUME NEW k \in Found, k < m PROVE k < E
      <4>1. k \in Nat /\ m \in Nat
        BY <1>2, <1>4
      <4>2. k \notin F
        BY <3>2, <3>3, <4>1
      <4>. QED BY <1>1, <4>1, <4>2
    <3>4. m \in new
      BY <1>7, <3>3
    <3>5. E <= c1
      <4>1. m \in Nat /\ E <= m /\ m <= c1
        BY <1>2, <1>4, <3>2
      <4>. HIDE DEF F
      <4>. QED BY <1>1, <4>1
    <3>6. E <= m
      BY <3>2
    <3>. QED BY <3>4, <3>5, <3>6
  <2>. QED BY <2>1, <2>2
<1>13. new \subseteq Found
  BY <1>7
<1>. QED BY <1>1, <1>11, <1>12, <1>13 DEF c1, new, E, c

----------------------------------------------------------------------------
(* One iteration of the loop.                                              *)

RowsAfter == Written(row_offset_storage, Ascending(Clamped(Found)))

FirstAfter ==
  IF first_row_offset = None /\ Clamped(Found) # {} THEN Front(RowsAfter) ELSE first_row_offset

LastAfter ==
  IF \E m \in Clamped(Found) : m >= byte_range_end /\ chunk_offset + Len(chunk) >= byte_range_end
  THEN Back(RowsAfter) ELSE None

RowsOK == /\ BuilderOK(row_offset_storage)
          /\ Gather(row_offset_storage) = Ascending(Kept(chunk_offset))

\* The offsets after an iteration are those of the ends that are kept.
LEMMA RowsAfterAre ==
  ASSUME CaseOK, ChunkOK, LastOK(None, chunk_offset), RowsOK, chunk # <<>>
  PROVE  LET c1 == chunk_offset + Len(chunk)
             new == Clamped(Found)
         IN /\ BuilderOK(RowsAfter) /\ Gather(RowsAfter) = Ascending(Kept(c1))
            /\ Ascending(Kept(c1)) = Ascending(Kept(chunk_offset)) \o Ascending(new)
            /\ Sorted(Ascending(new)) /\ Values(Ascending(new)) = new
<1>. DEFINE c == chunk_offset
            n == Len(chunk)
            c1 == c + n
            new == Clamped(Found)
            s == Ascending(Kept(c))
            r == Ascending(new)
<1>1. /\ c \in Nat /\ n \in 0 .. ITEMS_PER_CHUNK /\ c1 \in Nat /\ c1 <= Len(text)
      /\ ITEMS_PER_CHUNK \in Nat /\ Len(text) \in Nat
  BY ChunkIs, Sizes, CaseFacts DEF ChunkOK
<1>2. new \subseteq Found /\ Kept(c1) = Kept(c) \cup new
  BY NewAre
<1>3. \A e \in Found : e \in Nat /\ c < e /\ e <= c1
  <2>1. \A e \in Ends : e \in Nat
    BY EndsBound
  <2>. QED BY <2>1 DEF Found
<1>4. Sorted(s) /\ Values(s) = Kept(c) /\ \A e \in Kept(c) : e \in Nat /\ e <= c
  BY <1>1, KeptBound
<1>. HIDE DEF c, n, c1, new
<1>5. \A e \in new : e \in c + 1 .. c1 /\ e \in 0 .. c1
  BY <1>1, <1>2, <1>3
<1>6. Sorted(r) /\ Values(r) = new /\ Len(r) = Cardinality(new)
  BY <1>1, <1>5, AscendingIs
<1>7. Len(r) <= ITEMS_PER_CHUNK
  <2>1. IsFiniteSet(c + 1 .. c1) /\ Cardinality(c + 1 .. c1) = n
    <3>. DEFINE d == c + 1
    <3>1. d \in Int /\ c1 \in Int /\ n = IF d > c1 THEN 0 ELSE c1 - d + 1
      BY <1>1 DEF c1
    <3>. HIDE DEF d
    <3>2. IsFiniteSet(d .. c1) /\ Cardinality(d .. c1) = IF d > c1 THEN 0 ELSE c1 - d + 1
      BY <3>1, FS_Interval
    <3>3. IsFiniteSet(d .. c1) /\ Cardinality(d .. c1) = n
      BY <3>1, <3>2
    <3>. QED BY <3>3 DEF d
  <2>2. Cardinality(new) <= Cardinality(c + 1 .. c1)
    BY <1>5, <2>1, FS_Subset
  <2>3. Len(r) \in Nat
    BY <1>6, LenProperties DEF Sorted
  <2>. QED BY <1>1, <1>6, <2>1, <2>2, <2>3
<1>. HIDE DEF s, r
<1>8. Sorted(s \o r) /\ Values(s \o r) = Kept(c) \cup new
  <2>1. \A x \in Values(s), y \in Values(r) : x < y
    <3>1. \A x \in Kept(c), y \in new : x < y
      BY <1>1, <1>4, <1>5
    <3>. QED BY <1>4, <1>6, <3>1
  <2>. QED BY <1>4, <1>6, <2>1, SortedConcat
<1>9. Ascending(Kept(c1)) = s \o r
  BY <1>2, <1>8, SortedIsAscending
<1>10. BuilderOK(RowsAfter) /\ Gather(RowsAfter) = s \o r
  <2>1. r \in Seq(Nat)
    BY <1>6 DEF Sorted
  <2>2. BuilderOK(row_offset_storage) /\ Gather(row_offset_storage) = s
    BY DEF RowsOK, s, c
  <2>3. RowsAfter = Written(row_offset_storage, r)
    BY DEF RowsAfter, r, new
  <2>. QED BY <1>7, <2>1, <2>2, <2>3, WrittenOK
<1>. QED BY <1>6, <1>9, <1>10 DEF c, n, c1, new, s, r

\* The first row begins behind the first end of the range.
LEMMA FirstAfterIs ==
  ASSUME CaseOK, ChunkOK, LastOK(None, chunk_offset), RowsOK, chunk # <<>>,
         FirstOK(first_row_offset, chunk_offset)
  PROVE  /\ FirstOK(FirstAfter, chunk_offset + Len(chunk))
         /\ first_row_offset = None /\ FirstAfter # None
              => FirstAfter \in Clamped(Found) /\ \A m \in Clamped(Found) : FirstAfter <= m
<1>. DEFINE c == chunk_offset
            c1 == c + Len(chunk)
            new == Clamped(Found)
            s == Ascending(Kept(c))
            r == Ascending(new)
            q == Ascending(Kept(c1))
<1>1. /\ BuilderOK(RowsAfter) /\ Gather(RowsAfter) = q /\ q = s \o r
      /\ Sorted(r) /\ Values(r) = new
  BY RowsAfterAre
<1>2. Kept(c1) = Kept(c) \cup new /\ c \in Nat /\ c1 \in Nat
  BY NewAre DEF ChunkOK
<1>3. /\ Sorted(s) /\ Values(s) = Kept(c) /\ Sorted(q) /\ Values(q) = Kept(c1)
      /\ \A e \in Kept(c) : e \in Nat
  BY <1>2, KeptBound
<1>4. FirstAfter = IF first_row_offset = None /\ new # {} THEN Front(RowsAfter)
                   ELSE first_row_offset
  BY DEF FirstAfter
<1>5. first_row_offset = IF offset = 0 THEN 0 ELSE IF Kept(c) = {} THEN None ELSE s[1]
  BY DEF FirstOK
<1>. HIDE DEF c, c1, new, s, r, q
<1>6. CASE offset = 0
  <2>1. first_row_offset = 0 /\ FirstAfter = 0
    BY <1>4, <1>5, <1>6 DEF None
  <2>. QED BY <1>6, <2>1 DEF FirstOK, None
<1>7. CASE offset # 0 /\ Kept(c) # {}
  <2>1. s[1] \in Kept(c) /\ s[1] \in Nat /\ s \in Seq(Nat) /\ Len(s) \in Nat \ {0}
    BY <1>3, <1>7, SortedBounds
  <2>2. first_row_offset = s[1] /\ first_row_offset # None
    BY <1>5, <1>7, <2>1 DEF None
  <2>3. FirstAfter = s[1]
    BY <1>4, <2>2
  <2>4. q[1] = s[1]
    <3>1. r \in Seq(Nat) /\ Len(r) \in Nat
      BY <1>1, LenProperties DEF Sorted
    <3>2. \A i \in 1 .. Len(s) + Len(r) : q[i] = IF i <= Len(s) THEN s[i] ELSE r[i - Len(s)]
      BY <1>1, <2>1, <3>1, ConcatProperties
    <3>3. 1 \in 1 .. Len(s) + Len(r) /\ 1 <= Len(s)
      BY <2>1, <3>1
    <3>. QED BY <3>2, <3>3
  <2>5. Kept(c1) # {}
    BY <1>2, <1>7
  <2>. QED BY <1>7, <2>2, <2>3, <2>4, <2>5 DEF FirstOK, c1, c, q
<1>8. CASE offset # 0 /\ Kept(c) = {}
  <2>1. first_row_offset = None /\ Kept(c1) = new
    BY <1>2, <1>5, <1>8
  <2>2. CASE new = {}
    <3>1. FirstAfter = None
      BY <1>4, <2>1, <2>2
    <3>. QED BY <1>8, <2>1, <2>2, <3>1 DEF FirstOK, c1, c
  <2>3. CASE new # {}
    <3>1. q # <<>> /\ q[1] \in new /\ \A m \in new : q[1] <= m
      BY <1>3, <2>1, <2>3, SortedBounds
    <3>2. FirstAfter = q[1]
      <4>1. Gather(RowsAfter) # <<>>
        BY <1>1, <3>1
      <4>. QED BY <1>1, <1>4, <2>1, <2>3, <4>1, FrontBack
    <3>. QED BY <1>8, <2>1, <2>3, <3>1, <3>2 DEF FirstOK, c1, c, q, new
  <2>. QED BY <2>2, <2>3
<1>. QED BY <1>6, <1>7, <1>8

\* The last row ends with the first end at or behind the end of the range.
LEMMA LastAfterIs ==
  ASSUME CaseOK, ChunkOK, LastOK(None, chunk_offset), RowsOK, chunk # <<>>
  PROVE  /\ LastOK(LastAfter, chunk_offset + Len(chunk))
         /\ LastAfter # None => /\ LastAfter \in Nat /\ chunk_offset < LastAfter
                                /\ LastAfter <= chunk_offset + Len(chunk)
                                /\ \A m \in Clamped(Found) : m <= LastAfter
<1>. DEFINE c == chunk_offset
            c1 == c + Len(chunk)
            new == Clamped(Found)
            q == Ascending(Kept(c1))
            E == byte_range_end
<1>1. BuilderOK(RowsAfter) /\ Gather(RowsAfter) = q
  BY RowsAfterAre
<1>2. /\ Kept(c1) = Kept(c) \cup new /\ c \in Nat /\ c1 \in Nat /\ new \subseteq Found
      /\ \/ \E m \in new : E <= m /\ E <= c1
         \/ \A e \in Ends : offset <= e /\ e <= c1 => e < E
  BY NewAre DEF ChunkOK
<1>3. /\ Sorted(q) /\ Values(q) = Kept(c1)
      /\ \A e \in Kept(c1) : e \in Nat /\ e <= c1
  BY <1>2, KeptBound
<1>4. E \in Nat /\ \A e \in Found : e \in Nat /\ c < e
  <2>1. E \in Nat /\ \A e \in Ends : e \in Nat
    BY EndsBound
  <2>. QED BY <2>1 DEF Found
<1>5. CASE \E m \in new : E <= m /\ E <= c1
  <2>1. PICK m \in new : E <= m /\ E <= c1
    BY <1>5
  <2>2. m \in Nat /\ c < m /\ m \in Kept(c1)
    BY <1>2, <1>4, <2>1
  <2>. HIDE DEF q, E, new
  <2>3. q # <<>> /\ q[Len(q)] \in Kept(c1) /\ \A x \in Kept(c1) : x <= q[Len(q)]
    BY <1>3, <2>2, SortedBounds
  <2>4. LastAfter = q[Len(q)]
    <3>1. LastAfter = Back(RowsAfter)
      <4>1. m >= E /\ c1 >= E
        BY <1>2, <1>4, <2>1, <2>2
      <4>. QED BY <2>1, <4>1 DEF LastAfter, new, E
    <3>2. Gather(RowsAfter) # <<>>
      BY <1>1, <2>3
    <3>. QED BY <1>1, <3>1, <3>2, FrontBack
  <2>5. LastAfter \in Nat /\ LastAfter <= c1 /\ m <= LastAfter /\ LastAfter \in Kept(c1)
    BY <1>3, <2>2, <2>3, <2>4
  <2>6. E <= LastAfter /\ c < LastAfter
    BY <1>2, <1>4, <2>1, <2>2, <2>5
  <2>7. \A x \in new : x <= LastAfter
    BY <1>2, <2>3, <2>4
  <2>. QED BY <2>5, <2>6, <2>7 DEF LastOK, E, new
<1>6. CASE ~\E m \in new : E <= m /\ E <= c1
  <2>1. \A e \in Ends : offset <= e /\ e <= c1 => e < E
    BY <1>2, <1>6
  <2>2. LastAfter = None
    <3>1. ~\E m \in new : m >= E /\ c1 >= E
      <4>1. \A m \in new : m \in Nat
        BY <1>2, <1>4
      <4>. QED BY <1>2, <1>4, <1>6, <4>1
    <3>. QED BY <3>1 DEF LastAfter
  <2>. QED BY <2>1, <2>2 DEF LastOK
<1>. QED BY <1>5, <1>6

\* Spans of characters.
LEMMA SpanIs ==
  ASSUME NEW a \in Nat, NEW b \in Nat, a <= b
  PROVE  /\ Span(a, b) \in Seq(Nat) /\ Len(Span(a, b)) = b - a
         /\ \A i \in 1 .. b - a : Span(a, b)[i] = a + i - 1
         /\ Span(a, b) = [i \in 1 .. b - a |-> a + i - 1]
<1>. DEFINE n == b - a
            s == [i \in 1 .. n |-> a + i - 1]
<1>1. Larger(0, b - a) = n /\ n \in Nat
  BY DEF Larger
<1>. HIDE DEF n
<1>2. Span(a, b) = s
  BY <1>1 DEF Span
<1>3. \A i \in 1 .. n : a + i - 1 \in Nat
  BY <1>1
<1>4. s \in Seq(Nat) /\ Len(s) = n /\ \A i \in 1 .. n : s[i] = a + i - 1
  BY <1>1, <1>3
<1>. QED BY <1>2, <1>4 DEF n

\* Two spans in a row.
LEMMA SpanConcat ==
  ASSUME NEW a \in Nat, NEW b \in Nat, NEW c \in Nat, a <= b, b <= c
  PROVE  Span(a, b) \o Span(b, c) = Span(a, c)
<1>. DEFINE s == Span(a, b)
            t == Span(b, c)
            u == Span(a, c)
<1>1. /\ s \in Seq(Nat) /\ Len(s) = b - a /\ \A i \in 1 .. b - a : s[i] = a + i - 1
      /\ t \in Seq(Nat) /\ Len(t) = c - b /\ \A i \in 1 .. c - b : t[i] = b + i - 1
      /\ u \in Seq(Nat) /\ Len(u) = c - a /\ \A i \in 1 .. c - a : u[i] = a + i - 1
  <2>1. a <= c
    OBVIOUS
  <2>. QED BY <2>1, SpanIs
<1>. HIDE DEF s, t, u
<1>2. /\ s \o t \in Seq(Nat) /\ Len(s \o t) = Len(s) + Len(t)
      /\ \A i \in 1 .. Len(s) + Len(t) :
           (s \o t)[i] = IF i <= Len(s) THEN s[i] ELSE t[i - Len(s)]
  BY <1>1, ConcatProperties
<1>3. Len(s) + Len(t) = c - a /\ Len(s) = b - a
  BY <1>1
<1>4. ASSUME NEW i \in 1 .. c - a PROVE (s \o t)[i] = u[i]
  <2>1. CASE i <= b - a
    <3>1. i \in 1 .. b - a
      BY <2>1
    <3>. QED BY <1>1, <1>2, <1>3, <2>1, <3>1
  <2>2. CASE ~(i <= b - a)
    <3>1. i - (b - a) \in 1 .. c - b /\ b + (i - (b - a)) - 1 = a + i - 1
      BY <2>2
    <3>. QED BY <1>1, <1>2, <1>3, <2>2, <3>1
  <2>. QED BY <2>1, <2>2
<1>5. s \o t = u
  BY <1>1, <1>2, <1>3, <1>4, SeqEqual
<1>. QED BY <1>5 DEF s, t, u

CharsAfter ==
  LET begin == Larger(0, FirstAfter - chunk_offset)
      end == IF LastAfter = None THEN Len(chunk) ELSE Smaller(LastAfter - chunk_offset, Len(chunk))
  IN IF FirstAfter = None THEN char_storage
     ELSE Written(char_storage, [i \in 1 .. end - begin |-> chunk_offset + begin + i - 1])

CharsOK(last) == /\ BuilderOK(char_storage)
                 /\ Gather(char_storage) = Copied(first_row_offset, last, chunk_offset)

\* The characters after an iteration are those from the first row on.
LEMMA CharsAfterAre ==
  ASSUME CaseOK, ChunkOK, LastOK(None, chunk_offset), RowsOK, CharsOK(None), chunk # <<>>,
         FirstOK(first_row_offset, chunk_offset)
  PROVE  /\ BuilderOK(CharsAfter)
         /\ Gather(CharsAfter) = Copied(FirstAfter, LastAfter, chunk_offset + Len(chunk))
<1>. DEFINE c == chunk_offset
            n == Len(chunk)
            c1 == c + n
            f == FirstAfter
            top == IF LastAfter = None THEN c1 ELSE LastAfter
            begin == Larger(0, f - c)
            end == IF LastAfter = None THEN n ELSE Smaller(LastAfter - c, n)
            v == [i \in 1 .. end - begin |-> c + begin + i - 1]
<1>1. c \in Nat /\ n \in Nat /\ n <= ITEMS_PER_CHUNK /\ ITEMS_PER_CHUNK \in Nat
  BY ChunkIs, Sizes DEF ChunkOK
<1>2. BuilderOK(char_storage) /\ Gather(char_storage) = Copied(first_row_offset, None, c)
  BY DEF CharsOK
<1>3. CharsAfter = IF f = None THEN char_storage ELSE Written(char_storage, v)
  BY DEF CharsAfter
<1>4. CASE f = None
  <2>1. first_row_offset = None
    BY <1>4 DEF FirstAfter
  <2>. QED BY <1>2, <1>3, <1>4, <2>1 DEF Copied
<1>5. CASE f # None
  <2>1. /\ LastAfter # None => /\ LastAfter \in Nat /\ c < LastAfter /\ LastAfter <= c1
                               /\ \A m \in Clamped(Found) : m <= LastAfter
    BY LastAfterIs
  <2>2. top \in Nat /\ c <= top /\ top <= c1 /\ c + end = top /\ end \in 0 .. n
    <3>1. CASE LastAfter = None
      BY <1>1, <3>1
    <3>2. CASE LastAfter # None
      <4>1. LastAfter - c \in 0 .. n /\ Smaller(LastAfter - c, n) = LastAfter - c
        BY <1>1, <2>1, <3>2 DEF Smaller
      <4>. QED BY <1>1, <2>1, <3>2, <4>1
    <3>. QED BY <3>1, <3>2
  <2>3. Copied(f, LastAfter, c1) = Span(f, top)
    BY <1>5 DEF Copied
  <2>4. CASE first_row_offset = None
    <3>1. f \in Clamped(Found)
      BY <1>5, <2>4, FirstAfterIs
    <3>2. f \in Found /\ f \in Ends
      BY <3>1, NewAre DEF Found
    <3>3. f \in Nat /\ c < f /\ f <= c1
      <4>1. f \in Nat
        BY <3>2, EndsBound
      <4>. QED BY <3>2, <4>1 DEF Found
    <3>4. f <= top
      BY <2>1, <3>1, <3>3
    <3>5. begin = f - c /\ begin \in Nat
      <4>. HIDE DEF f
      <4>. QED BY <1>1, <3>3 DEF Larger
    <3>. HIDE DEF f, top, end, begin
    <3>6. end - begin = top - f /\ c + begin = f
      BY <1>1, <2>2, <3>3, <3>5
    <3>7. v = [i \in 1 .. top - f |-> f + i - 1]
      BY <3>6
    <3>8. v = Span(f, top) /\ v \in Seq(Nat) /\ Len(v) = top - f
      <4>. HIDE DEF v
      <4>1. /\ Span(f, top) \in Seq(Nat) /\ Len(Span(f, top)) = top - f
            /\ Span(f, top) = [i \in 1 .. top - f |-> f + i - 1]
        BY <2>2, <3>3, <3>4, SpanIs
      <4>. QED BY <3>7, <4>1
    <3>. HIDE DEF v
    <3>9. Len(v) <= ITEMS_PER_CHUNK
      BY <1>1, <2>2, <3>3, <3>8
    <3>10. Gather(char_storage) = <<>>
      BY <1>2, <2>4 DEF Copied
    <3>11. BuilderOK(CharsAfter) /\ Gather(CharsAfter) = <<>> \o v
      BY <1>2, <1>3, <1>5, <3>8, <3>9, <3>10, WrittenOK
    <3>12. <<>> \o v = v
      BY <3>8, ConcatEmptySeq
    <3>. QED BY <2>3, <3>8, <3>11, <3>12 DEF f
  <2>5. CASE first_row_offset # None
    <3>1. f = first_row_offset
      BY <2>5 DEF FirstAfter
    <3>2. f \in Nat /\ f <= c
      <4>1. CASE offset = 0
        BY <1>1, <3>1, <4>1 DEF FirstOK
      <4>2. CASE offset # 0
        <5>1. Kept(c) # {} /\ f = Ascending(Kept(c))[1]
          BY <2>5, <3>1, <4>2 DEF FirstOK
        <5>2. /\ Sorted(Ascending(Kept(c))) /\ Values(Ascending(Kept(c))) = Kept(c)
              /\ \A e \in Kept(c) : e \in 1 .. Len(text) /\ e <= c
          BY <1>1, KeptBound
        <5>3. f \in Kept(c)
          BY <5>1, <5>2, SortedBounds
        <5>4. Len(text) \in Nat
          BY CaseFacts
        <5>. QED BY <5>2, <5>3, <5>4
      <4>. QED BY <4>1, <4>2
    <3>3. begin = 0
      <4>. HIDE DEF f
      <4>. QED BY <1>1, <3>2 DEF Larger
    <3>. HIDE DEF f, top, end, begin
    <3>4. end - begin = top - c /\ c + begin = c
      BY <1>1, <2>2, <3>3
    <3>5. v = [i \in 1 .. top - c |-> c + i - 1]
      BY <3>4
    <3>6. v = Span(c, top) /\ v \in Seq(Nat) /\ Len(v) = top - c
      <4>. HIDE DEF v
      <4>1. /\ Span(c, top) \in Seq(Nat) /\ Len(Span(c, top)) = top - c
            /\ Span(c, top) = [i \in 1 .. top - c |-> c + i - 1]
        BY <1>1, <2>2, SpanIs
      <4>. QED BY <3>5, <4>1
    <3>. HIDE DEF v
    <3>7. Len(v) <= ITEMS_PER_CHUNK
      BY <1>1, <2>2, <3>6
    <3>8. Gather(char_storage) = Span(f, c)
      BY <1>2, <2>5, <3>1 DEF Copied
    <3>9. BuilderOK(CharsAfter) /\ Gather(CharsAfter) = Span(f, c) \o v
      BY <1>2, <1>3, <1>5, <3>6, <3>7, <3>8, WrittenOK
    <3>10. Span(f, c) \o Span(c, top) = Span(f, top)
      BY <1>1, <2>2, <3>2, SpanConcat
    <3>. QED BY <2>3, <3>6, <3>9, <3>10 DEF f
  <2>. QED BY <2>4, <2>5
<1>. QED BY <1>4, <1>5

----------------------------------------------------------------------------
(* The rows of the output.                                                 *)

(* What holds whenever the loop is entered.                                *)
LoopOK ==
  /\ ~Refused /\ size > 0
  /\ ChunkOK /\ CarryOK
  /\ LastOK(last_row_offset, chunk_offset)
  /\ FirstOK(first_row_offset, chunk_offset)
  /\ RowsOK /\ CharsOK(last_row_offset)

\* The end of the last row, and where rows begin and end.
Top == IF last_row_offset = None THEN chunk_offset ELSE last_row_offset
Bounds == {first_row_offset} \cup Kept(chunk_offset) \cup {Top}

\* What the parts of LoopOK say of the first and the last row.
LEMMA KeptFacts ==
  ASSUME CaseOK, LoopOK
  PROVE  LET K == Kept(chunk_offset) IN
         /\ chunk_offset \in Nat /\ offset \in Nat /\ byte_range_end \in Nat /\ Len(text) \in Nat
         /\ offset < byte_range_end
         /\ Ends \in SUBSET (1 .. Len(text)) /\ \A e \in Ends : e \in Nat /\ 0 < e /\ e <= Len(text)
         /\ \A e : e \in K <=> /\ e \in Ends /\ offset <= e /\ e <= chunk_offset
                               /\ \A k \in Ends : offset <= k /\ k < e => k < byte_range_end
         /\ \/ /\ last_row_offset = None
               /\ \A e \in Ends : offset <= e /\ e <= chunk_offset => e < byte_range_end
            \/ last_row_offset # None /\ last_row_offset \in K /\ byte_range_end <= last_row_offset
         /\ first_row_offset = None \/ (first_row_offset = 0 /\ offset = 0)
              \/ (first_row_offset \in K /\ offset # 0 /\ \A e \in K : first_row_offset <= e)
         /\ first_row_offset = None <=> offset # 0 /\ K = {}
<1>. DEFINE K == Kept(chunk_offset)
            q == Ascending(K)
<1>1. /\ chunk_offset \in Nat /\ offset \in Nat /\ byte_range_end \in Nat /\ Len(text) \in Nat
      /\ Ends \in SUBSET (1 .. Len(text))
  BY CaseFacts, EndsBound DEF LoopOK, ChunkOK
<1>2. offset < byte_range_end
  <2>1. size \in Nat /\ size > 0 /\ offset \in Nat
    BY CaseFacts DEF LoopOK
  <2>. QED BY <2>1 DEF byte_range_end
<1>3. \A e \in Ends : e \in Nat /\ 0 < e /\ e <= Len(text)
  BY <1>1
<1>4. \A e : e \in K <=> /\ e \in Ends /\ offset <= e /\ e <= chunk_offset
                         /\ \A k \in Ends : offset <= k /\ k < e => k < byte_range_end
  BY DEF Kept
<1>5. /\ Sorted(q) /\ Values(q) = K
  BY <1>1, KeptBound
<1>6. \A e \in K : e \in Nat /\ 0 < e
  BY <1>3, <1>4
<1>7. \/ /\ last_row_offset = None
         /\ \A e \in Ends : offset <= e /\ e <= chunk_offset => e < byte_range_end
      \/ last_row_offset # None /\ last_row_offset \in K /\ byte_range_end <= last_row_offset
  <2>1. None \notin K
    BY <1>6 DEF None
  <2>2. LastOK(last_row_offset, chunk_offset)
    BY DEF LoopOK
  <2>. QED BY <2>1, <2>2 DEF LastOK
<1>8. first_row_offset = IF offset = 0 THEN 0 ELSE IF K = {} THEN None ELSE q[1]
  BY DEF LoopOK, FirstOK
<1>. HIDE DEF K, q
<1>9. K # {} => q[1] \in K /\ q[1] # None /\ \A e \in K : q[1] <= e
  <2>1. K # {} => q[1] \in K /\ \A e \in K : q[1] <= e
    BY <1>5, SortedBounds
  <2>2. q[1] \in K => q[1] # None
    BY <1>6 DEF None
  <2>. QED BY <2>1, <2>2
<1>10. /\ first_row_offset = None \/ (first_row_offset = 0 /\ offset = 0)
           \/ (first_row_offset \in K /\ offset # 0 /\ \A e \in K : first_row_offset <= e)
       /\ first_row_offset = None <=> offset # 0 /\ K = {}
  <2>1. 0 # None
    BY DEF None
  <2>. QED BY <1>8, <1>9, <2>1
<1>. QED BY <1>1, <1>2, <1>3, <1>4, <1>7, <1>10 DEF K

\* Every end of a delimiter that counts is known when the loop ends.
LEMMA ScanEnds ==
  ASSUME CaseOK, LoopOK, ~Continues
  PROVE  \/ last_row_offset # None
         \/ last_row_offset = None /\ first_row_offset # None
              /\ (chunk_offset # 0 => chunk_offset = Len(text))
              /\ (chunk_offset = 0 => Len(text) = 0)
         \/ last_row_offset = None /\ first_row_offset = None
              /\ (byte_range_end <= chunk_offset \/ Len(text) <= chunk_offset)
<1>1. /\ chunk_offset \in Nat /\ offset \in Nat /\ byte_range_end \in Nat /\ Len(text) \in Nat
      /\ \A e \in Kept(chunk_offset) : offset <= e /\ e <= Len(text) /\ e \in Nat
      /\ first_row_offset = None \/ offset = 0 \/ first_row_offset \in Kept(chunk_offset)
  BY KeptFacts
<1>2. chunk = <<>> <=> Len(text) <= chunk_offset
  BY ChunkIs DEF LoopOK
<1>3. ScanBegin \in Nat /\ ScanBegin <= offset /\ (chunk_offset <= Len(text) \/ chunk_offset = ScanBegin)
  BY CaseFacts DEF LoopOK, ChunkOK
<1>. SUFFICES ASSUME last_row_offset = None
              PROVE  \/ first_row_offset # None
                          /\ (chunk_offset # 0 => chunk_offset = Len(text))
                          /\ (chunk_offset = 0 => Len(text) = 0)
                     \/ first_row_offset = None
                          /\ (byte_range_end <= chunk_offset \/ Len(text) <= chunk_offset)
  OBVIOUS
<1>4. chunk = <<>> \/ (first_row_offset = None /\ ~(chunk_offset < byte_range_end))
  BY DEF Continues
<1>5. CASE first_row_offset = None
  BY <1>1, <1>2, <1>4, <1>5
<1>6. CASE first_row_offset # None
  <2>1. Len(text) <= chunk_offset
    BY <1>2, <1>4, <1>6
  <2>2. offset = 0 \/ offset <= Len(text)
    BY <1>1, <1>6
  <2>3. ~(chunk_offset <= Len(text)) => chunk_offset <= offset
    BY <1>1, <1>3
  <2>4. chunk_offset <= Len(text) \/ chunk_offset = 0
    BY <1>1, <2>2, <2>3
  <2>. QED BY <1>1, <1>6, <2>1, <2>4
<1>. QED BY <1>5, <1>6

\* When no row was found, none begins in the range.
LEMMA NoRows ==
  ASSUME CaseOK, LoopOK, ~Continues, IsEmpty
  PROVE  RowStarts = {}
<1>. DEFINE K == Kept(chunk_offset)
            E == byte_range_end
            c == chunk_offset
            N == Len(text)
<1>1. /\ c \in Nat /\ offset \in Nat /\ E \in Nat /\ N \in Nat
      /\ \A e \in Ends : e \in Nat /\ 0 < e /\ e <= N
      /\ \A e : e \in K <=> /\ e \in Ends /\ offset <= e /\ e <= c
                            /\ \A k \in Ends : offset <= k /\ k < e => k < E
      /\ \/ /\ last_row_offset = None
            /\ \A e \in Ends : offset <= e /\ e <= c => e < E
         \/ last_row_offset # None /\ last_row_offset \in K /\ E <= last_row_offset
      /\ first_row_offset = None \/ (first_row_offset = 0 /\ offset = 0)
           \/ (first_row_offset \in K /\ offset # 0 /\ \A e \in K : first_row_offset <= e)
      /\ first_row_offset = None <=> offset # 0 /\ K = {}
  BY KeptFacts
<1>. HIDE DEF K, E, N
<1>. SUFFICES ASSUME NEW s \in RowStarts PROVE FALSE
  OBVIOUS
<1>2. /\ s = 0 \/ s \in Ends
      /\ s < N /\ offset <= s /\ s < E /\ s \in Nat
  <2>1. s \in {0} \cup Ends /\ s < Len(text) /\ offset <= s /\ s < byte_range_end
    BY DEF RowStarts
  <2>2. s = 0 => s \in Nat
    OBVIOUS
  <2>. QED BY <1>1, <2>1, <2>2 DEF N, E
<1>3. CASE first_row_offset = None
  <2>1. offset # 0 /\ K = {}
    BY <1>1, <1>3
  <2>2. s \in Ends
    BY <1>1, <1>2, <2>1
  <2>3. last_row_offset = None
    BY <1>1, <2>1
  <2>4. E <= c \/ N <= c
    BY <1>3, <2>3, ScanEnds DEF E, N
  <2>5. s <= c
    BY <1>1, <1>2, <2>4
  <2>6. \A k \in Ends : offset <= k /\ k < s => k < E
    BY <1>1, <1>2
  <2>7. s \in K
    BY <1>1, <1>2, <2>2, <2>5, <2>6
  <2>. QED BY <2>1, <2>7
<1>4. CASE first_row_offset # None /\ last_row_offset = None
  <2>1. c = 0
    BY <1>4 DEF IsEmpty
  <2>2. N = 0
    BY <1>4, <2>1, ScanEnds DEF N
  <2>. QED BY <1>2, <2>2
<1>5. CASE first_row_offset # None /\ last_row_offset # None
  <2>1. last_row_offset \in K /\ E <= last_row_offset /\ last_row_offset \in Ends
        /\ last_row_offset <= c /\ last_row_offset \in Nat /\ 0 < last_row_offset
    BY <1>1, <1>5
  <2>2. first_row_offset = last_row_offset
    BY <1>1, <1>5, <2>1 DEF IsEmpty
  <2>3. offset # 0 /\ \A e \in K : last_row_offset <= e
    BY <1>1, <1>5, <2>1, <2>2
  <2>4. s \in Ends
    BY <1>1, <1>2, <2>3
  <2>5. \A k \in Ends : offset <= k /\ k < s => k < E
    BY <1>1, <1>2
  <2>6. s <= c
    BY <1>1, <1>2, <2>1
  <2>7. s \in K
    BY <1>1, <1>2, <2>4, <2>5, <2>6
  <2>8. last_row_offset <= s
    BY <2>3, <2>7
  <2>. QED BY <1>1, <1>2, <2>1, <2>8
<1>. QED BY <1>3, <1>4, <1>5

\* The rows that begin in the range begin at the bounds, and end at the next.
LEMMA BoundsAre ==
  ASSUME CaseOK, LoopOK, ~Continues, ~IsEmpty
  PROVE  LET K == Kept(chunk_offset)
             f == first_row_offset
         IN /\ f \in Nat /\ Top \in Nat /\ Top <= Len(text) /\ f <= Top
            /\ \A p \in Bounds : p \in Nat /\ f <= p /\ p <= Top
            /\ RowStarts = Bounds \ {Top}
            /\ \A s \in RowStarts, e \in Ends : s < e => \E p \in Bounds : s < p /\ p <= e
            /\ \A p \in Bounds : p = f \/ p \in Ends \/ (p = Top /\ Top = Len(text))
            /\ f = 0 \/ f \in K
            /\ f = 0 <=> offset = 0
            /\ Top \in K \/ (Top = Len(text) /\ Top = chunk_offset /\ last_row_offset = None
                               /\ Top \notin Ends)
            /\ last_row_offset # None => Top \in K
            /\ \A p \in K : p \in Nat /\ 0 < p /\ f <= p /\ p <= Top
<1>. DEFINE K == Kept(chunk_offset)
            E == byte_range_end
            c == chunk_offset
            N == Len(text)
            f == first_row_offset
            last == last_row_offset
            t == Top
<1>1. /\ c \in Nat /\ offset \in Nat /\ E \in Nat /\ N \in Nat /\ offset < E
      /\ \A e \in Ends : e \in Nat /\ 0 < e /\ e <= N
      /\ \A e : e \in K <=> /\ e \in Ends /\ offset <= e /\ e <= c
                            /\ \A k \in Ends : offset <= k /\ k < e => k < E
      /\ \/ last = None /\ \A e \in Ends : offset <= e /\ e <= c => e < E
         \/ last # None /\ last \in K /\ E <= last
      /\ f = None \/ (f = 0 /\ offset = 0)
           \/ (f \in K /\ offset # 0 /\ \A e \in K : f <= e)
      /\ f = None <=> offset # 0 /\ K = {}
  BY KeptFacts
<1>2. c # 0 /\ f # None
  BY DEF IsEmpty
<1>3. t = IF last = None THEN c ELSE last
  BY DEF Top
<1>4. last = None => c = N
  <2>. SUFFICES ASSUME last = None PROVE c = N
    OBVIOUS
  <2>. QED BY <1>2, ScanEnds
<1>5. \A x : x \in Bounds <=> x = f \/ x \in K \/ x = t
  BY DEF Bounds
<1>6. \A x : x \in RowStarts <=> (x = 0 \/ x \in Ends) /\ x < N /\ offset <= x /\ x < E
  BY DEF RowStarts
<1>. HIDE DEF K, E, c, N, f, last, t
<1>7. \A p \in K : p \in Nat /\ 0 < p /\ p <= N /\ p \in Ends /\ offset <= p /\ p <= c
  BY <1>1
<1>8. (f = 0 /\ offset = 0) \/ (f \in K /\ offset # 0 /\ \A e \in K : f <= e)
  BY <1>1, <1>2
<1>9. f \in Nat /\ offset <= f /\ \A p \in K : f <= p
  BY <1>1, <1>7, <1>8
\* The two ways in which the loop ends.
<1>. DEFINE Ended == /\ t = N /\ t = c
                     /\ \A e \in Ends : offset <= e => e \in K /\ e < E
            Passed == /\ t \in K /\ E <= t
                      /\ \A p \in K : p <= t /\ (p # t => p < E)
                      /\ \A e \in Ends : offset <= e /\ e < E => e \in K
                      /\ \A e \in Ends : E <= e => t <= e
<1>10. last = None => Ended
  <2>. SUFFICES ASSUME last = None PROVE Ended
    OBVIOUS
  <2>1. t = c /\ c = N
    BY <1>3, <1>4
  <2>2. ASSUME NEW e \in Ends, offset <= e PROVE e \in K /\ e < E
    <3>1. \A k \in Ends : offset <= k /\ k <= c => k < E
      BY <1>1
    <3>2. e <= c /\ e < E
      BY <1>1, <2>1, <2>2, <3>1
    <3>3. \A k \in Ends : offset <= k /\ k < e => k < E
      BY <1>1, <2>1, <3>1
    <3>. QED BY <1>1, <2>2, <3>2, <3>3
  <2>. QED BY <2>1, <2>2
<1>11. last # None => Passed
  <2>. SUFFICES ASSUME last # None PROVE Passed
    OBVIOUS
  <2>1. t = last /\ t \in K /\ E <= t /\ t \in Nat /\ t \in Ends /\ offset <= t /\ t <= c
    BY <1>1, <1>3, <1>7
  <2>2. \A k \in Ends : offset <= k /\ k < t => k < E
    BY <1>1, <2>1
  <2>3. ASSUME NEW p \in K PROVE p <= t /\ (p # t => p < E)
    <3>1. p \in Nat /\ p \in Ends /\ offset <= p
      BY <1>7
    <3>2. t < p => t < E
      BY <1>1, <2>1, <3>1
    <3>3. p <= t
      BY <1>1, <2>1, <3>1, <3>2
    <3>4. p < t => p < E
      BY <2>2, <3>1
    <3>. QED BY <2>1, <3>1, <3>3, <3>4
  <2>4. ASSUME NEW e \in Ends, offset <= e, e < E PROVE e \in K
    <3>1. e \in Nat /\ e <= c
      BY <1>1, <2>1, <2>4
    <3>2. \A k \in Ends : offset <= k /\ k < e => k < E
      BY <1>1, <2>4
    <3>. QED BY <1>1, <2>4, <3>1, <3>2
  <2>5. ASSUME NEW e \in Ends, E <= e PROVE t <= e
    <3>1. e \in Nat /\ offset <= e
      BY <1>1, <2>5
    <3>2. e < t => e < E
      BY <2>2, <3>1
    <3>. QED BY <1>1, <2>1, <2>5, <3>1, <3>2
  <2>. QED BY <2>1, <2>3, <2>4, <2>5
<1>. HIDE DEF Ended, Passed
<1>12. t \in Nat /\ t <= N /\ \A p \in K : p <= t
  <2>1. CASE last = None
    BY <1>1, <1>7, <1>10, <2>1 DEF Ended
  <2>2. CASE last # None
    BY <1>7, <1>11, <2>2 DEF Passed
  <2>. QED BY <2>1, <2>2
<1>13. f <= t
  BY <1>8, <1>12
<1>14. ASSUME NEW s \in RowStarts PROVE s \in Bounds \ {t}
  <2>1. (s = 0 \/ s \in Ends) /\ s < N /\ offset <= s /\ s < E /\ s \in Nat
    BY <1>1, <1>6
  <2>2. s = 0 => s = f
    BY <1>1, <1>8, <2>1
  <2>3. s \in Ends => s \in K
    <3>1. last = None => (s \in Ends => s \in K)
      BY <1>10, <2>1 DEF Ended
    <3>2. last # None => (s \in Ends => s \in K)
      BY <1>11, <2>1 DEF Passed
    <3>. QED BY <3>1, <3>2
  <2>4. s # t
    <3>1. last = None => s # t
      BY <1>1, <1>10, <2>1 DEF Ended
    <3>2. last # None => s # t
      BY <1>1, <1>7, <1>11, <2>1 DEF Passed
    <3>. QED BY <3>1, <3>2
  <2>. QED BY <1>5, <2>1, <2>2, <2>3, <2>4
<1>15. ASSUME NEW s \in Bounds \ {t} PROVE s \in RowStarts
  <2>1. s = f \/ s \in K
    BY <1>5
  <2>2. s \in Nat /\ offset <= s /\ s <= t /\ s # t
    BY <1>7, <1>9, <1>12, <1>13, <2>1
  <2>3. s < N
    BY <1>1, <1>12, <2>2
  <2>4. s = 0 \/ s \in K
    BY <1>8, <2>1
  <2>5. s \in K => s < E
    <3>1. last = None => (s \in K => s < E)
      BY <1>7, <1>10 DEF Ended
    <3>2. last # None => (s \in K => s < E)
      BY <1>11, <2>2 DEF Passed
    <3>. QED BY <3>1, <3>2
  <2>6. s = 0 => s < E
    BY <1>1
  <2>. QED BY <1>6, <1>7, <2>2, <2>3, <2>4, <2>5, <2>6
<1>16. RowStarts = Bounds \ {t}
  BY <1>14, <1>15
<1>17. ASSUME NEW s \in RowStarts, NEW e \in Ends, s < e
       PROVE  \E p \in Bounds : s < p /\ p <= e
  <2>1. s \in Nat /\ offset <= s /\ s < E /\ e \in Nat /\ offset <= e
    <3>1. s \in Nat /\ offset <= s /\ s < E
      BY <1>1, <1>6
    <3>. QED BY <1>1, <1>17, <3>1
  <2>2. CASE e \in K
    BY <1>5, <1>17, <2>1, <2>2
  <2>3. CASE e \notin K
    <3>1. last # None
      BY <1>10, <2>1, <2>3 DEF Ended
    <3>2. Passed
      BY <1>11, <3>1
    <3>3. E <= e
      BY <1>1, <2>1, <2>3, <3>2 DEF Passed
    <3>4. t <= e /\ E <= t
      BY <3>2, <3>3 DEF Passed
    <3>. QED BY <1>1, <1>5, <1>12, <2>1, <3>4
  <2>. QED BY <2>2, <2>3
<1>18. \A p \in Bounds : p = f \/ p \in Ends \/ (p = t /\ t = N)
  <2>1. last = None => t = N
    BY <1>10 DEF Ended
  <2>2. last # None => t \in Ends
    BY <1>7, <1>11 DEF Passed
  <2>. QED BY <1>5, <1>7, <2>1, <2>2
<1>19. t \in K \/ (t = N /\ t = c /\ last = None /\ t \notin Ends)
  <2>1. CASE last = None
    <3>1. t \in Ends => t \in K
      <4>1. offset <= t
        BY <1>1, <1>9, <1>12, <1>13
      <4>. QED BY <1>10, <2>1, <4>1 DEF Ended
    <3>. QED BY <1>10, <2>1, <3>1 DEF Ended
  <2>2. CASE last # None
    BY <1>11, <2>2 DEF Passed
  <2>. QED BY <2>1, <2>2
<1>20. last # None => t \in K
  BY <1>11 DEF Passed
<1>21. f = 0 \/ f \in K
  BY <1>8
<1>22. f = 0 <=> offset = 0
  BY <1>7, <1>8
<1>23. \A p \in K : p \in Nat /\ 0 < p /\ f <= p /\ p <= t
  BY <1>7, <1>9, <1>12
<1>24. \A p \in Bounds : p \in Nat /\ f <= p /\ p <= t
  BY <1>5, <1>9, <1>12, <1>13, <1>23
<1>. QED BY <1>9, <1>12, <1>13, <1>16, <1>17, <1>18, <1>19, <1>20, <1>21, <1>22, <1>23, <1>24
         DEF K, E, c, N, f, last, t

Minus(s, f) == [i \in 1 .. Len(s) |-> s[i] - f]

\* Offsets relative to the first, joined.
LEMMA MinusConcat ==
  ASSUME NEW s \in Seq(Nat), NEW t \in Seq(Nat), NEW f \in Nat
  PROVE  /\ Minus(s \o t, f) = Minus(s, f) \o Minus(t, f)
         /\ Minus(s, f) \in Seq(Int) /\ Len(Minus(s, f)) = Len(s)
         /\ \A i \in 1 .. Len(s) : Minus(s, f)[i] = s[i] - f
<1>. DEFINE n == Len(s)
            m == Len(t)
            q == s \o t
            sf == Minus(s, f)
            tf == Minus(t, f)
            qf == Minus(q, f)
<1>1. /\ n \in Nat /\ m \in Nat /\ s \in [1 .. n -> Nat] /\ t \in [1 .. m -> Nat]
      /\ q \in Seq(Nat) /\ Len(q) = n + m
      /\ \A i \in 1 .. n + m : q[i] = IF i <= n THEN s[i] ELSE t[i - n]
  BY LenProperties, ConcatProperties
<1>2. q \in [1 .. n + m -> Nat]
  BY <1>1, LenProperties
<1>3. /\ sf = [i \in 1 .. n |-> s[i] - f] /\ tf = [i \in 1 .. m |-> t[i] - f]
      /\ qf = [i \in 1 .. n + m |-> q[i] - f]
  BY <1>1 DEF Minus
<1>. HIDE DEF n, m, q, sf, tf, qf
<1>4. sf \in Seq(Int) /\ Len(sf) = n /\ \A i \in 1 .. n : sf[i] = s[i] - f
  <2>1. \A i \in 1 .. n : s[i] - f \in Int
    BY <1>1
  <2>. QED BY <1>1, <1>3, <2>1
<1>5. tf \in Seq(Int) /\ Len(tf) = m /\ \A i \in 1 .. m : tf[i] = t[i] - f
  <2>1. \A i \in 1 .. m : t[i] - f \in Int
    BY <1>1
  <2>. QED BY <1>1, <1>3, <2>1
<1>6. qf \in Seq(Int) /\ Len(qf) = n + m /\ \A i \in 1 .. n + m : qf[i] = q[i] - f
  <2>1. \A i \in 1 .. n + m : q[i] - f \in Int
    BY <1>2
  <2>. QED BY <1>1, <1>3, <2>1
<1>7. /\ sf \o tf \in Seq(Int) /\ Len(sf \o tf) = n + m
      /\ \A i \in 1 .. n + m : (sf \o tf)[i] = IF i <= n THEN sf[i] ELSE tf[i - n]
  BY <1>4, <1>5, ConcatProperties
<1>8. ASSUME NEW i \in 1 .. n + m PROVE qf[i] = (sf \o tf)[i]
  <2>1. CASE i <= n
    <3>1. i \in 1 .. n
      BY <1>1, <2>1
    <3>. QED BY <1>1, <1>4, <1>6, <1>7, <2>1, <3>1
  <2>2. CASE ~(i <= n)
    <3>1. i - n \in 1 .. m
      BY <1>1, <2>2
    <3>. QED BY <1>1, <1>5, <1>6, <1>7, <2>2, <3>1
  <2>. QED BY <2>1, <2>2
<1>9. qf = sf \o tf
  BY <1>6, <1>7, <1>8, SeqEqual
<1>. QED BY <1>4, <1>9 DEF n, q, sf, tf, qf

\* Offsets relative to the first: none, and one.
LEMMA MinusSmall ==
  /\ \A f \in Nat : Minus(<<>>, f) = <<>>
  /\ \A x, f \in Nat : Minus(<<x>>, f) = <<x - f>>
<1>1. ASSUME NEW f \in Nat PROVE Minus(<<>>, f) = <<>>
  BY DEF Minus
<1>2. ASSUME NEW x \in Nat, NEW f \in Nat PROVE Minus(<<x>>, f) = <<x - f>>
  <2>. DEFINE s == <<x>>
  <2>1. Len(s) = 1 /\ s[1] = x
    OBVIOUS
  <2>. HIDE DEF s
  <2>2. Minus(s, f) = [i \in 1 .. 1 |-> s[i] - f]
    BY <2>1 DEF Minus
  <2>3. \A i \in 1 .. 1 : s[i] - f = x - f
    BY <2>1
  <2>4. Minus(s, f) = [i \in 1 .. 1 |-> x - f]
    BY <2>2, <2>3
  <2>5. <<x - f>> = [i \in 1 .. 1 |-> x - f]
    OBVIOUS
  <2>. QED BY <2>4, <2>5 DEF s
<1>. QED BY <1>1, <1>2

\* insert_end: the last bound is not the end of a delimiter.
LEMMA InsertEndIs ==
  ASSUME CaseOK, LoopOK, ~Continues, ~IsEmpty
  PROVE  /\ insert_end <=> Top \notin Kept(chunk_offset)
         /\ insert_end => Top = chunk_offset
<1>. DEFINE K == Kept(chunk_offset)
            q == Ascending(K)
            last == last_row_offset
<1>1. /\ Top \in K \/ (Top = chunk_offset /\ last = None /\ Top \notin Ends)
      /\ last # None => Top \in K
      /\ \A p \in K : p \in Nat /\ p <= Top
      /\ Top \in Nat
  BY BoundsAre
<1>2. Gather(row_offset_storage) = q
  BY DEF LoopOK, RowsOK
<1>3. insert_end <=> ~(last # None \/ (q # <<>> /\ q[Len(q)] = chunk_offset))
  BY <1>2 DEF insert_end
<1>4. Sorted(q) /\ Values(q) = K
  <2>1. chunk_offset \in Nat
    BY KeptFacts
  <2>. QED BY <2>1, KeptBound
<1>5. last = None => Top = chunk_offset
  BY DEF Top
<1>. HIDE DEF K, q, last
<1>6. K # {} => q # <<>> /\ q[Len(q)] \in K /\ \A x \in K : x <= q[Len(q)]
  BY <1>4, SortedBounds
<1>7. CASE last # None
  BY <1>1, <1>3, <1>7 DEF K
<1>8. CASE last = None
  <2>1. CASE Top \in K
    <3>1. q # <<>> /\ q[Len(q)] = Top
      <4>1. q # <<>> /\ q[Len(q)] \in K /\ Top <= q[Len(q)]
        BY <1>6, <2>1
      <4>2. q[Len(q)] \in Nat /\ q[Len(q)] <= Top
        BY <1>1, <4>1
      <4>. QED BY <1>1, <4>1, <4>2
    <3>. QED BY <1>3, <1>5, <1>8, <2>1, <3>1 DEF K
  <2>2. CASE Top \notin K
    <3>1. CASE q = <<>>
      BY <1>3, <1>5, <1>8, <2>2, <3>1 DEF K
    <3>2. CASE q # <<>>
      <4>1. Len(q) \in Nat \ {0} /\ q[Len(q)] \in K
        <5>1. q \in Seq(Nat)
          BY <1>4 DEF Sorted
        <5>2. Len(q) \in Nat \ {0}
          BY <3>2, <5>1, EmptySeq
        <5>3. Len(q) \in 1 .. Len(q)
          BY <5>2
        <5>. QED BY <1>4, <5>2, <5>3 DEF Values
      <4>2. q[Len(q)] # Top
        BY <2>2, <4>1
      <4>. QED BY <1>3, <1>5, <1>8, <2>2, <4>2 DEF K
    <3>. QED BY <3>1, <3>2
  <2>. QED BY <2>1, <2>2
<1>. QED BY <1>7, <1>8

\* The offsets of the column are the bounds, from the first of them.
LEMMA OffsetsAre ==
  ASSUME CaseOK, LoopOK, ~Continues, ~IsEmpty
  PROVE  LET s == Ascending(Bounds) IN
         /\ Offsets = Minus(s, first_row_offset)
         /\ Sorted(s) /\ Values(s) = Bounds
<1>. DEFINE K == Kept(chunk_offset)
            q == Ascending(K)
            f == first_row_offset
            t == Top
            u == IF f = 0 THEN <<0>> ELSE <<>>
            v == IF t \notin K THEN <<t>> ELSE <<>>
            s == (u \o q) \o v
<1>1. /\ f \in Nat /\ t \in Nat /\ f <= t
      /\ f = 0 \/ f \in K
      /\ \A p \in K : p \in Nat /\ 0 < p /\ f <= p /\ p <= t
  BY BoundsAre
<1>2. Gather(row_offset_storage) = q
  BY DEF LoopOK, RowsOK
<1>3. Sorted(q) /\ Values(q) = K /\ q \in Seq(Nat)
  <2>1. chunk_offset \in Nat
    BY KeptFacts
  <2>2. Sorted(q) /\ Values(q) = K
    BY <2>1, KeptBound
  <2>. QED BY <2>2 DEF Sorted
<1>4. (insert_end <=> t \notin K) /\ (insert_end => t = chunk_offset)
  BY InsertEndIs
<1>5. Bounds = {f} \cup K \cup {t}
  BY DEF Bounds
<1>6. Offsets = ((IF f = 0 THEN <<0>> ELSE <<>>) \o Minus(q, f))
                \o (IF insert_end THEN <<chunk_offset - f>> ELSE <<>>)
  <2>1. DOMAIN q = 1 .. Len(q)
    BY <1>3, LenProperties
  <2>2. [i \in DOMAIN q |-> q[i] - f] = Minus(q, f)
    BY <2>1 DEF Minus
  <2>. HIDE DEF q
  <2>. QED BY <1>2, <2>2 DEF Offsets, insert_begin
<1>. HIDE DEF K, q, f, t
<1>7. Sorted(u) /\ u \in Seq(Nat) /\ Values(u) = (IF f = 0 THEN {0} ELSE {}) /\ \A x \in Values(u) : x = 0
  <2>1. 0 \in Nat
    OBVIOUS
  <2>2. Sorted(u) /\ Values(u) = IF f = 0 THEN {0} ELSE {}
    BY <2>1, SortedSmall
  <2>. HIDE DEF u
  <2>. QED BY <2>2 DEF Sorted
<1>8. Sorted(v) /\ v \in Seq(Nat) /\ Values(v) = (IF t \notin K THEN {t} ELSE {})
  <2>1. Sorted(v) /\ Values(v) = IF t \notin K THEN {t} ELSE {}
    BY <1>1, SortedSmall
  <2>. HIDE DEF v
  <2>. QED BY <2>1 DEF Sorted
<1>9. Offsets = (Minus(u, f) \o Minus(q, f)) \o Minus(v, f)
  <2>1. (IF f = 0 THEN <<0>> ELSE <<>>) = Minus(u, f)
    <3>1. f = 0 => Minus(<<0>>, f) = <<0>>
      <4>1. Minus(<<0>>, 0) = <<0 - 0>>
        BY MinusSmall
      <4>. QED BY <4>1
    <3>2. Minus(<<>>, f) = <<>>
      BY <1>1, MinusSmall
    <3>. QED BY <3>1, <3>2
  <2>2. (IF insert_end THEN <<chunk_offset - f>> ELSE <<>>) = Minus(v, f)
    <3>1. Minus(<<>>, f) = <<>> /\ Minus(<<t>>, f) = <<t - f>>
      BY <1>1, MinusSmall
    <3>. QED BY <1>4, <3>1
  <2>. HIDE DEF u, v
  <2>. QED BY <1>6, <2>1, <2>2
<1>. HIDE DEF u, v
<1>10. /\ u \o q \in Seq(Nat) /\ Minus(u \o q, f) = Minus(u, f) \o Minus(q, f)
       /\ Minus(s, f) = Minus(u \o q, f) \o Minus(v, f)
  <2>1. u \o q \in Seq(Nat)
    BY <1>3, <1>7, ConcatProperties
  <2>2. Minus(u \o q, f) = Minus(u, f) \o Minus(q, f)
    BY <1>1, <1>3, <1>7, MinusConcat
  <2>3. Minus(s, f) = Minus(u \o q, f) \o Minus(v, f)
    BY <1>1, <1>8, <2>1, MinusConcat
  <2>. QED BY <2>1, <2>2, <2>3
<1>11. Offsets = Minus(s, f)
  BY <1>9, <1>10
<1>12. Sorted(u \o q) /\ Values(u \o q) = Values(u) \cup K
  <2>1. \A x \in Values(u), y \in Values(q) : x < y
    BY <1>1, <1>3, <1>7
  <2>. QED BY <1>3, <1>7, <2>1, SortedConcat
<1>13. Sorted(s) /\ Values(s) = (Values(u) \cup K) \cup Values(v)
  <2>1. ASSUME NEW x \in Values(u \o q), NEW y \in Values(v) PROVE x < y
    <3>1. y = t /\ t \notin K
      BY <1>8
    <3>2. CASE x \in K
      <4>1. x \in Nat /\ x <= t /\ x # t
        BY <1>1, <3>1, <3>2
      <4>. QED BY <1>1, <3>1, <4>1
    <3>3. CASE x \in Values(u)
      <4>1. x = 0 /\ f = 0
        BY <1>7, <3>3
      <4>2. t # 0
        <5>1. chunk_offset # 0
          BY DEF IsEmpty
        <5>2. t = chunk_offset
          BY <1>4, <3>1
        <5>. QED BY <5>1, <5>2
      <4>. QED BY <1>1, <3>1, <4>1, <4>2
    <3>. QED BY <1>12, <3>2, <3>3
  <2>. QED BY <1>8, <1>12, <2>1, SortedConcat
<1>14. Values(s) = Bounds
  <2>1. (Values(u) \cup K) \cup Values(v) = {f} \cup K \cup {t}
    BY <1>1, <1>7, <1>8
  <2>. QED BY <1>5, <1>13, <2>1
<1>15. Ascending(Bounds) = s
  BY <1>13, <1>14, SortedIsAscending
<1>. QED BY <1>11, <1>13, <1>14, <1>15 DEF f

\* Parts of a span.
LEMMA CutSpan ==
  ASSUME NEW a \in Nat, NEW x \in Nat, NEW y \in Nat, NEW b \in Nat, a <= x, x <= y, y <= b
  PROVE  SubSeq(Span(a, b), (x - a) + 1, y - a) = Span(x, y)
<1>. DEFINE v == Span(a, b)
            k == (x - a) + 1
            n == y - a
            u == SubSeq(v, k, n)
            w == Span(x, y)
<1>1. /\ v \in Seq(Nat) /\ \A i \in 1 .. b - a : v[i] = a + i - 1
      /\ w \in Seq(Nat) /\ Len(w) = y - x /\ \A i \in 1 .. y - x : w[i] = x + i - 1
  <2>1. a <= b
    OBVIOUS
  <2>. QED BY <2>1, SpanIs
<1>2. /\ k \in Int /\ n \in Int /\ n - k + 1 = y - x
      /\ \A i \in k .. n : i \in 1 .. b - a
      /\ \A i \in 1 .. y - x : k + i - 1 \in 1 .. b - a /\ a + (k + i - 1) - 1 = x + i - 1
      /\ (IF k <= n THEN n - k + 1 ELSE 0) = y - x
  OBVIOUS
<1>. HIDE DEF v, w, k, n
<1>3. \A i \in k .. n : v[i] \in Nat
  <2>1. ASSUME NEW i \in k .. n PROVE v[i] \in Nat
    <3>1. i \in 1 .. b - a /\ v[i] = a + i - 1
      BY <1>1, <1>2
    <3>. QED BY <3>1
  <2>. QED BY <2>1
<1>4. /\ u \in Seq(Nat) /\ Len(u) = IF k <= n THEN n - k + 1 ELSE 0
      /\ \A i \in 1 .. n - k + 1 : u[i] = v[k + i - 1]
  BY <1>2, <1>3, SubSeqProperties
<1>. HIDE DEF u
<1>5. Len(u) = y - x /\ \A i \in 1 .. y - x : u[i] = w[i]
  <2>1. ASSUME NEW i \in 1 .. y - x PROVE u[i] = w[i]
    <3>1. u[i] = v[k + i - 1]
      BY <1>2, <1>4
    <3>2. k + i - 1 \in 1 .. b - a /\ a + (k + i - 1) - 1 = x + i - 1
      BY <1>2
    <3>3. \A j \in 1 .. b - a : v[j] = a + j - 1
      BY <1>1
    <3>4. v[k + i - 1] = a + (k + i - 1) - 1
      BY <3>2, <3>3
    <3>5. w[i] = x + i - 1
      BY <1>1
    <3>. QED BY <3>1, <3>2, <3>4, <3>5
  <2>. QED BY <1>2, <1>4, <2>1
<1>6. u = w
  BY <1>1, <1>4, <1>5, SeqEqual
<1>. QED BY <1>6 DEF u, v, k, n, w

\* A row without its delimiter.
LEMMA StripSpan ==
  ASSUME NEW x \in Nat, NEW y \in Nat, NEW d \in Nat, x <= y, d <= y
  PROVE  SubSeq(Span(x, y), 1, Len(Span(x, y)) - d) = Span(x, y - d)
<1>. DEFINE v == Span(x, y)
<1>1. Len(v) = y - x
  BY SpanIs
<1>2. CASE x <= y - d
  <2>1. y - d \in Nat /\ y - d <= y /\ x <= x
    OBVIOUS
  <2>2. SubSeq(v, (x - x) + 1, (y - d) - x) = Span(x, y - d)
    BY <1>2, <2>1, CutSpan
  <2>3. (x - x) + 1 = 1 /\ (y - d) - x = (y - x) - d
    OBVIOUS
  <2>. HIDE DEF v
  <2>4. SubSeq(v, 1, Len(v) - d) = Span(x, y - d)
    BY <1>1, <2>2, <2>3
  <2>. QED BY <2>4 DEF v
<1>3. CASE ~(x <= y - d)
  <2>1. Len(v) - d \in Int /\ Len(v) - d < 1 /\ Larger(0, (y - d) - x) = 0
    BY <1>1, <1>3 DEF Larger
  <2>2. SubSeq(v, 1, Len(v) - d) = <<>>
    <3>. HIDE DEF v
    <3>. QED BY <2>1, SubSeqEmpty
  <2>3. Span(x, y - d) = <<>>
    BY <2>1 DEF Span
  <2>. QED BY <2>2, <2>3
<1>. QED BY <1>2, <1>3

\* The rows that begin in the range, and their ends.
LEMMA StartsAre ==
  ASSUME CaseOK, LoopOK, ~Continues, ~IsEmpty
  PROVE  LET s == Ascending(Bounds)
             m == Len(s)
         IN /\ m \in Nat \ {0} /\ s \in Seq(Nat) /\ s[m] = Top
            /\ Ascending(RowStarts) = [r \in 1 .. m - 1 |-> s[r]]
            /\ \A r \in 1 .. m - 1 :
                 /\ s[r] \in Nat /\ s[r + 1] \in Nat /\ s[r] < s[r + 1]
                 /\ first_row_offset <= s[r] /\ s[r + 1] <= Top
                 /\ RowEnd(s[r]) = s[r + 1]
                 /\ s[r + 1] \in Ends <=> ~(r = m - 1 /\ insert_end)
<1>. DEFINE s == Ascending(Bounds)
            m == Len(s)
            f == first_row_offset
            K == Kept(chunk_offset)
<1>1. Sorted(s) /\ Values(s) = Bounds
  BY OffsetsAre
<1>2. /\ f \in Nat /\ Top \in Nat /\ Top <= Len(text) /\ f <= Top
      /\ \A p \in Bounds : p \in Nat /\ f <= p /\ p <= Top
      /\ RowStarts = Bounds \ {Top}
      /\ \A x \in RowStarts, e \in Ends : x < e => \E p \in Bounds : x < p /\ p <= e
      /\ \A p \in Bounds : p = f \/ p \in Ends \/ (p = Top /\ Top = Len(text))
      /\ Top \in K \/ Top \notin Ends
  BY BoundsAre
<1>3. (insert_end <=> Top \notin K) /\ K \subseteq Ends /\ \A e \in Ends : e \in Nat /\ e <= Len(text)
  BY InsertEndIs, KeptFacts
<1>4. Top \in Bounds
  BY DEF Bounds
<1>. HIDE DEF s, f, K
<1>5. /\ s \in Seq(Nat) /\ m \in Nat \ {0}
      /\ s[m] \in Bounds /\ \A x \in Bounds : x <= s[m]
  BY <1>1, <1>4, SortedBounds
<1>6. /\ \A i \in 1 .. m : s[i] \in Bounds
      /\ \A x \in Bounds : \E i \in 1 .. m : x = s[i]
  BY <1>1 DEF Values
<1>7. \A i, j \in 1 .. m : i < j => s[i] < s[j]
  BY <1>1 DEF Sorted
<1>. HIDE DEF m
<1>8. s[m] = Top
  <2>1. s[m] \in Nat /\ s[m] <= Top /\ Top <= s[m]
    BY <1>2, <1>4, <1>5
  <2>. QED BY <1>2, <2>1
<1>9. ASSUME NEW r \in 1 .. m - 1
      PROVE  /\ r \in 1 .. m /\ r + 1 \in 1 .. m
             /\ s[r] \in Nat /\ s[r + 1] \in Nat /\ s[r] < s[r + 1]
             /\ f <= s[r] /\ s[r + 1] <= Top /\ s[r] \in RowStarts /\ s[r + 1] \in Bounds
  <2>1. r \in 1 .. m /\ r + 1 \in 1 .. m /\ r < r + 1 /\ r < m /\ m \in 1 .. m
    BY <1>5
  <2>2. s[r] < s[r + 1] /\ s[r] < s[m]
    BY <1>7, <2>1
  <2>3. s[r] \in Bounds /\ s[r + 1] \in Bounds
    BY <1>6, <2>1
  <2>4. s[r] # Top
    BY <1>2, <1>8, <2>2, <2>3
  <2>. QED BY <1>2, <2>1, <2>2, <2>3, <2>4
<1>10. ASSUME NEW r \in 1 .. m - 1
       PROVE  s[r + 1] \in Ends <=> ~(r = m - 1 /\ insert_end)
  <2>1. r + 1 \in 1 .. m /\ s[r + 1] \in Bounds /\ s[r + 1] # f
    BY <1>2, <1>9
  <2>2. CASE r = m - 1
    <3>1. r + 1 = m
      BY <1>5, <2>2
    <3>2. s[r + 1] = Top
      BY <1>8, <3>1
    <3>. QED BY <1>2, <1>3, <2>2, <3>2
  <2>3. CASE r # m - 1
    <3>1. r + 1 < m /\ m \in 1 .. m
      BY <1>5, <2>3
    <3>2. s[r + 1] < s[m]
      BY <1>7, <2>1, <3>1
    <3>3. s[r + 1] # Top
      BY <1>2, <1>8, <2>1, <3>2
    <3>. QED BY <1>2, <2>1, <2>3, <3>3
  <2>. QED BY <2>2, <2>3
<1>11. ASSUME NEW r \in 1 .. m - 1 PROVE RowEnd(s[r]) = s[r + 1]
  <2>. DEFINE x == s[r]
              y == s[r + 1]
  <2>1. /\ r \in 1 .. m /\ r + 1 \in 1 .. m /\ x \in Nat /\ y \in Nat /\ x < y
        /\ x \in RowStarts /\ y \in Bounds /\ f <= x /\ y <= Top
    BY <1>9
  <2>2. ASSUME NEW p \in Bounds, x < p PROVE y <= p
    <3>1. PICK i \in 1 .. m : p = s[i]
      BY <1>6
    <3>2. p \in Nat /\ ~(p < x)
      BY <1>2, <2>1, <2>2
    <3>3. r < i
      <4>1. i < r => p < x
        BY <1>7, <2>1, <3>1
      <4>2. i # r
        BY <2>1, <2>2, <3>1
      <4>. QED BY <1>5, <3>2, <4>1, <4>2
    <3>4. i = r + 1 \/ r + 1 < i
      BY <1>5, <3>3
    <3>5. r + 1 < i => y < p
      BY <1>7, <2>1, <3>1
    <3>. QED BY <2>1, <3>1, <3>2, <3>4, <3>5
  <2>. HIDE DEF x, y
  <2>3. ASSUME NEW e \in Ends, e > x PROVE y <= e
    <3>1. e \in Nat /\ x < e
      BY <1>3, <2>1, <2>3
    <3>2. PICK p \in Bounds : x < p /\ p <= e
      BY <1>2, <2>1, <3>1
    <3>3. y <= p /\ p \in Nat
      BY <1>2, <2>2, <3>2
    <3>. QED BY <2>1, <3>1, <3>2, <3>3
  <2>4. CASE y \in Ends
    <3>1. y > x /\ \A e \in Ends : e > x => y <= e
      BY <2>1, <2>3
    <3>2. ASSUME NEW e \in Ends, e > x, \A g \in Ends : g > x => e <= g PROVE e = y
      <4>1. e <= y /\ y <= e /\ e \in Nat
        BY <1>3, <2>4, <3>1, <3>2
      <4>. QED BY <2>1, <4>1
    <3>3. (CHOOSE e \in Ends : e > x /\ \A g \in Ends : g > x => e <= g) = y
      BY <2>4, <3>1, <3>2
    <3>4. \E e \in Ends : e > x
      BY <2>4, <3>1
    <3>. QED BY <3>3, <3>4 DEF RowEnd, x, y
  <2>5. CASE y \notin Ends
    <3>1. y = Top /\ Top = Len(text)
      BY <1>2, <2>1, <2>5
    <3>2. ~\E e \in Ends : e > x
      <4>. SUFFICES ASSUME NEW e \in Ends, e > x PROVE FALSE
        OBVIOUS
      <4>1. y <= e /\ e \in Nat /\ e <= y
        BY <1>3, <2>3, <3>1
      <4>2. e = y
        BY <2>1, <4>1
      <4>. QED BY <2>5, <4>2
    <3>. QED BY <3>1, <3>2 DEF RowEnd, x, y
  <2>. QED BY <2>4, <2>5
<1>12. Ascending(RowStarts) = [r \in 1 .. m - 1 |-> s[r]]
  <2>. DEFINE z == [r \in 1 .. m - 1 |-> s[r]]
  <2>1. m - 1 \in Nat
    BY <1>5
  <2>2. z \in Seq(Nat) /\ Len(z) = m - 1 /\ \A r \in 1 .. m - 1 : z[r] = s[r]
    BY <1>9, <2>1
  <2>. HIDE DEF z
  <2>3. \A i, j \in 1 .. m - 1 : i < j => z[i] < z[j]
    BY <1>7, <1>9, <2>2
  <2>4. Sorted(z)
    BY <2>2, <2>3 DEF Sorted
  <2>5. Values(z) = RowStarts
    <3>1. ASSUME NEW x \in Values(z) PROVE x \in RowStarts
      <4>1. PICK i \in 1 .. m - 1 : x = z[i]
        BY <2>2 DEF Values
      <4>. QED BY <1>9, <2>2, <4>1
    <3>2. ASSUME NEW x \in RowStarts PROVE x \in Values(z)
      <4>1. x \in Bounds /\ x # Top
        BY <1>2
      <4>2. PICK i \in 1 .. m : x = s[i]
        BY <1>6, <4>1
      <4>3. i # m
        BY <1>8, <4>1, <4>2
      <4>4. i \in 1 .. m - 1
        BY <1>5, <4>3
      <4>. QED BY <2>2, <4>2, <4>4 DEF Values
    <3>. QED BY <3>1, <3>2
  <2>6. Ascending(RowStarts) = z
    BY <2>4, <2>5, SortedIsAscending
  <2>. QED BY <2>6 DEF z
<1>. QED BY <1>5, <1>8, <1>9, <1>10, <1>11, <1>12 DEF m, s, f

(* What RowsExact and DelimitersStripped promise. *)
ExactRows ==
  LET starts == Ascending(RowStarts)
  IN [r \in DOMAIN starts |-> Span(starts[r], RowEnd(starts[r]))]

ExactStripped ==
  LET starts == Ascending(RowStarts) IN
  [r \in DOMAIN starts |->
     LET end == RowEnd(starts[r])
     IN Span(starts[r], IF end \in Ends THEN end - Len(delim) ELSE end)]

\* Without rows that begin in the range, no rows are promised.
LEMMA NoExactRows ==
  ASSUME RowStarts = {}
  PROVE  ExactRows = <<>> /\ ExactStripped = <<>>
<1>1. Ascending(RowStarts) = <<>>
  BY SortedSmall, SortedIsAscending
<1>2. DOMAIN <<>> = {}
  OBVIOUS
<1>3. ExactRows = [r \in {} |-> Span(<<>>[r], RowEnd(<<>>[r]))]
  BY <1>1, <1>2 DEF ExactRows
<1>4. ExactStripped = [r \in {} |-> LET end == RowEnd(<<>>[r])
                       IN Span(<<>>[r], IF end \in Ends THEN end - Len(delim) ELSE end)]
  BY <1>1, <1>2 DEF ExactStripped
<1>5. ExactRows = <<>>
  BY <1>3
<1>6. ExactStripped = <<>>
  BY <1>4
<1>. QED BY <1>5, <1>6

\* The column has the rows that begin in the range, whole.
LEMMA RowsAreExact ==
  ASSUME CaseOK, LoopOK, ~Continues, ~IsEmpty
  PROVE  KeptRows = ExactRows /\ StrippedRows = ExactStripped
<1>. DEFINE s == Ascending(Bounds)
            m == Len(s)
            f == first_row_offset
            D == Len(delim)
            starts == Ascending(RowStarts)
            chars == Gather(char_storage)
<1>1. /\ m \in Nat \ {0} /\ s \in Seq(Nat) /\ s[m] = Top
      /\ starts = [r \in 1 .. m - 1 |-> s[r]]
      /\ \A r \in 1 .. m - 1 :
           /\ s[r] \in Nat /\ s[r + 1] \in Nat /\ s[r] < s[r + 1]
           /\ f <= s[r] /\ s[r + 1] <= Top
           /\ RowEnd(s[r]) = s[r + 1]
           /\ s[r + 1] \in Ends <=> ~(r = m - 1 /\ insert_end)
  BY StartsAre
<1>2. Offsets = Minus(s, f)
  BY OffsetsAre
<1>3. f \in Nat /\ Top \in Nat /\ f <= Top /\ f # None
  <2>1. f \in Nat /\ Top \in Nat /\ f <= Top
    BY BoundsAre
  <2>. QED BY <2>1 DEF None
<1>4. chars = Span(f, Top)
  BY <1>3 DEF LoopOK, CharsOK, Copied, Top
<1>5. D \in Nat /\ \A e \in Ends : D <= e
  <2>1. D \in Nat
    BY CaseFacts
  <2>2. Ends \subseteq D .. Len(text)
    BY DEF Ends
  <2>3. Len(text) \in Nat
    BY CaseFacts
  <2>. QED BY <2>1, <2>2, <2>3
<1>6. /\ DOMAIN starts = 1 .. m - 1
      /\ \A r \in 1 .. m - 1 : starts[r] = s[r]
  BY <1>1
<1>. DEFINE row(r) == Span(s[r], s[r + 1])
            rows == [r \in 1 .. m - 1 |-> row(r)]
            stripped(r) == Span(s[r], IF s[r + 1] \in Ends THEN s[r + 1] - D ELSE s[r + 1])
<1>7. ExactRows = rows
  <2>1. ExactRows = [r \in 1 .. m - 1 |-> Span(starts[r], RowEnd(starts[r]))]
    BY <1>6 DEF ExactRows
  <2>. HIDE DEF starts, s, m
  <2>. QED BY <1>1, <1>6, <2>1
<1>8. ExactStripped = [r \in 1 .. m - 1 |-> stripped(r)]
  <2>1. ExactStripped = [r \in 1 .. m - 1 |->
                           Span(starts[r], IF RowEnd(starts[r]) \in Ends
                                           THEN RowEnd(starts[r]) - D ELSE RowEnd(starts[r]))]
    BY <1>6 DEF ExactStripped
  <2>. HIDE DEF starts, s, m, D
  <2>2. \A r \in 1 .. m - 1 :
          Span(starts[r], IF RowEnd(starts[r]) \in Ends
                          THEN RowEnd(starts[r]) - D ELSE RowEnd(starts[r])) = stripped(r)
    BY <1>1, <1>6
  <2>. HIDE DEF stripped
  <2>. QED BY <2>1, <2>2
<1>. HIDE DEF s, f, D, chars
<1>9. KeptRows = rows
  <2>1. Len(Offsets) = m /\ \A r \in 1 .. m : Offsets[r] = s[r] - f
    BY <1>1, <1>2, <1>3, <1>1 DEF Minus
  <2>2. KeptRows = [r \in 1 .. m - 1 |-> SubSeq(chars, Offsets[r] + 1, Offsets[r + 1])]
    BY <2>1 DEF KeptRows, chars
  <2>3. ASSUME NEW r \in 1 .. m - 1
        PROVE  SubSeq(chars, Offsets[r] + 1, Offsets[r + 1]) = row(r)
    <3>1. r \in 1 .. m /\ r + 1 \in 1 .. m
      BY <1>1
    <3>2. Offsets[r] = s[r] - f /\ Offsets[r + 1] = s[r + 1] - f
      BY <2>1, <3>1
    <3>3. /\ s[r] \in Nat /\ s[r + 1] \in Nat /\ f <= s[r] /\ s[r] <= s[r + 1] /\ s[r + 1] <= Top
      BY <1>1
    <3>4. SubSeq(Span(f, Top), (s[r] - f) + 1, s[r + 1] - f) = Span(s[r], s[r + 1])
      BY <1>3, <3>3, CutSpan
    <3>. QED BY <1>4, <3>2, <3>4
  <2>. HIDE DEF row
  <2>. QED BY <2>2, <2>3
<1>10. rows \in Seq(Seq(Nat)) /\ Len(rows) = m - 1 /\ DOMAIN rows = 1 .. m - 1
       /\ \A r \in 1 .. m - 1 : rows[r] = row(r)
  <2>1. ASSUME NEW r \in 1 .. m - 1 PROVE row(r) \in Seq(Nat)
    <3>1. s[r] \in Nat /\ s[r + 1] \in Nat /\ s[r] <= s[r + 1]
      BY <1>1
    <3>. QED BY <3>1, SpanIs
  <2>2. m - 1 \in Nat
    BY <1>1
  <2>. HIDE DEF row, m
  <2>. QED BY <2>1, <2>2
<1>. HIDE DEF rows
<1>11. StrippedRows = [r \in 1 .. m - 1 |-> stripped(r)]
  <2>1. StrippedRows =
          [r \in 1 .. m - 1 |-> IF r = m - 1 /\ insert_end THEN rows[r]
                                ELSE SubSeq(rows[r], 1, Len(rows[r]) - D)]
    BY <1>9, <1>10 DEF StrippedRows, D
  <2>2. ASSUME NEW r \in 1 .. m - 1
        PROVE  (IF r = m - 1 /\ insert_end THEN rows[r]
                ELSE SubSeq(rows[r], 1, Len(rows[r]) - D)) = stripped(r)
    <3>. DEFINE x == s[r]
                y == s[r + 1]
    <3>1. x \in Nat /\ y \in Nat /\ x <= y /\ (y \in Ends <=> ~(r = m - 1 /\ insert_end))
          /\ rows[r] = Span(x, y)
      BY <1>1, <1>10
    <3>2. y \in Ends => SubSeq(Span(x, y), 1, Len(Span(x, y)) - D) = Span(x, y - D)
      <4>. SUFFICES ASSUME y \in Ends
                    PROVE  SubSeq(Span(x, y), 1, Len(Span(x, y)) - D) = Span(x, y - D)
        OBVIOUS
      <4>. HIDE DEF x, y
      <4>. QED BY <1>5, <3>1, StripSpan
    <3>3. stripped(r) = Span(x, IF y \in Ends THEN y - D ELSE y)
      OBVIOUS
    <3>. HIDE DEF x, y, stripped
    <3>. QED BY <3>1, <3>2, <3>3
  <2>. HIDE DEF stripped
  <2>. QED BY <2>1, <2>2
<1>. QED BY <1>7, <1>8, <1>9, <1>11

----------------------------------------------------------------------------
(* The inductive invariant.                                                *)

(* Before the scan. *)
Initially ==
  /\ carry = {<<0, 0>>} /\ last_row_offset = None
  /\ row_offset_storage = NewBuilder /\ char_storage = NewBuilder
  /\ result = [kept |-> <<>>, stripped |-> <<>>]

StatesOK == segments \in 0 .. max_segment_count /\ \A s \in carry : s[2] <= max_segment_value

IInv ==
  /\ CaseOK /\ pc \in {"start", "loop", "done", "thrown"}
  /\ BuilderOK(row_offset_storage) /\ BuilderOK(char_storage)
  /\ StatesOK
  /\ pc = "start" => Initially
  /\ pc = "loop" => LoopOK
  /\ pc = "done" => result = [kept |-> ExactRows, stripped |-> ExactStripped]

arguments == <<text, delim, offset, size>>

\* What depends on the arguments only.
LEMMA SameCase ==
  ASSUME CaseOK, arguments' = arguments
  PROVE  /\ CaseOK' /\ Ends' = Ends /\ byte_range_end' = byte_range_end
         /\ ScanBegin' = ScanBegin /\ RowStarts' = RowStarts /\ (Refused' <=> Refused)
         /\ ExactRows' = ExactRows /\ ExactStripped' = ExactStripped
<1>1. text' = text /\ delim' = delim /\ offset' = offset /\ size' = size
  BY DEF arguments
<1>2. CaseOK'
  BY <1>1 DEF CaseOK, DelimOK
<1>3. Ends' = Ends /\ byte_range_end' = byte_range_end /\ ScanBegin' = ScanBegin
  BY <1>1 DEF Ends, byte_range_end, ScanBegin
<1>4. RowStarts' = RowStarts
  BY <1>1, <1>3 DEF RowStarts
<1>5. Refused' <=> Refused
  BY <1>1 DEF Refused, MaxDuplicateTokens
<1>6. ExactRows' = ExactRows
  BY <1>1, <1>3, <1>4 DEF ExactRows, RowEnd
<1>7. ExactStripped' = ExactStripped
  BY <1>1, <1>3, <1>4 DEF ExactStripped, RowEnd
<1>. QED BY <1>2, <1>3, <1>4, <1>5, <1>6, <1>7

\* The parts of the loop's invariant, for the next state.
LEMMA NextParts ==
  ASSUME CaseOK, arguments' = arguments
  PROVE  /\ Kept(chunk_offset)' = Kept(chunk_offset')
         /\ LastOK(last_row_offset, chunk_offset)' <=> LastOK(last_row_offset', chunk_offset')
         /\ FirstOK(first_row_offset, chunk_offset)' <=> FirstOK(first_row_offset', chunk_offset')
         /\ Copied(first_row_offset, last_row_offset, chunk_offset)'
              = Copied(first_row_offset', last_row_offset', chunk_offset')
         /\ NextChunk(Smaller(chunk_offset, Len(text)))'
              = NextChunk(Smaller(chunk_offset', Len(text)))
<1>1. text' = text /\ delim' = delim /\ offset' = offset /\ size' = size
      /\ Ends' = Ends /\ byte_range_end' = byte_range_end
  BY SameCase DEF arguments
<1>2. Kept(chunk_offset)' = Kept(chunk_offset')
  BY <1>1 DEF Kept
<1>3. LastOK(last_row_offset, chunk_offset)' <=> LastOK(last_row_offset', chunk_offset')
  BY <1>1, <1>2 DEF LastOK
<1>4. FirstOK(first_row_offset, chunk_offset)' <=> FirstOK(first_row_offset', chunk_offset')
  BY <1>1, <1>2 DEF FirstOK
<1>5. Copied(first_row_offset, last_row_offset, chunk_offset)'
        = Copied(first_row_offset', last_row_offset', chunk_offset')
  BY DEF Copied
<1>6. NextChunk(Smaller(chunk_offset, Len(text)))'
        = NextChunk(Smaller(chunk_offset', Len(text)))
  BY <1>1 DEF NextChunk
<1>. QED BY <1>2, <1>3, <1>4, <1>5, <1>6

\* Nothing is known before the scan begins, and no end lies before it.
LEMMA NothingScanned ==
  ASSUME CaseOK
  PROVE  /\ Kept(ScanBegin) = {} /\ Ascending({}) = <<>>
         /\ LastOK(None, ScanBegin)
         /\ SubSeq(text, ScanBegin + 1, ScanBegin) = <<>>
         /\ {<<0, 0>>} = Known(<<>>)
<1>1. /\ Len(text) \in Nat /\ Len(delim) \in Nat \ {0} /\ offset \in Nat
      /\ ScanBegin \in Nat /\ (ScanBegin = 0 \/ ScanBegin = offset - Len(delim))
      /\ text \in Seq(Alphabet)
  BY CaseFacts DEF CaseOK
<1>2. \A e \in Ends : e \in Nat /\ 0 < e
  BY EndsBound
<1>3. \A e \in Ends : ~(offset <= e /\ e <= ScanBegin)
  BY <1>1, <1>2
<1>4. Kept(ScanBegin) = {}
  BY <1>3 DEF Kept
<1>5. LastOK(None, ScanBegin)
  BY <1>3 DEF LastOK
<1>6. SubSeq(text, ScanBegin + 1, ScanBegin) = <<>>
  BY <1>1, SubSeqEmpty
<1>7. {<<0, 0>>} = Known(<<>>)
  <2>1. Len(<<>>) = 0
    OBVIOUS
  <2>2. \A t \in 0 .. Len(delim) : Suffix(<<>>, t) <=> t = 0
    BY <1>1, <2>1 DEF Suffix
  <2>3. 0 \in 0 .. Len(delim)
    BY <1>1
  <2>4. \A p : p \in Known(<<>>) <=> p = <<0, 0>>
    BY <2>2, <2>3, MultiMembers
  <2>. QED BY <2>4
<1>8. Ascending({}) = <<>>
  BY SortedSmall, SortedIsAscending
<1>. QED BY <1>4, <1>5, <1>6, <1>7, <1>8

\* The loop is entered with nothing found.
LEMMA BeginOK ==
  ASSUME IInv, Begin
  PROVE  LoopOK'
<1>1. /\ CaseOK /\ Initially /\ size > 0 /\ ~Refused /\ arguments' = arguments
      /\ carry' = carry /\ last_row_offset' = last_row_offset
      /\ row_offset_storage' = row_offset_storage /\ char_storage' = char_storage
      /\ chunk_offset' = ScanBegin
      /\ first_row_offset' = IF offset = 0 THEN 0 ELSE None
      /\ chunk' = NextChunk(Smaller(chunk_offset', Len(text)))
      /\ position' = Smaller(chunk_offset', Len(text)) + Len(chunk')
  BY DEF IInv, Begin, arguments, ScanBegin
<1>2. text' = text /\ delim' = delim /\ size' = size /\ offset' = offset
  BY <1>1 DEF arguments
<1>3. ScanBegin \in Nat /\ offset \in Nat /\ (offset = 0 => ScanBegin = 0)
  BY <1>1, CaseFacts
<1>4. ChunkOK'
  BY <1>1, <1>2, <1>3, SameCase, NextParts DEF ChunkOK
<1>5. CarryOK'
  <2>1. carry' = Known(<<>>) /\ <<>> \in Seq(Alphabet)
    BY <1>1, NothingScanned DEF Initially
  <2>2. Known(<<>>)' = Known(<<>>)
    BY <1>2 DEF Known, Suffix
  <2>3. SubSeq(text, ScanBegin + 1, chunk_offset)' = <<>>
    BY <1>1, <1>2, SameCase, NothingScanned
  <2>4. \E w \in Seq(Alphabet) : carry' = Known(w)'
    BY <2>1, <2>2
  <2>5. Known(SubSeq(text, ScanBegin + 1, chunk_offset))' = Known(<<>>)
    BY <1>2, <2>3 DEF Known, Suffix
  <2>. QED BY <2>1, <2>4, <2>5 DEF CarryOK
<1>6. LastOK(last_row_offset, chunk_offset)'
  BY <1>1, NothingScanned, NextParts DEF Initially
<1>7. FirstOK(first_row_offset, chunk_offset)'
  BY <1>1, NothingScanned, NextParts DEF FirstOK
<1>8. RowsOK'
  <2>1. BuilderOK(row_offset_storage)' /\ Gather(row_offset_storage)' = <<>>
    BY <1>1, NewBuilderOK DEF Initially
  <2>2. Ascending(Kept(chunk_offset))' = <<>>
    BY <1>1, NothingScanned, NextParts
  <2>. QED BY <2>1, <2>2 DEF RowsOK
<1>9. CharsOK(last_row_offset)'
  <2>1. BuilderOK(char_storage)' /\ Gather(char_storage)' = <<>>
    BY <1>1, NewBuilderOK DEF Initially
  <2>2. Copied(first_row_offset', last_row_offset', chunk_offset') = <<>>
    <3>1. last_row_offset' = None /\ 0 # None
      BY <1>1 DEF Initially, None
    <3>2. Span(0, 0) = <<>>
      BY DEF Span, Larger
    <3>. QED BY <1>1, <1>3, <3>1, <3>2 DEF Copied
  <2>. QED BY <1>1, <2>1, <2>2, NextParts DEF CharsOK
<1>10. ~Refused' /\ size' > 0
  BY <1>1, <1>2, SameCase
<1>. QED BY <1>4, <1>5, <1>6, <1>7, <1>8, <1>9, <1>10 DEF LoopOK

\* An iteration, in the terms of what it finds.
LEMMA ScanForm ==
  ASSUME CaseOK, LoopOK, ScanChunk
  PROVE  /\ Continues /\ chunk # <<>> /\ last_row_offset = None
         /\ arguments' = arguments /\ pc' = pc /\ result' = result
         /\ row_offset_storage' = RowsAfter /\ first_row_offset' = FirstAfter
         /\ last_row_offset' = LastAfter /\ char_storage' = CharsAfter
         /\ \E pad \in Pads : carry' = CarryAfter(pad) /\ segments' = SegmentsAfter(pad)
         /\ chunk_offset' = chunk_offset + Len(chunk)
         /\ chunk' = NextChunk(position) /\ position' = position + Len(chunk')
<1>1. /\ Continues /\ chunk # <<>> /\ last_row_offset = None
      /\ arguments' = arguments /\ pc' = pc /\ result' = result
      /\ chunk_offset' = chunk_offset + Len(chunk)
      /\ chunk' = NextChunk(position) /\ position' = position + Len(chunk')
  BY DEF ScanChunk, Continues, arguments
<1>. DEFINE pick(pad) ==
              LET found == {chunk_offset + e : e \in MatchEnds(pad)}
                  new == Clamped(found)
                  rows == Written(row_offset_storage, Ascending(new))
                  first == IF first_row_offset = None /\ new # {} THEN Front(rows)
                           ELSE first_row_offset
                  last == IF \E m \in new : /\ m >= byte_range_end
                                            /\ chunk_offset + Len(chunk) >= byte_range_end
                          THEN Back(rows) ELSE None
                  begin == Larger(0, first - chunk_offset)
                  end == IF last = None THEN Len(chunk)
                         ELSE Smaller(last - chunk_offset, Len(chunk))
              IN /\ row_offset_storage' = rows
                 /\ first_row_offset' = first
                 /\ last_row_offset' = last
                 /\ char_storage' =
                      IF first = None THEN char_storage
                      ELSE Written(char_storage,
                                   [i \in 1 .. end - begin |-> chunk_offset + begin + i - 1])
                 /\ carry' = CarryAfter(pad)
                 /\ segments' = SegmentsAfter(pad)
<1>2. \E pad \in Pads : pick(pad)
  BY DEF ScanChunk, Pads, MatchEnds, CarryAfter, SegmentsAfter
<1>3. PICK pad \in Pads : pick(pad)
  BY <1>2
<1>4. {chunk_offset + e : e \in MatchEnds(pad)} = Found
  BY <1>1, FoundAre DEF LoopOK
<1>5. /\ row_offset_storage' = RowsAfter /\ first_row_offset' = FirstAfter
      /\ last_row_offset' = LastAfter /\ char_storage' = CharsAfter
      /\ carry' = CarryAfter(pad) /\ segments' = SegmentsAfter(pad)
  BY <1>3, <1>4 DEF RowsAfter, FirstAfter, LastAfter, CharsAfter
<1>. QED BY <1>1, <1>5

\* An iteration keeps the loop's invariant.
LEMMA ScanOK ==
  ASSUME CaseOK, StatesOK, LoopOK, ScanChunk
  PROVE  LoopOK' /\ StatesOK'
<1>1. /\ Continues /\ chunk # <<>> /\ last_row_offset = None
      /\ arguments' = arguments
      /\ row_offset_storage' = RowsAfter /\ first_row_offset' = FirstAfter
      /\ last_row_offset' = LastAfter /\ char_storage' = CharsAfter
      /\ chunk_offset' = chunk_offset + Len(chunk)
      /\ chunk' = NextChunk(position) /\ position' = position + Len(chunk')
  BY ScanForm
<1>2. text' = text /\ delim' = delim /\ size' = size /\ offset' = offset
  BY <1>1 DEF arguments
<1>3. /\ ~Refused /\ size > 0 /\ ChunkOK /\ CarryOK /\ RowsOK /\ CharsOK(None)
      /\ LastOK(None, chunk_offset) /\ FirstOK(first_row_offset, chunk_offset)
  BY <1>1 DEF LoopOK
<1>4. PICK pad \in Pads : carry' = CarryAfter(pad) /\ segments' = SegmentsAfter(pad)
  BY ScanForm
<1>5. /\ chunk_offset \in Nat /\ Len(chunk) \in Nat /\ chunk_offset + Len(chunk) <= Len(text)
      /\ position = chunk_offset + Len(chunk) /\ Len(text) \in Nat
      /\ ScanBegin \in Nat /\ ScanBegin <= chunk_offset
  BY <1>1, <1>3, ChunkIs, CaseFacts DEF ChunkOK
<1>6. ChunkOK'
  <2>1. Smaller(chunk_offset', Len(text)) = chunk_offset' /\ chunk_offset' = position
    BY <1>1, <1>5 DEF Smaller
  <2>2. NextChunk(Smaller(chunk_offset, Len(text)))' = chunk'
    BY <1>1, <2>1, NextParts
  <2>3. Smaller(chunk_offset, Len(text))' = position
    BY <1>2, <2>1
  <2>4. ScanBegin' = ScanBegin /\ ScanBegin <= chunk_offset' /\ chunk_offset' <= Len(text)
        /\ chunk_offset' \in Nat
    BY <1>1, <1>5, SameCase
  <2>. QED BY <1>1, <1>2, <2>2, <2>3, <2>4 DEF ChunkOK
<1>7. CarryOK'
  <2>1. PICK w \in Seq(Alphabet) : CarryAfter(pad) = Known(w)
    BY <1>1, <1>3, CarryAfterIs
  <2>2. Known(w)' = Known(w)
    BY <1>2 DEF Known, Suffix
  <2>3. \E v \in Seq(Alphabet) : carry' = Known(v)'
    BY <1>4, <2>1, <2>2
  <2>4. ASSUME chunk' # <<>>, Len(delim)' # 1
        PROVE  carry' = Known(SubSeq(text, ScanBegin + 1, chunk_offset))'
    <3>1. CaseOK' /\ ScanBegin' = ScanBegin
      BY <1>1, SameCase
    <3>2. position < Len(text)
      <4>. SUFFICES ASSUME ~(position < Len(text)) PROVE FALSE
        OBVIOUS
      <4>1. Smaller(position + ITEMS_PER_CHUNK, Len(text)) = Len(text)
        BY <1>5, Sizes DEF Smaller
      <4>2. text \in Seq(Alphabet) /\ position + 1 \in Int /\ Len(text) < position + 1
        BY <1>5 DEF CaseOK
      <4>3. SubSeq(text, position + 1, Len(text)) = <<>>
        BY <1>5, <4>2, SubSeqEmpty
      <4>. QED BY <1>1, <2>4, <4>1, <4>3 DEF NextChunk
    <3>3. chunk_offset + Len(chunk) < Len(text) /\ Len(delim) # 1
      BY <1>2, <1>5, <2>4, <3>2
    <3>4. CarryAfter(pad) = Known(SubSeq(text, ScanBegin + 1, chunk_offset + Len(chunk)))
      BY <1>1, <1>3, <3>3, CarryAfterIs
    <3>5. SubSeq(text, ScanBegin + 1, chunk_offset)'
            = SubSeq(text, ScanBegin + 1, chunk_offset + Len(chunk))
      BY <1>1, <1>2, <3>1
    <3>6. Known(SubSeq(text, ScanBegin + 1, chunk_offset))'
            = Known(SubSeq(text, ScanBegin + 1, chunk_offset + Len(chunk)))
      BY <1>2, <3>5 DEF Known, Suffix
    <3>. QED BY <1>4, <3>4, <3>6
  <2>. QED BY <2>3, <2>4 DEF CarryOK
<1>8. LastOK(last_row_offset, chunk_offset)'
  BY <1>1, <1>3, LastAfterIs, NextParts
<1>9. FirstOK(first_row_offset, chunk_offset)'
  BY <1>1, <1>3, FirstAfterIs, NextParts
<1>10. RowsOK'
  <2>1. BuilderOK(RowsAfter) /\ Gather(RowsAfter) = Ascending(Kept(chunk_offset'))
    BY <1>1, <1>3, RowsAfterAre
  <2>2. Ascending(Kept(chunk_offset))' = Ascending(Kept(chunk_offset'))
    BY <1>1, NextParts
  <2>. QED BY <1>1, <2>1, <2>2 DEF RowsOK
<1>11. CharsOK(last_row_offset)'
  <2>1. BuilderOK(CharsAfter)
        /\ Gather(CharsAfter) = Copied(first_row_offset', last_row_offset', chunk_offset')
    BY <1>1, <1>3, CharsAfterAre
  <2>. QED BY <1>1, <2>1, NextParts DEF CharsOK
<1>12. ~Refused' /\ size' > 0
  BY <1>1, <1>2, <1>3, SameCase
<1>13. StatesOK'
  <2>1. segments' \in 0 .. max_segment_count
    BY <1>1, <1>3, <1>4, SegmentsAfterFit DEF StatesOK
  <2>2. PICK w \in Seq(Alphabet) : carry' = Known(w)
    BY <1>1, <1>3, <1>4, CarryAfterIs
  <2>3. \A s \in carry' : s[2] <= max_segment_value
    BY <1>3, <2>2, KnownTails
  <2>. QED BY <2>1, <2>3 DEF StatesOK
<1>14. LoopOK'
  BY <1>6, <1>7, <1>8, <1>9, <1>10, <1>11, <1>12 DEF LoopOK
<1>. QED BY <1>13, <1>14

\* An empty range has no rows.
LEMMA EmptyRangeRows ==
  ASSUME CaseOK, size = 0
  PROVE  RowStarts = {}
<1>1. offset \in Nat /\ byte_range_end = offset /\ \A e \in Ends : e \in Nat
  BY CaseFacts, EndsBound DEF byte_range_end
<1>2. ASSUME NEW s \in RowStarts PROVE FALSE
  <2>1. s \in {0} \cup Ends /\ offset <= s /\ s < byte_range_end
    BY DEF RowStarts
  <2>2. s \in Nat
    BY <1>1, <2>1
  <2>. QED BY <1>1, <2>1, <2>2
<1>. QED BY <1>2

\* The inductive invariant holds at first.
LEMMA Initialised == Init => IInv
<1>. SUFFICES ASSUME Init PROVE IInv
  OBVIOUS
<1>1. CaseOK
  BY CasesAssumption DEF Init, CaseOK, DelimOK
<1>2. Initially /\ segments = 0 /\ pc = "start"
  BY DEF Init, Initially
<1>3. BuilderOK(row_offset_storage) /\ BuilderOK(char_storage)
  BY <1>2, NewBuilderOK DEF Initially
<1>4. StatesOK
  <2>1. max_segment_count \in Nat /\ max_segment_value \in Nat
    BY SplitAssumption
  <2>2. <<0, 0>>[2] = 0
    OBVIOUS
  <2>. QED BY <1>2, <2>1, <2>2 DEF StatesOK, Initially
<1>. QED BY <1>1, <1>2, <1>3, <1>4 DEF IInv

\* The inductive invariant is kept by every action.
LEMMA Preserved == IInv /\ [Next]_vars => IInv'
<1>. SUFFICES ASSUME IInv, [Next]_vars PROVE IInv'
  OBVIOUS
<1>. USE DEF IInv
<1>1. CASE EmptyRange
  <2>1. /\ pc = "start" /\ pc' = "done" /\ size = 0 /\ arguments' = arguments
        /\ row_offset_storage' = row_offset_storage /\ char_storage' = char_storage
        /\ carry' = carry /\ segments' = segments /\ result' = result
    BY <1>1 DEF EmptyRange, arguments
  <2>2. CaseOK' /\ ExactRows' = ExactRows /\ ExactStripped' = ExactStripped
    BY <2>1, SameCase
  <2>3. ExactRows = <<>> /\ ExactStripped = <<>>
    BY <2>1, EmptyRangeRows, NoExactRows
  <2>. QED BY <2>1, <2>2, <2>3 DEF StatesOK, Initially
<1>2. CASE Refuse
  <2>1. /\ pc' = "thrown" /\ arguments' = arguments
        /\ row_offset_storage' = row_offset_storage /\ char_storage' = char_storage
        /\ carry' = carry /\ segments' = segments
    BY <1>2 DEF Refuse, arguments
  <2>. QED BY <2>1, SameCase DEF StatesOK
<1>3. CASE Begin
  <2>1. /\ pc' = "loop" /\ arguments' = arguments
        /\ row_offset_storage' = row_offset_storage /\ char_storage' = char_storage
        /\ carry' = carry /\ segments' = segments
    BY <1>3 DEF Begin, arguments
  <2>2. LoopOK'
    BY <1>3, BeginOK
  <2>. QED BY <2>1, <2>2, SameCase DEF StatesOK
<1>4. CASE ScanChunk
  <2>1. pc = "loop" /\ LoopOK
    BY <1>4 DEF ScanChunk
  <2>2. pc' = "loop" /\ arguments' = arguments
    BY <1>4, <2>1, ScanForm
  <2>3. LoopOK' /\ StatesOK'
    BY <1>4, <2>1, ScanOK
  <2>4. BuilderOK(row_offset_storage)' /\ BuilderOK(char_storage)'
    BY <2>3 DEF LoopOK, RowsOK, CharsOK
  <2>. QED BY <2>2, <2>3, <2>4, SameCase
<1>5. CASE Finish
  <2>1. /\ pc = "loop" /\ LoopOK /\ ~Continues /\ pc' = "done" /\ arguments' = arguments
        /\ row_offset_storage' = row_offset_storage /\ char_storage' = char_storage
        /\ carry' = carry /\ segments' = segments
        /\ result' = IF IsEmpty THEN [kept |-> <<>>, stripped |-> <<>>]
                     ELSE [kept |-> KeptRows, stripped |-> StrippedRows]
    BY <1>5 DEF Finish, arguments
  <2>2. CaseOK' /\ ExactRows' = ExactRows /\ ExactStripped' = ExactStripped
    BY <2>1, SameCase
  <2>3. result' = [kept |-> ExactRows, stripped |-> ExactStripped]
    <3>1. CASE IsEmpty
      BY <2>1, <3>1, NoRows, NoExactRows
    <3>2. CASE ~IsEmpty
      BY <2>1, <3>2, RowsAreExact
    <3>. QED BY <3>1, <3>2
  <2>. QED BY <2>1, <2>2, <2>3 DEF StatesOK
<1>6. CASE UNCHANGED vars
  <2>1. /\ arguments' = arguments /\ pc' = pc /\ result' = result
        /\ row_offset_storage' = row_offset_storage /\ char_storage' = char_storage
        /\ carry' = carry /\ segments' = segments /\ chunk' = chunk /\ position' = position
        /\ chunk_offset' = chunk_offset /\ first_row_offset' = first_row_offset
        /\ last_row_offset' = last_row_offset
    BY <1>6 DEF vars, arguments
  <2>2. /\ CaseOK' /\ ExactRows' = ExactRows /\ ExactStripped' = ExactStripped
        /\ (Refused' <=> Refused) /\ ScanBegin' = ScanBegin
    BY <2>1, SameCase
  <2>3. LoopOK => LoopOK'
    <3>. SUFFICES ASSUME LoopOK PROVE LoopOK'
      OBVIOUS
    <3>1. text' = text /\ delim' = delim /\ size' = size
      BY <2>1 DEF arguments
    <3>2. ChunkOK'
      BY <2>1, <2>2, <3>1, NextParts DEF LoopOK, ChunkOK
    <3>3. CarryOK'
      <4>1. SubSeq(text, ScanBegin + 1, chunk_offset)' = SubSeq(text, ScanBegin + 1, chunk_offset)
        BY <2>1, <2>2, <3>1
      <4>2. Known(SubSeq(text, ScanBegin + 1, chunk_offset))'
              = Known(SubSeq(text, ScanBegin + 1, chunk_offset))
        BY <3>1, <4>1 DEF Known, Suffix
      <4>3. PICK w \in Seq(Alphabet) : carry = Known(w)
        BY DEF LoopOK, CarryOK
      <4>4. Known(w)' = Known(w)
        BY <3>1 DEF Known, Suffix
      <4>5. \E v \in Seq(Alphabet) : carry' = Known(v)'
        BY <2>1, <4>3, <4>4
      <4>. QED BY <2>1, <3>1, <4>2, <4>5 DEF LoopOK, CarryOK
    <3>4. RowsOK' /\ CharsOK(last_row_offset)'
      BY <2>1, NextParts DEF LoopOK, RowsOK, CharsOK
    <3>5. LastOK(last_row_offset, chunk_offset)' /\ FirstOK(first_row_offset, chunk_offset)'
      BY <2>1, NextParts DEF LoopOK
    <3>. QED BY <2>2, <3>1, <3>2, <3>3, <3>4, <3>5 DEF LoopOK
  <2>. QED BY <2>1, <2>2, <2>3 DEF StatesOK, Initially
<1>. QED BY <1>1, <1>2, <1>3, <1>4, <1>5, <1>6 DEF Next, Returned

\* What the invariant says in every state.
LEMMA Promised == IInv => SegmentsFit /\ BuilderRoom /\ RowsExact /\ DelimitersStripped
<1>. SUFFICES ASSUME IInv PROVE SegmentsFit /\ BuilderRoom /\ RowsExact /\ DelimitersStripped
  OBVIOUS
<1>1. SegmentsFit
  <2>1. segments \in 0 .. max_segment_count /\ \A s \in carry : s[2] <= max_segment_value
    BY DEF IInv, StatesOK
  <2>2. segments <= max_segment_count
    BY <2>1, SplitAssumption
  <2>. QED BY <2>1, <2>2 DEF SegmentsFit
<1>2. BuilderRoom
  <2>1. ASSUME NEW b, BuilderOK(b)
        PROVE  /\ \A i \in DOMAIN b : Len(b[i].data) <= b[i].capacity
               /\ \A i \in 1 .. Len(b) - 2 : Free(b[i]) = 0
               /\ b[Len(b)].data # <<>> /\ Len(b) > 1 => Free(b[Len(b) - 1]) = 0
    <3>1. DOMAIN b = 1 .. Len(b)
      BY <2>1, LenProperties DEF BuilderOK
    <3>. QED BY <2>1, <3>1 DEF BuilderOK
  <2>. QED BY <2>1 DEF IInv, BuilderRoom
<1>3. pc = "done" => result.kept = ExactRows /\ result.stripped = ExactStripped
  BY DEF IInv
<1>. QED BY <1>1, <1>2, <1>3 DEF RowsExact, DelimitersStripped, ExactRows, ExactStripped

\* The inductive invariant holds always.
LEMMA Inductive == Spec => []IInv
BY Initialised, Preserved, PTL DEF Spec

(* No multistate outgrows its segments: a delimiter that is not refused    *)
(* fits multistate, for every input.                                       *)
THEOREM SegmentsAlwaysFit == Spec => []SegmentsFit
BY Inductive, Promised, PTL

(* output_builder has room for every chunk and leaves no gap, for every    *)
(* size of a chunk and every growth.                                       *)
THEOREM BuilderAlwaysHasRoom == Spec => []BuilderRoom
BY Inductive, Promised, PTL

(* multibyte_split gives the rows that begin in the byte range, whole, in  *)
(* order and once, wherever chunks, tiles and threads cut the input and    *)
(* whatever lies behind its end.                                           *)
THEOREM RowsAlwaysExact == Spec => []RowsExact
BY Inductive, Promised, PTL

(* strip_delimiters takes the delimiter, and only it.                      *)
THEOREM DelimitersAlwaysStripped == Spec => []DelimitersStripped
BY Inductive, Promised, PTL
=============================================================================
