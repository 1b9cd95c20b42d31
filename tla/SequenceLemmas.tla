--------------------------- MODULE SequenceLemmas ---------------------------
(***************************************************************************)
(* What the proofs keep needing of the queues and histories of the models: *)
(* an element appended, taken from the front or put in front, and          *)
(* sequences one behind the other.                                         *)
(***************************************************************************)
EXTENDS Integers, SequenceTheorems, TLAPS, Functions

\* Appending to a sequence of a set, and what stays of it.
LEMMA Appended ==
  ASSUME NEW S, NEW s \in Seq(S), NEW e \in S, NEW t, t = Append(s, e)
  PROVE  /\ t \in Seq(S) /\ Len(s) \in Nat /\ Len(t) = Len(s) + 1
         /\ \A i \in 1 .. Len(s) : t[i] = s[i]
         /\ t[Len(s) + 1] = e
         /\ DOMAIN s = 1 .. Len(s) /\ DOMAIN t = 1 .. Len(s) + 1
<1>1. t \in Seq(S) /\ Len(t) = Len(s) + 1
  BY AppendProperties
<1>2. Len(s) \in Nat /\ DOMAIN s = 1 .. Len(s) /\ DOMAIN t = 1 .. Len(t)
  BY <1>1, LenProperties
<1>. QED  BY <1>1, <1>2, AppendProperties

\* Taking the first element.
LEMMA Taken ==
  ASSUME NEW S, NEW s \in Seq(S), s # <<>>
  PROVE  Head(s) \in S /\ Tail(s) \in Seq(S) /\ Len(Tail(s)) = Len(s) - 1
BY HeadTailProperties

\* One sequence behind another.
LEMMA Joined ==
  ASSUME NEW S, NEW s \in Seq(S), NEW t \in Seq(S)
  PROVE  /\ s \o t \in Seq(S)
         /\ Len(s) \in Nat /\ Len(t) \in Nat /\ Len(s \o t) = Len(s) + Len(t)
         /\ \A i \in 1 .. Len(s) : (s \o t)[i] = s[i]
         /\ \A i \in 1 .. Len(t) : (s \o t)[Len(s) + i] = t[i]
         /\ Range(s \o t) = Range(s) \cup Range(t)
         /\ \A x : x \in Range(s) <=> \E i \in 1 .. Len(s) : s[i] = x
<1>1. /\ s \o t \in Seq(S) /\ Len(s \o t) = Len(s) + Len(t)
      /\ Len(s) \in Nat /\ Len(t) \in Nat
      /\ \A i \in 1 .. Len(s) + Len(t) : (s \o t)[i] =
           IF i <= Len(s) THEN s[i] ELSE t[i - Len(s)]
      /\ DOMAIN s = 1 .. Len(s) /\ DOMAIN t = 1 .. Len(t)
      /\ DOMAIN (s \o t) = 1 .. Len(s) + Len(t)
  BY ConcatProperties, LenProperties
<1>2. \A i \in 1 .. Len(s) : (s \o t)[i] = s[i]
  BY <1>1
<1>3. \A i \in 1 .. Len(t) : (s \o t)[Len(s) + i] = t[i]
  BY <1>1
<1>4. \A i \in 1 .. Len(s) + Len(t) :
        i \in 1 .. Len(s) \/ \E j \in 1 .. Len(t) : i = Len(s) + j
  <2>1. ASSUME NEW i \in 1 .. Len(s) + Len(t), i \notin 1 .. Len(s)
        PROVE  i - Len(s) \in 1 .. Len(t) /\ i = Len(s) + (i - Len(s))
    BY <1>1, <2>1
  <2>. QED  BY <2>1
<1>5. Range(s \o t) = Range(s) \cup Range(t)
  <2>1. ASSUME NEW i \in 1 .. Len(s) + Len(t)
        PROVE  (s \o t)[i] \in Range(s) \cup Range(t)
    BY <1>1, <1>2, <1>3, <1>4 DEF Range
  <2>2. \A i \in 1 .. Len(s) : s[i] \in Range(s \o t)
    BY <1>1, <1>2 DEF Range
  <2>3. ASSUME NEW i \in 1 .. Len(t)
        PROVE  t[i] \in Range(s \o t)
    <3>1. Len(s) + i \in 1 .. Len(s) + Len(t)
      BY <1>1
    <3>. QED  BY <1>1, <1>3, <3>1 DEF Range
  <2>. QED  BY <1>1, <2>1, <2>2, <2>3 DEF Range
<1>6. \A x : x \in Range(s) <=> \E i \in 1 .. Len(s) : s[i] = x
  BY <1>1 DEF Range
<1>. QED  BY <1>1, <1>2, <1>3, <1>5, <1>6

\* One element in front of the others.
LEMMA OneInFront ==
  ASSUME NEW S, NEW c \in S, NEW r \in Seq(S)
  PROVE  /\ <<c>> \o r \in Seq(S) /\ <<c>> \o r # <<>>
         /\ Head(<<c>> \o r) = c /\ Tail(<<c>> \o r) = r
         /\ \A d \in S : Append(<<c>> \o r, d) = <<c>> \o Append(r, d)
<1>1. <<c>> \in Seq(S) /\ Len(<<c>>) = 1 /\ <<c>>[1] = c
  OBVIOUS
<1>2. /\ <<c>> \o r \in Seq(S) /\ Len(<<c>> \o r) = 1 + Len(r) /\ Len(r) \in Nat
      /\ \A i \in 1 .. 1 + Len(r) : (<<c>> \o r)[i] = IF i <= 1 THEN c ELSE r[i - 1]
  BY <1>1, ConcatProperties, LenProperties
<1>3. <<c>> \o r # <<>>
  BY <1>2
<1>4. Head(<<c>> \o r) = c
  BY <1>2, <1>3
<1>5. Tail(<<c>> \o r) = r
  <2>1. /\ Tail(<<c>> \o r) \in Seq(S) /\ Len(Tail(<<c>> \o r)) = Len(r)
        /\ \A i \in 1 .. Len(r) : Tail(<<c>> \o r)[i] = (<<c>> \o r)[i + 1]
    BY <1>2, <1>3, HeadTailProperties
  <2>2. \A i \in 1 .. Len(r) : Tail(<<c>> \o r)[i] = r[i]
    BY <1>2, <2>1
  <2>. QED  BY <2>1, <2>2, SeqEqual
<1>6. ASSUME NEW d \in S
      PROVE  Append(<<c>> \o r, d) = <<c>> \o Append(r, d)
  <2>1. <<d>> \in Seq(S)
    OBVIOUS
  <2>. QED  BY <1>1, <1>2, <2>1, AppendIsConcat, ConcatAssociative
<1>. QED  BY <1>2, <1>3, <1>4, <1>5, <1>6

LEMMA HeadAndTail ==
  ASSUME NEW S, NEW r \in Seq(S), r # <<>>
  PROVE  <<Head(r)>> \o Tail(r) = r
<1>1. /\ Head(r) \in S /\ Tail(r) \in Seq(S) /\ Len(Tail(r)) = Len(r) - 1
      /\ \A i \in 1 .. Len(Tail(r)) : Tail(r)[i] = r[i + 1]
      /\ Len(r) \in Nat \ {0} /\ Head(r) = r[1]
  BY HeadTailProperties, EmptySeq
<1>2. <<Head(r)>> \in Seq(S) /\ Len(<<Head(r)>>) = 1 /\ <<Head(r)>>[1] = Head(r)
  BY <1>1
<1>3. /\ <<Head(r)>> \o Tail(r) \in Seq(S)
      /\ Len(<<Head(r)>> \o Tail(r)) = 1 + Len(Tail(r))
      /\ \A i \in 1 .. 1 + Len(Tail(r)) : (<<Head(r)>> \o Tail(r))[i] =
           IF i <= 1 THEN <<Head(r)>>[i] ELSE Tail(r)[i - 1]
  BY <1>1, <1>2, ConcatProperties
<1>4. \A i \in 1 .. Len(r) : (<<Head(r)>> \o Tail(r))[i] = r[i]
  BY <1>1, <1>2, <1>3
<1>. QED  BY <1>1, <1>3, <1>4, SeqEqual

\* An element that passes from the front of one sequence to the end of another.
LEMMA PassedOn ==
  ASSUME NEW S, NEW s \in Seq(S), NEW c \in S, NEW t \in Seq(S)
  PROVE  /\ Append(s, c) \o t = s \o (<<c>> \o t)
         /\ \A r \in Seq(S) : r \o Append(s, c) = Append(r \o s, c)
<1> DEFINE one == <<c>>
<1>0. one \in Seq(S)
  OBVIOUS
<1>1. Append(s, c) = s \o one
  BY AppendIsConcat
<1>2. ASSUME NEW r \in Seq(S)
      PROVE  Append(r \o s, c) = (r \o s) \o one
  BY AppendIsConcat, ConcatProperties
<1> HIDE DEF one
<1>3. (s \o one) \o t = s \o (one \o t)
  BY <1>0, ConcatAssociative
<1>4. ASSUME NEW r \in Seq(S)
      PROVE  (r \o s) \o one = r \o (s \o one)
  BY <1>0, ConcatAssociative
<1>. QED  BY <1>1, <1>2, <1>3, <1>4 DEF one

\* The elements of s come in the order of the relation R, a set of pairs.
Chain(R, s) == \A i, j \in DOMAIN s : i < j => <<s[i], s[j]>> \in R

\* Two sequences in order, one behind the other, are in order if each element of
\* the first comes before each of the second.
LEMMA ChainJoined ==
  ASSUME NEW R, NEW S, NEW s \in Seq(S), NEW t \in Seq(S)
  PROVE  Chain(R, s \o t) <=>
           /\ Chain(R, s) /\ Chain(R, t)
           /\ \A c \in Range(s), d \in Range(t) : <<c, d>> \in R
<1> DEFINE st == s \o t
           m == Len(s)
           n == Len(t)
           Before(c, d) == <<c, d>> \in R
<1>1. /\ m \in Nat /\ n \in Nat
      /\ \A i \in 1 .. m : st[i] = s[i]
      /\ \A i \in 1 .. n : st[m + i] = t[i]
      /\ DOMAIN s = 1 .. m /\ DOMAIN t = 1 .. n /\ DOMAIN st = 1 .. m + n
  BY Joined, LenProperties
<1>2. \A x : x \in Range(s) <=> \E i \in 1 .. m : s[i] = x
  BY <1>1 DEF Range
<1>3. \A x : x \in Range(t) <=> \E i \in 1 .. n : t[i] = x
  BY <1>1 DEF Range
<1>4. /\ Chain(R, st) <=> \A i, j \in 1 .. m + n : i < j => Before(st[i], st[j])
      /\ Chain(R, s) <=> \A i, j \in 1 .. m : i < j => Before(s[i], s[j])
      /\ Chain(R, t) <=> \A i, j \in 1 .. n : i < j => Before(t[i], t[j])
      /\ (\A c \in Range(s), d \in Range(t) : <<c, d>> \in R)
           <=> \A c \in Range(s), d \in Range(t) : Before(c, d)
  BY <1>1 DEF Chain
<1> HIDE DEF st, m, n, Before
<1>5. ASSUME Chain(R, st)
      PROVE  /\ Chain(R, s) /\ Chain(R, t)
             /\ \A c \in Range(s), d \in Range(t) : Before(c, d)
  <2>1. \A i, j \in 1 .. m + n : i < j => Before(st[i], st[j])
    BY <1>4, <1>5
  <2>2. Chain(R, s)
    BY <1>1, <1>4, <2>1
  <2>3. ASSUME NEW i \in 1 .. n, NEW j \in 1 .. n, i < j
        PROVE  Before(t[i], t[j])
    <3>1. m + i \in 1 .. m + n /\ m + j \in 1 .. m + n /\ m + i < m + j
      BY <1>1, <2>3
    <3>. QED  BY <1>1, <2>1, <3>1
  <2>4. ASSUME NEW i \in 1 .. m, NEW j \in 1 .. n
        PROVE  Before(s[i], t[j])
    <3>1. i \in 1 .. m + n /\ m + j \in 1 .. m + n /\ i < m + j
      BY <1>1
    <3>2. Before(st[i], st[m + j])
      BY <2>1, <3>1
    <3>. QED  BY <1>1, <3>2
  <2>. QED  BY <1>2, <1>3, <1>4, <2>2, <2>3, <2>4
<1>6. ASSUME Chain(R, s), Chain(R, t), \A c \in Range(s), d \in Range(t) : Before(c, d)
      PROVE  Chain(R, st)
  <2>. SUFFICES ASSUME NEW i \in 1 .. m + n, NEW j \in 1 .. m + n, i < j
                PROVE  Before(st[i], st[j])
    BY <1>4
  <2>1. CASE j <= m
    BY <1>1, <1>4, <1>6, <2>1
  <2>2. CASE i <= m /\ m < j
    <3>1. i \in 1 .. m /\ j - m \in 1 .. n /\ m + (j - m) = j
      BY <1>1, <2>2
    <3>2. st[i] = s[i] /\ st[j] = t[j - m]
      BY <1>1, <3>1
    <3>3. s[i] \in Range(s) /\ t[j - m] \in Range(t)
      BY <1>2, <1>3, <3>1
    <3>. QED  BY <1>6, <3>2, <3>3
  <2>3. CASE m < i
    <3>1. i - m \in 1 .. n /\ j - m \in 1 .. n /\ i - m < j - m
          /\ m + (i - m) = i /\ m + (j - m) = j
      BY <1>1, <2>3
    <3>2. st[i] = t[i - m] /\ st[j] = t[j - m]
      BY <1>1, <3>1
    <3>3. Before(t[i - m], t[j - m])
      BY <1>4, <1>6, <3>1
    <3>. QED  BY <3>2, <3>3
  <2>. QED  BY <1>1, <2>1, <2>2, <2>3
<1>. QED  BY <1>4, <1>5, <1>6 DEF st

\* One element is always in order.
LEMMA OneIs ==
  ASSUME NEW S, NEW c \in S
  PROVE  <<c>> \in Seq(S) /\ Range(<<c>>) = {c}
<1>1. <<c>> \in Seq(S) /\ DOMAIN <<c>> = {1} /\ <<c>>[1] = c
  OBVIOUS
<1>. QED  BY <1>1 DEF Range

LEMMA ChainOfOne ==
  ASSUME NEW R, NEW c
  PROVE  Chain(R, <<c>>)
<1>1. DOMAIN <<c>> = {1}
  OBVIOUS
<1>. QED  BY <1>1 DEF Chain

LEMMA RangeJoined ==
  ASSUME NEW S, NEW s \in Seq(S), NEW t \in Seq(S)
  PROVE  s \o t \in Seq(S) /\ Range(s \o t) = Range(s) \cup Range(t)
BY Joined

\* One more element at the end, or one taken from the front.
LEMMA RangeAppended ==
  ASSUME NEW S, NEW s \in Seq(S), NEW c \in S
  PROVE  Range(Append(s, c)) = Range(s) \cup {c}
<1> DEFINE one == <<c>>
<1>1. Append(s, c) = s \o one
  BY AppendIsConcat
<1>2. one \in Seq(S) /\ Range(one) = {c}
  BY OneIs
<1> HIDE DEF one
<1>. QED  BY <1>1, <1>2, RangeJoined

LEMMA RangeTaken ==
  ASSUME NEW S, NEW c \in S, NEW t \in Seq(S)
  PROVE  Range(<<c>> \o t) = {c} \cup Range(t)
<1> DEFINE one == <<c>>
<1>1. one \in Seq(S) /\ Range(one) = {c}
  BY OneIs
<1> HIDE DEF one
<1>2. Range(one \o t) = Range(one) \cup Range(t)
  BY <1>1, RangeJoined
<1>. QED  BY <1>1, <1>2 DEF one

LEMMA ChainAppended ==
  ASSUME NEW R, NEW S, NEW s \in Seq(S), NEW c \in S
  PROVE  Chain(R, Append(s, c)) <=>
           Chain(R, s) /\ \A d \in Range(s) : <<d, c>> \in R
<1> DEFINE one == <<c>>
<1>1. one \in Seq(S) /\ Range(one) = {c} /\ Chain(R, one)
  BY OneIs, ChainOfOne
<1>2. Append(s, c) = s \o one
  BY AppendIsConcat
<1> HIDE DEF one
<1>3. Chain(R, s \o one) <=>
        /\ Chain(R, s) /\ Chain(R, one)
        /\ \A d \in Range(s), x \in Range(one) : <<d, x>> \in R
  BY <1>1, ChainJoined
<1>. QED  BY <1>1, <1>2, <1>3

LEMMA ChainTaken ==
  ASSUME NEW R, NEW S, NEW c \in S, NEW t \in Seq(S)
  PROVE  Chain(R, <<c>> \o t) <=>
           Chain(R, t) /\ \A d \in Range(t) : <<c, d>> \in R
<1> DEFINE one == <<c>>
<1>1. one \in Seq(S) /\ Range(one) = {c} /\ Chain(R, one)
  BY OneIs, ChainOfOne
<1> HIDE DEF one
<1>2. Chain(R, one \o t) <=>
        /\ Chain(R, one) /\ Chain(R, t)
        /\ \A x \in Range(one), d \in Range(t) : <<x, d>> \in R
  BY <1>1, ChainJoined
<1>. QED  BY <1>1, <1>2 DEF one

\* Three sequences, one behind the other.
LEMMA RangeOfThree ==
  ASSUME NEW S, NEW s \in Seq(S), NEW t \in Seq(S), NEW u \in Seq(S)
  PROVE  /\ (s \o t) \o u \in Seq(S)
         /\ Range((s \o t) \o u) = Range(s) \cup Range(t) \cup Range(u)
<1> DEFINE st == s \o t
<1>1. st \in Seq(S) /\ Range(st) = Range(s) \cup Range(t)
  BY RangeJoined
<1> HIDE DEF st
<1>2. st \o u \in Seq(S) /\ Range(st \o u) = Range(st) \cup Range(u)
  BY <1>1, RangeJoined
<1>. QED  BY <1>1, <1>2 DEF st

LEMMA ChainOfThree ==
  ASSUME NEW R, NEW S, NEW s \in Seq(S), NEW t \in Seq(S), NEW u \in Seq(S)
  PROVE  Chain(R, (s \o t) \o u) <=>
           /\ Chain(R, s) /\ Chain(R, t) /\ Chain(R, u)
           /\ \A c \in Range(s), d \in Range(t) : <<c, d>> \in R
           /\ \A c \in Range(s), d \in Range(u) : <<c, d>> \in R
           /\ \A c \in Range(t), d \in Range(u) : <<c, d>> \in R
<1> DEFINE st == s \o t
<1>1. st \in Seq(S) /\ Range(st) = Range(s) \cup Range(t)
  BY RangeJoined
<1>2. Chain(R, st) <=>
        /\ Chain(R, s) /\ Chain(R, t)
        /\ \A c \in Range(s), d \in Range(t) : <<c, d>> \in R
  BY ChainJoined
<1> HIDE DEF st
<1>3. Chain(R, st \o u) <=>
        /\ Chain(R, st) /\ Chain(R, u)
        /\ \A c \in Range(st), d \in Range(u) : <<c, d>> \in R
  BY <1>1, ChainJoined
<1>. QED  BY <1>1, <1>2, <1>3 DEF st
=============================================================================
