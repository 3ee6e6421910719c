----------------------------- MODULE DataLemmas ------------------------------
(***************************************************************************)
(* The facts about data on which the proofs rest. What putting into a queue  *)
(* and taking out of it does to its members, for RABBITMQ_QUEUE (rpc.py) and  *)
(* option_queue (datacollector.py); what a change does to a sum, for the      *)
(* deltas and orders that DeltaHedgeEngine (deltahedge.py) adds up. A sum is a *)
(* fold, whose recursive function must be shown to exist: finite sets and     *)
(* natural numbers are reasoned about through a least counterexample.         *)
(***************************************************************************)
EXTENDS SequencesExt, SequenceTheorems, FiniteSetTheorems, TLAPS

\* A queue is its members by position.
LEMMA QueueMembers ==
    ASSUME NEW S, NEW q \in Seq(S)
    PROVE  /\ Len(q) \in Nat /\ DOMAIN q = 1 .. Len(q)
           /\ ToSet(q) = {q[i] : i \in 1 .. Len(q)} /\ ToSet(q) \subseteq S
           /\ IsInjective(q) <=> \A i, j \in 1 .. Len(q) : q[i] = q[j] => i = j
BY LenProperties DEF ToSet, IsInjective

\* Nothing is in an empty one.
LEMMA QueueEmpty == ToSet(<<>>) = {} /\ IsInjective(<<>>)
BY DEF ToSet, IsInjective

\* Appending adds one member, at the end.
LEMMA QueueAppend ==
    ASSUME NEW S, NEW q \in Seq(S), NEW e \in S
    PROVE  /\ Append(q, e) \in Seq(S)
           /\ ToSet(Append(q, e)) = ToSet(q) \cup {e}
           /\ IsInjective(q) /\ e \notin ToSet(q) => IsInjective(Append(q, e))
<1> DEFINE r == Append(q, e)
<1>1. /\ r \in Seq(S) /\ Len(r) = Len(q) + 1
      /\ \A i \in 1 .. Len(q) : r[i] = q[i]
      /\ r[Len(q) + 1] = e
  BY AppendProperties
<1> HIDE DEF r
<1>2. Len(q) \in Nat /\ 1 .. Len(r) = (1 .. Len(q)) \cup {Len(q) + 1}
  BY <1>1, QueueMembers
<1>3. ToSet(r) = {r[i] : i \in 1 .. Len(r)}
  BY <1>1, QueueMembers
<1>4. ToSet(q) = {q[i] : i \in 1 .. Len(q)}
  BY QueueMembers
<1>5. ToSet(r) = ToSet(q) \cup {e}
  BY <1>1, <1>2, <1>3, <1>4
<1>6. ASSUME IsInjective(q), e \notin ToSet(q) PROVE IsInjective(r)
  <2>1. \A i, j \in 1 .. Len(q) : q[i] = q[j] => i = j
    BY <1>6, QueueMembers
  <2>2. \A i, j \in 1 .. Len(r) : r[i] = r[j] => i = j
    BY <2>1, <1>1, <1>2, <1>4, <1>6
  <2> QED BY <2>2, <1>1, QueueMembers
<1> QED BY <1>1, <1>5, <1>6 DEF r

\* So does putting back at the head.
LEMMA QueuePutBack ==
    ASSUME NEW S, NEW q \in Seq(S), NEW e \in S
    PROVE  /\ <<e>> \o q \in Seq(S)
           /\ ToSet(<<e>> \o q) = ToSet(q) \cup {e}
           /\ IsInjective(q) /\ e \notin ToSet(q) => IsInjective(<<e>> \o q)
<1> DEFINE r == <<e>> \o q
<1>1. /\ r \in Seq(S) /\ Len(r) = Len(q) + 1
      /\ r[1] = e
      /\ \A i \in 1 .. Len(q) : r[i + 1] = q[i]
  <2>1. <<e>> \in Seq(S) /\ Len(<<e>>) = 1 /\ <<e>>[1] = e /\ Len(q) \in Nat
    BY LenProperties
  <2> QED BY <2>1, ConcatProperties
<1> HIDE DEF r
<1>2. /\ Len(q) \in Nat
      /\ \A i \in 1 .. Len(r) : i # 1 => i - 1 \in 1 .. Len(q) /\ r[i] = q[i - 1]
  <2>1. Len(q) \in Nat
    BY QueueMembers
  <2>2. ASSUME NEW i \in 1 .. Len(r), i # 1
        PROVE  i - 1 \in 1 .. Len(q) /\ r[i] = q[i - 1]
    <3> DEFINE k == i - 1
    <3>1. k \in 1 .. Len(q) /\ i = k + 1
      BY <2>1, <2>2, <1>1
    <3> HIDE DEF k
    <3>2. r[k + 1] = q[k]
      BY <3>1, <1>1
    <3> QED BY <3>1, <3>2 DEF k
  <2> QED BY <2>1, <2>2
<1>3. ToSet(r) = {r[i] : i \in 1 .. Len(r)}
  BY <1>1, QueueMembers
<1>4. ToSet(q) = {q[i] : i \in 1 .. Len(q)}
  BY QueueMembers
<1>5. ToSet(r) = ToSet(q) \cup {e}
  <2>1. ASSUME NEW x \in ToSet(r) PROVE x \in ToSet(q) \cup {e}
    <3>1. PICK i \in 1 .. Len(r) : x = r[i]
      BY <1>3
    <3>2. CASE i = 1
      BY <3>1, <3>2, <1>1
    <3>3. CASE i # 1
      BY <3>1, <3>3, <1>2, <1>4
    <3> QED BY <3>2, <3>3
  <2>2. ASSUME NEW x \in ToSet(q) PROVE x \in ToSet(r)
    <3>1. PICK i \in 1 .. Len(q) : x = q[i]
      BY <1>4
    <3>2. i + 1 \in 1 .. Len(r)
      BY <1>1, <1>2
    <3> QED BY <3>1, <3>2, <1>1, <1>3
  <2>3. e \in ToSet(r)
    BY <1>1, <1>2, <1>3
  <2> QED BY <2>1, <2>2, <2>3
<1>6. ASSUME IsInjective(q), e \notin ToSet(q) PROVE IsInjective(r)
  <2>1. \A i, j \in 1 .. Len(q) : q[i] = q[j] => i = j
    BY <1>6, QueueMembers
  <2>2. \A i \in 1 .. Len(r) : i # 1 => r[i] # e
    BY <1>2, <1>4, <1>6
  <2>3. ASSUME NEW i \in 1 .. Len(r), NEW j \in 1 .. Len(r), r[i] = r[j]
        PROVE  i = j
    <3>1. CASE i = 1 \/ j = 1
      BY <2>2, <2>3, <3>1, <1>1
    <3>2. CASE i # 1 /\ j # 1
      <4>1. i - 1 = j - 1
        BY <2>1, <2>3, <3>2, <1>2
      <4> QED BY <4>1, <1>1, <1>2
    <3> QED BY <3>1, <3>2
  <2> QED BY <2>3, <1>1, QueueMembers
<1> QED BY <1>1, <1>5, <1>6 DEF r

\* Taking the head leaves the other members.
LEMMA QueueTake ==
    ASSUME NEW S, NEW q \in Seq(S), q # <<>>
    PROVE  /\ Head(q) \in S /\ Tail(q) \in Seq(S)
           /\ ToSet(q) = ToSet(Tail(q)) \cup {Head(q)}
           /\ IsInjective(q) => /\ IsInjective(Tail(q))
                                /\ Head(q) \notin ToSet(Tail(q))
<1> DEFINE r == Tail(q)
<1>1. /\ Head(q) \in S /\ r \in Seq(S) /\ Len(r) = Len(q) - 1
      /\ \A i \in 1 .. Len(r) : r[i] = q[i + 1]
  BY HeadTailProperties
<1>2. Head(q) = q[1] /\ Len(q) \in Nat \ {0}
  BY EmptySeq
<1> HIDE DEF r
<1>3. ToSet(r) = {r[i] : i \in 1 .. Len(r)}
  BY <1>1, QueueMembers
<1>4. ToSet(q) = {q[i] : i \in 1 .. Len(q)}
  BY QueueMembers
<1>5. ToSet(q) = ToSet(r) \cup {Head(q)}
  <2>1. ASSUME NEW x \in ToSet(q) PROVE x \in ToSet(r) \cup {Head(q)}
    <3>1. PICK i \in 1 .. Len(q) : x = q[i]
      BY <1>4
    <3>2. CASE i = 1
      BY <3>1, <3>2, <1>2
    <3>3. CASE i # 1
      <4>1. i - 1 \in 1 .. Len(r) /\ r[i - 1] = q[i]
        BY <3>3, <1>1, <1>2
      <4> QED BY <3>1, <4>1, <1>3
    <3> QED BY <3>2, <3>3
  <2>2. ASSUME NEW x \in ToSet(r) PROVE x \in ToSet(q)
    <3>1. PICK i \in 1 .. Len(r) : x = r[i]
      BY <1>3
    <3>2. i + 1 \in 1 .. Len(q)
      BY <1>1, <1>2
    <3> QED BY <3>1, <3>2, <1>1, <1>4
  <2>3. Head(q) \in ToSet(q)
    BY <1>2, <1>4
  <2> QED BY <2>1, <2>2, <2>3
<1>6. ASSUME IsInjective(q)
      PROVE  IsInjective(r) /\ Head(q) \notin ToSet(r)
  <2>1. \A i, j \in 1 .. Len(q) : q[i] = q[j] => i = j
    BY <1>6, QueueMembers
  <2>2. \A i \in 1 .. Len(r) : i + 1 \in 1 .. Len(q)
    BY <1>1, <1>2
  <2>3. \A i, j \in 1 .. Len(r) : r[i] = r[j] => i = j
    BY <2>1, <2>2, <1>1
  <2>4. \A i \in 1 .. Len(r) : r[i] # Head(q)
    BY <2>1, <2>2, <1>1, <1>2
  <2> QED BY <2>3, <2>4, <1>1, <1>3, QueueMembers
<1> QED BY <1>1, <1>5, <1>6 DEF r

\* Putting one queue behind another.
LEMMA QueueConcat ==
    ASSUME NEW S, NEW q \in Seq(S), NEW r \in Seq(S)
    PROVE  q \o r \in Seq(S) /\ ToSet(q \o r) = ToSet(q) \cup ToSet(r)
<1>1. q \o r \in Seq(S)
  BY ConcatProperties
<1>2. Range(q \o r) = Range(q) \cup Range(r)
  BY RangeConcatenation
<1>3. \A s : Range(s) = ToSet(s)
  BY DEF Range, ToSet
<1> QED BY <1>1, <1>2, <1>3

\* The two parts of a queue, cut behind the first.
LEMMA QueueParts ==
    ASSUME NEW S, NEW a \in Seq(S), NEW b \in Seq(S)
    PROVE  /\ Len(a) \in 0 .. Len(a \o b)
           /\ SubSeq(a \o b, 1, Len(a)) = a
           /\ SubSeq(a \o b, Len(a) + 1, Len(a \o b)) = b
<1> DEFINE o == a \o b
<1>1. Len(a) \in Nat /\ Len(b) \in Nat
  BY LenProperties
<1>2. /\ o \in Seq(S) /\ Len(o) = Len(a) + Len(b)
      /\ \A i \in 1 .. Len(a) : o[i] = a[i]
      /\ \A i \in 1 .. Len(b) : o[Len(a) + i] = b[i]
  <2>1. ASSUME NEW i \in 1 .. Len(b) PROVE o[Len(a) + i] = b[i]
    <3> DEFINE k == Len(a) + i
    <3>1. k \in 1 .. Len(a) + Len(b) /\ ~(k <= Len(a)) /\ k - Len(a) = i
      BY <1>1
    <3> HIDE DEF k
    <3>2. o[k] = b[k - Len(a)]
      BY <3>1, ConcatProperties
    <3> QED BY <3>1, <3>2 DEF k
  <2> QED BY <2>1, <1>1, ConcatProperties
<1> HIDE DEF o
<1>3. \A i \in 1 .. Len(o) : o[i] \in S
  BY <1>2, ElementOfSeq
<1>4. SubSeq(o, 1, Len(a)) = a
  <2> DEFINE p == SubSeq(o, 1, Len(a))
  <2>1. p \in Seq(S) /\ Len(p) = Len(a) /\ \A i \in 1 .. Len(a) : p[i] = o[i]
    <3>1. 1 \in Int /\ Len(a) \in Int /\ \A i \in 1 .. Len(a) : o[i] \in S
      BY <1>1, <1>2, <1>3
    <3>2. /\ p \in Seq(S) /\ Len(p) = IF 1 <= Len(a) THEN Len(a) - 1 + 1 ELSE 0
          /\ \A i \in 1 .. Len(a) - 1 + 1 : p[i] = o[1 + i - 1]
      BY <3>1, SubSeqProperties
    <3> HIDE DEF p
    <3> QED BY <3>2, <1>1
  <2> HIDE DEF p
  <2>2. \A i \in 1 .. Len(p) : p[i] = a[i]
    BY <2>1, <1>2
  <2> QED BY <2>1, <2>2, SeqEqual DEF p
<1>5. SubSeq(o, Len(a) + 1, Len(o)) = b
  <2> DEFINE p == SubSeq(o, Len(a) + 1, Len(o))
  <2>1. p \in Seq(S) /\ Len(p) = Len(b) /\ \A i \in 1 .. Len(b) : p[i] = o[Len(a) + i]
    <3>1. /\ Len(a) + 1 \in Int /\ Len(o) \in Int
          /\ \A i \in Len(a) + 1 .. Len(o) : o[i] \in S
      BY <1>1, <1>2, <1>3
    <3>2. /\ p \in Seq(S)
          /\ Len(p) = IF Len(a) + 1 <= Len(o) THEN Len(o) - (Len(a) + 1) + 1 ELSE 0
          /\ \A i \in 1 .. Len(o) - (Len(a) + 1) + 1 : p[i] = o[Len(a) + 1 + i - 1]
      BY <3>1, SubSeqProperties
    <3> HIDE DEF p
    <3>3. Len(o) - (Len(a) + 1) + 1 = Len(b)
      BY <1>1, <1>2
    <3>4. \A i \in 1 .. Len(b) : Len(a) + 1 + i - 1 = Len(a) + i
      BY <1>1
    <3>5. Len(p) = Len(b)
      BY <3>2, <3>3, <1>1, <1>2
    <3>6. \A i \in 1 .. Len(b) : p[i] = o[Len(a) + i]
      BY <3>2, <3>3, <3>4
    <3> QED BY <3>2, <3>5, <3>6
  <2> HIDE DEF p
  <2>2. \A i \in 1 .. Len(p) : p[i] = b[i]
    BY <2>1, <1>2
  <2> QED BY <2>1, <2>2, SeqEqual DEF p
<1>6. Len(a) \in 0 .. Len(o)
  BY <1>1, <1>2
<1> QED BY <1>4, <1>5, <1>6 DEF o

\* q is the list o turned round: what is in front of some place in o is behind
\* the rest of it in q.
TurnedRound(q, o, S) == \E a, b \in Seq(S) : o = a \o b /\ q = b \o a

\* A list is itself turned round, by nothing.
LEMMA QueueNotTurned ==
    ASSUME NEW S, NEW q \in Seq(S)
    PROVE  TurnedRound(q, q, S)
<1>1. <<>> \in Seq(S) /\ q = <<>> \o q /\ q = q \o <<>>
  BY EmptySeq, ConcatEmptySeq
<1> QED BY <1>1 DEF TurnedRound

\* q begins behind the first i of o.
TurnedAt(q, o, i) == q = SubSeq(o, i + 1, Len(o)) \o SubSeq(o, 1, i)

\* Turned round it has the same members, and a place where it was cut.
LEMMA QueueTurned ==
    ASSUME NEW S, NEW q, NEW o, TurnedRound(q, o, S)
    PROVE  /\ ToSet(q) = ToSet(o)
           /\ \E i \in 0 .. Len(o) : TurnedAt(q, o, i)
<1>1. PICK a \in Seq(S), b \in Seq(S) : o = a \o b /\ q = b \o a
  BY DEF TurnedRound
<1>2. ToSet(a \o b) = ToSet(a) \cup ToSet(b)
  BY QueueConcat
<1>3. ToSet(b \o a) = ToSet(b) \cup ToSet(a)
  BY QueueConcat
<1>4. /\ Len(a) \in 0 .. Len(a \o b)
      /\ SubSeq(a \o b, 1, Len(a)) = a
      /\ SubSeq(a \o b, Len(a) + 1, Len(a \o b)) = b
  BY QueueParts
<1>5. TurnedAt(q, o, Len(a))
  BY <1>1, <1>4 DEF TurnedAt
<1> QED BY <1>1, <1>2, <1>3, <1>4, <1>5

\* It stays turned round when its head is put behind it.
LEMMA QueueTurn ==
    ASSUME NEW S, NEW q, NEW o, TurnedRound(q, o, S), q # <<>>
    PROVE  TurnedRound(Append(Tail(q), Head(q)), o, S)
<1>0. PICK a \in Seq(S), b \in Seq(S) : o = a \o b /\ q = b \o a
  BY DEF TurnedRound
<1>1. \A x, y \in Seq(S) : x # <<>> =>
         \E c, d \in Seq(S) : /\ c \o d = y \o x
                             /\ Append(Tail(x \o y), Head(x \o y)) = d \o c
  <2> SUFFICES ASSUME NEW x \in Seq(S), NEW y \in Seq(S), x # <<>>
               PROVE  \E c, d \in Seq(S) : /\ c \o d = y \o x
                                           /\ Append(Tail(x \o y), Head(x \o y)) = d \o c
    OBVIOUS
  <2> DEFINE h == Head(x)
             t == Tail(x)
             one == <<h>>
  <2>1. h \in S /\ t \in Seq(S) /\ one \in Seq(S)
    BY HeadTailProperties
  <2>2. x = one \o t
    <3>1. Len(x) \in Nat \ {0} /\ x[1] = h
      BY EmptySeq
    <3>2. 1 \in 1 .. Len(x) /\ Len(x) \in 1 .. Len(x) /\ x = SubSeq(x, 1, Len(x))
      BY <3>1, SubSeqFull
    <3>3. SubSeq(x, 1, Len(x)) = <<x[1]>> \o SubSeq(x, 2, Len(x))
      BY <3>2, SubSeqRecursiveFirst
    <3>4. t = SubSeq(x, 2, Len(x))
      BY TailIsSubSeq
    <3> QED BY <3>1, <3>2, <3>3, <3>4
  <2> HIDE DEF h, t
  <2>3. x \o y = one \o (t \o y) /\ t \o y \in Seq(S)
    <3>1. (one \o t) \o y = one \o (t \o y)
      BY <2>1, ConcatAssociative
    <3>2. t \o y \in Seq(S)
      BY <2>1, ConcatProperties
    <3> QED BY <3>1, <3>2, <2>2
  <2>4. Head(x \o y) = h /\ Tail(x \o y) = t \o y
    <3> DEFINE r == t \o y
    <3>1. one \o r \in Seq(S) /\ Len(one \o r) = 1 + Len(r) /\ Len(r) \in Nat
          /\ (one \o r)[1] = h
          /\ \A i \in 1 .. Len(r) : (one \o r)[i + 1] = r[i]
      <4>1. Len(one) = 1 /\ one[1] = h /\ Len(r) \in Nat
        BY <2>1, <2>3, LenProperties
      <4>2. ASSUME NEW i \in 1 .. Len(r) PROVE (one \o r)[i + 1] = r[i]
        <5> DEFINE k == i + 1
        <5>1. k \in 1 .. 1 + Len(r) /\ ~(k <= 1) /\ k - 1 = i
          BY <4>1
        <5> HIDE DEF k, r
        <5>2. (one \o r)[k] = r[k - 1]
          BY <5>1, <4>1, <2>1, <2>3, ConcatProperties DEF r
        <5> QED BY <5>1, <5>2 DEF k
      <4>3. 1 \in 1 .. 1 + Len(r)
        BY <4>1
      <4> HIDE DEF r
      <4> QED BY <4>1, <4>2, <4>3, <2>1, <2>3, ConcatProperties DEF r
    <3> HIDE DEF r
    <3>2. one \o r # <<>>
      BY <3>1, EmptySeq
    <3>3. Head(one \o r) = h
      BY <3>1
    <3>4. /\ Tail(one \o r) \in Seq(S) /\ Len(Tail(one \o r)) = Len(r)
          /\ \A i \in 1 .. Len(r) : Tail(one \o r)[i] = r[i]
      BY <3>1, <3>2, HeadTailProperties
    <3>5. Tail(one \o r) = r
      BY <3>4, <2>3, SeqEqual DEF r
    <3> QED BY <3>3, <3>5, <2>3 DEF r
  <2>5. Append(t \o y, h) = t \o (y \o one)
    <3>1. Append(t \o y, h) = (t \o y) \o one
      BY <2>1, <2>3, AppendIsConcat
    <3>2. (t \o y) \o one = t \o (y \o one)
      <4> HIDE DEF one
      <4> QED BY <2>1, ConcatAssociative, SMTT(30)
    <3> QED BY <3>1, <3>2
  <2>6. (y \o one) \o t = y \o x /\ y \o one \in Seq(S)
    <3>1. (y \o one) \o t = y \o (one \o t)
      <4> HIDE DEF one
      <4> QED BY <2>1, ConcatAssociative, SMTT(30)
    <3>2. y \o one \in Seq(S)
      BY <2>1, ConcatProperties
    <3> QED BY <3>1, <3>2, <2>2
  <2> QED BY <2>1, <2>4, <2>5, <2>6
<1>2. CASE b # <<>>
  <2>1. \E c, d \in Seq(S) : /\ c \o d = a \o b
                             /\ Append(Tail(b \o a), Head(b \o a)) = d \o c
    BY <1>1, <1>2
  <2> QED BY <1>0, <2>1 DEF TurnedRound
<1>3. CASE b = <<>>
  <2>1. a \o <<>> = a /\ <<>> \o a = a /\ <<>> \in Seq(S)
    BY ConcatEmptySeq, EmptySeq
  <2>2. a # <<>> /\ o = <<>> \o a /\ q = a \o <<>>
    BY <1>0, <1>3, <2>1
  <2>3. \E c, d \in Seq(S) : /\ c \o d = <<>> \o a
                             /\ Append(Tail(a \o <<>>), Head(a \o <<>>)) = d \o c
    BY <1>1, <2>1, <2>2
  <2> QED BY <2>2, <2>3 DEF TurnedRound
<1> QED BY <1>2, <1>3

-----------------------------------------------------------------------------
(* Induction, and sums.                                                      *)

\* T has every part of a finite S, if it has each whose smaller parts it has.
LEMMA SubsetInduction ==
    ASSUME NEW S, IsFiniteSet(S), NEW T,
           \A A \in SUBSET S : (\A B \in SUBSET A : B # A => B \in T) => A \in T
    PROVE  \A A \in SUBSET S : A \in T
<1> DEFINE R == StrictSubsetOrdering(S)
           Bad == {A \in SUBSET S : A \notin T}
<1> SUFFICES ASSUME Bad # {} PROVE FALSE
  OBVIOUS
<1>1. IsWellFoundedOn(R, SUBSET S)
  <2>1. IsWellFoundedOn(StrictSubsetOrdering(S), FiniteSubsetsOf(S))
    BY FS_StrictSubsetOrderingWellFounded
  <2>2. FiniteSubsetsOf(S) = SUBSET S
    BY FS_FiniteSubsetsOfFinite
  <2> QED BY <2>1, <2>2
<1>2. Bad \subseteq SUBSET S
  OBVIOUS
<1>3. PICK A \in Bad : \A B \in Bad : ~ (<<B, A>> \in R)
  <2> HIDE DEF R, Bad
  <2> QED BY <1>1, <1>2, WFMin
<1>4. ASSUME NEW B \in SUBSET A, B # A PROVE B \in T
  <2>1. <<B, A>> \in R
    BY <1>4, SMT DEF StrictSubsetOrdering
  <2> QED BY <2>1, <1>3
<1> QED BY <1>3, <1>4

\* T has a finite S, if it has {} and stays closed when a member is added.
LEMMA FiniteInduction ==
    ASSUME NEW S, IsFiniteSet(S), NEW T, {} \in T,
           \A A \in SUBSET S : \A x \in S \ A : A \in T => A \cup {x} \in T
    PROVE  S \in T
<1>1. ASSUME NEW A \in SUBSET S, \A B \in SUBSET A : B # A => B \in T
      PROVE  A \in T
  <2>1. CASE A = {}
    BY <2>1
  <2>2. CASE A # {}
    <3>1. PICK x \in A : TRUE
      BY <2>2
    <3> DEFINE B == A \ {x}
    <3>2. B \in SUBSET A /\ B # A /\ x \in S \ B /\ B \cup {x} = A
      BY <3>1
    <3>3. B \in SUBSET S /\ B \in T
      BY <3>2, <1>1
    <3> HIDE DEF B
    <3> QED BY <3>2, <3>3
  <2> QED BY <2>1, <2>2
<1> QED BY <1>1, SubsetInduction

\* A set with 0 and with the successors of its members has all of Nat.
LEMMA NatInductionSet ==
    ASSUME NEW S, 0 \in S, \A n \in Nat : n \in S => n + 1 \in S
    PROVE  Nat \subseteq S
<1> DEFINE R == OpToRel(<, Nat)
           Bad == Nat \ S
<1> SUFFICES ASSUME Bad # {} PROVE FALSE
  OBVIOUS
<1>1. IsWellFoundedOn(R, Nat)
  BY NatLessThanWellFounded
<1>2. \A m, n \in Nat : m < n => <<m, n>> \in R
  BY DEF OpToRel
<1>3. PICK n \in Bad : \A m \in Bad : ~ (<<m, n>> \in R)
  <2>1. Bad \subseteq Nat
    OBVIOUS
  <2> HIDE DEF Bad, R
  <2> QED BY <2>1, <1>1, WFMin
<1> HIDE DEF R
<1>4. n # 0 /\ n - 1 \in Nat /\ n - 1 < n /\ n - 1 + 1 = n
  OBVIOUS
<1>5. n - 1 \in S
  BY <1>2, <1>3, <1>4
<1> QED BY <1>4, <1>5

\* p gives the sum of f over every part of S.
Sums(p, f, S) ==
    /\ p \in [SUBSET S -> Int]
    /\ p[{}] = 0
    /\ \A A \in SUBSET S : \A x \in S \ A : p[A \cup {x}] = p[A] + f[x]

\* Member by member there is such a p,
LEMMA SumsExist ==
    ASSUME NEW S, IsFiniteSet(S), NEW f \in [S -> Int]
    PROVE  \E p : Sums(p, f, S)
<1> DEFINE T == {A \in SUBSET S : \E p : Sums(p, f, A)}
<1>1. {} \in T
  <2>1. Sums([A \in SUBSET {} |-> 0], f, {})
    BY DEF Sums
  <2> QED BY <2>1
<1>2. ASSUME NEW A \in SUBSET S, NEW x \in S \ A, A \in T
      PROVE  A \cup {x} \in T
  <2>1. PICK p : Sums(p, f, A)
    BY <1>2
  <2> DEFINE C == A \cup {x}
             q == [B \in SUBSET C |-> IF x \in B THEN p[B \ {x}] + f[x] ELSE p[B]]
  <2>2. \A B \in SUBSET C : B \ {x} \in SUBSET A /\ (x \notin B => B \in SUBSET A)
    OBVIOUS
  <2>3. q \in [SUBSET C -> Int]
    BY <2>1, <2>2 DEF Sums
  <2>4. q[{}] = 0
    BY <2>1 DEF Sums
  <2>5. ASSUME NEW B \in SUBSET C, NEW y \in C \ B
        PROVE  q[B \cup {y}] = q[B] + f[y]
    <3>1. B \cup {y} \in SUBSET C
      OBVIOUS
    <3>2. CASE y = x
      <4>1. (B \cup {y}) \ {x} = B /\ x \notin B
        BY <3>2
      <4>2. q[B \cup {y}] = p[B] + f[x] /\ q[B] = p[B]
        BY <3>1, <4>1, <3>2
      <4> QED BY <4>2, <3>2
    <3>3. CASE y # x /\ x \in B
      <4>1. (B \cup {y}) \ {x} = (B \ {x}) \cup {y} /\ y \in A \ (B \ {x})
        BY <3>3
      <4>2. p[(B \ {x}) \cup {y}] = p[B \ {x}] + f[y]
        BY <4>1, <2>1, <2>2 DEF Sums
      <4>3. q[B \cup {y}] = p[(B \ {x}) \cup {y}] + f[x] /\ q[B] = p[B \ {x}] + f[x]
        BY <3>1, <3>3, <4>1
      <4>4. p[B \ {x}] \in Int /\ f[x] \in Int /\ f[y] \in Int
        BY <2>1, <2>2 DEF Sums
      <4> HIDE DEF q, C
      <4> QED BY <4>2, <4>3, <4>4
    <3>4. CASE y # x /\ x \notin B
      <4>1. B \in SUBSET A /\ y \in A \ B /\ x \notin B \cup {y}
        BY <3>4
      <4>2. p[B \cup {y}] = p[B] + f[y]
        BY <4>1, <2>1 DEF Sums
      <4> QED BY <3>1, <4>1, <4>2
    <3> QED BY <3>2, <3>3, <3>4
  <2>6. Sums(q, f, C)
    BY <2>3, <2>4, <2>5 DEF Sums
  <2> QED BY <2>6
<1>3. S \in T
  <2> HIDE DEF T
  <2> QED BY <1>1, <1>2, FiniteInduction
<1> QED BY <1>3

\* and it is what the fold gives, whichever member that chooses.
LEMMA SumOf ==
    ASSUME NEW S, IsFiniteSet(S), NEW f \in [S -> Int], NEW p, Sums(p, f, S)
    PROVE  SumFunction(f) = p[S]
<1> DEFINE some(s) == CHOOSE x \in s : TRUE
           rec(g) == [s \in SUBSET S |->
                         IF s = {} THEN 0 ELSE f[some(s)] + g[s \ {some(s)}]]
           iter == CHOOSE g : g = rec(g)
<1>1. SumFunction(f) = iter[S]
  BY DEF SumFunction, SumFunctionOnSet, FoldFunctionOnSet, MapThenFoldSet
<1>2. \A s \in SUBSET S : s # {} =>
          /\ some(s) \in S /\ s \ {some(s)} \in SUBSET s /\ s \ {some(s)} # s
          /\ p[s] = f[some(s)] + p[s \ {some(s)}]
  <2> SUFFICES ASSUME NEW s \in SUBSET S, s # {}
               PROVE  /\ some(s) \in S /\ s \ {some(s)} \in SUBSET s /\ s \ {some(s)} # s
                      /\ p[s] = f[some(s)] + p[s \ {some(s)}]
    OBVIOUS
  <2>1. some(s) \in s
    OBVIOUS
  <2> DEFINE x == some(s)
             B == s \ {x}
  <2> HIDE DEF x
  <2>2. x \in S /\ B \in SUBSET S /\ x \in S \ B /\ B \cup {x} = s /\ B # s
    BY <2>1 DEF x
  <2>3. p[B \cup {x}] = p[B] + f[x] /\ p[B] \in Int /\ f[x] \in Int
    BY <2>2 DEF Sums
  <2>6. x \in s
    BY <2>1 DEF x
  <2> HIDE DEF B
  <2>4. p[s] = f[x] + p[B]
    <3>1. p[s] = p[B] + f[x]
      BY <2>2, <2>3, Zenon
    <3> QED BY <3>1, <2>3
  <2>5. x \in S /\ B \in SUBSET s /\ B # s
    BY <2>2, <2>6 DEF B
  <2> QED BY <2>4, <2>5 DEF x, B
<1>3. p = rec(p)
  <2> DEFINE r == rec(p)
  <2>1. DOMAIN p = SUBSET S /\ p = [s \in SUBSET S |-> p[s]]
    BY DEF Sums
  <2>2. \A s \in SUBSET S : p[s] = r[s]
    BY <1>2 DEF Sums
  <2> HIDE DEF some
  <2> QED BY <2>1, <2>2
<1>4. iter = rec(iter)
  <2> HIDE DEF rec
  <2> QED BY <1>3
<1>5. \A s \in SUBSET S : iter[s] = p[s]
  <2> DEFINE T == {s \in SUBSET S : iter[s] = p[s]}
  <2> HIDE DEF iter
  <2>1. ASSUME NEW s \in SUBSET S, \A B \in SUBSET s : B # s => B \in T
        PROVE  s \in T
    <3>1. CASE s = {}
      BY <3>1, <1>4 DEF Sums
    <3>2. CASE s # {}
      <4>1. iter[s] = f[some(s)] + iter[s \ {some(s)}]
        BY <3>2, <1>4
      <4>2. s \ {some(s)} \in T
        BY <3>2, <1>2, <2>1
      <4>3. p[s] = f[some(s)] + p[s \ {some(s)}]
        BY <3>2, <1>2
      <4> HIDE DEF some
      <4> QED BY <4>1, <4>2, <4>3
    <3> QED BY <3>1, <3>2
  <2>2. \A s \in SUBSET S : s \in T
    <3> HIDE DEF T
    <3> QED BY <2>1, SubsetInduction
  <2> QED BY <2>2
<1> HIDE DEF iter
<1> QED BY <1>1, <1>5

\* A sum of integers is one.
LEMMA SumInt ==
    ASSUME NEW S, IsFiniteSet(S), NEW f \in [S -> Int]
    PROVE  SumFunction(f) \in Int
<1>1. PICK p : Sums(p, f, S)
  BY SumsExist
<1>2. p[S] \in Int
  BY <1>1 DEF Sums
<1> QED BY <1>1, <1>2, SumOf

\* The sum of two functions.
LEMMA SumPlus ==
    ASSUME NEW S, IsFiniteSet(S), NEW f \in [S -> Int], NEW g \in [S -> Int],
           NEW h \in [S -> Int], \A x \in S : h[x] = f[x] + g[x]
    PROVE  SumFunction(h) = SumFunction(f) + SumFunction(g)
<1>1. PICK p : Sums(p, f, S)
  BY SumsExist
<1>2. PICK q : Sums(q, g, S)
  BY SumsExist
<1> DEFINE r == [A \in SUBSET S |-> p[A] + q[A]]
<1>3. \A A \in SUBSET S : p[A] \in Int /\ q[A] \in Int
  BY <1>1, <1>2 DEF Sums
<1>4. Sums(r, h, S)
  <2>1. r \in [SUBSET S -> Int] /\ r[{}] = 0
    BY <1>1, <1>2, <1>3 DEF Sums
  <2>2. ASSUME NEW A \in SUBSET S, NEW x \in S \ A
        PROVE  r[A \cup {x}] = r[A] + h[x]
    <3>1. A \cup {x} \in SUBSET S
      OBVIOUS
    <3>2. p[A \cup {x}] = p[A] + f[x] /\ q[A \cup {x}] = q[A] + g[x]
      BY <1>1, <1>2 DEF Sums
    <3>3. f[x] \in Int /\ g[x] \in Int /\ h[x] = f[x] + g[x]
      OBVIOUS
    <3>4. r[A \cup {x}] = p[A \cup {x}] + q[A \cup {x}] /\ r[A] = p[A] + q[A]
      BY <3>1
    <3> QED BY <3>2, <3>3, <3>4, <1>3
  <2> HIDE DEF r
  <2> QED BY <2>1, <2>2 DEF Sums
<1>5. r[S] = p[S] + q[S]
  OBVIOUS
<1> HIDE DEF r
<1> QED BY <1>1, <1>2, <1>4, <1>5, SumOf

\* A function that is nowhere greater has no greater sum.
LEMMA SumBound ==
    ASSUME NEW S, IsFiniteSet(S), NEW f \in [S -> Int], NEW g \in [S -> Int],
           \A x \in S : f[x] <= g[x]
    PROVE  SumFunction(f) <= SumFunction(g)
<1>1. PICK p : Sums(p, f, S)
  BY SumsExist
<1>2. PICK q : Sums(q, g, S)
  BY SumsExist
<1>3. \A A \in SUBSET S : p[A] \in Int /\ q[A] \in Int
  BY <1>1, <1>2 DEF Sums
<1> DEFINE T == {A \in SUBSET S : p[A] <= q[A]}
<1>4. {} \in T
  BY <1>1, <1>2 DEF Sums
<1>5. ASSUME NEW A \in SUBSET S, NEW x \in S \ A, A \in T
      PROVE  A \cup {x} \in T
  <2>1. p[A \cup {x}] = p[A] + f[x] /\ q[A \cup {x}] = q[A] + g[x]
    BY <1>1, <1>2 DEF Sums
  <2>2. f[x] <= g[x] /\ f[x] \in Int /\ g[x] \in Int /\ p[A] <= q[A]
    BY <1>5
  <2>3. p[A \cup {x}] <= q[A \cup {x}]
    BY <2>1, <2>2, <1>3
  <2> QED BY <2>3
<1>6. S \in T
  <2> HIDE DEF T
  <2> QED BY <1>4, <1>5, FiniteInduction
<1> QED BY <1>1, <1>2, <1>6, SumOf

\* Nothing sums to nothing.
LEMMA SumZero ==
    ASSUME NEW S, IsFiniteSet(S), NEW f \in [S -> Int], \A x \in S : f[x] = 0
    PROVE  SumFunction(f) = 0
<1> DEFINE p == [A \in SUBSET S |-> 0]
<1>1. Sums(p, f, S)
  <2>1. p \in [SUBSET S -> Int] /\ p[{}] = 0
    OBVIOUS
  <2>2. ASSUME NEW A \in SUBSET S, NEW x \in S \ A
        PROVE  p[A \cup {x}] = p[A] + f[x]
    <3>1. A \cup {x} \in SUBSET S /\ f[x] = 0
      OBVIOUS
    <3>2. p[A \cup {x}] = 0 /\ p[A] = 0
      BY <3>1
    <3> QED BY <3>1, <3>2
  <2> HIDE DEF p
  <2> QED BY <2>1, <2>2 DEF Sums
<1>2. p[S] = 0
  OBVIOUS
<1> HIDE DEF p
<1> QED BY <1>1, <1>2, SumOf

\* Values that are bounded give a sum that is.
LEMMA SumWithin ==
    ASSUME NEW S, IsFiniteSet(S), NEW f \in [S -> Int], NEW g \in [S -> Int],
           \A x \in S : -g[x] <= f[x] /\ f[x] <= g[x]
    PROVE  -SumFunction(g) <= SumFunction(f) /\ SumFunction(f) <= SumFunction(g)
<1> DEFINE z == [x \in S |-> 0]
           h == [x \in S |-> -g[x]]
<1>1. SumFunction(f) <= SumFunction(g)
  BY SumBound
<1>2. SumFunction(h) <= SumFunction(f)
  <2>1. h \in [S -> Int] /\ \A x \in S : h[x] <= f[x]
    OBVIOUS
  <2> HIDE DEF h
  <2> QED BY <2>1, SumBound
<1>3. z \in [S -> Int] /\ h \in [S -> Int]
  OBVIOUS
<1>4. SumFunction(z) = SumFunction(h) + SumFunction(g)
  <2>1. \A x \in S : z[x] = h[x] + g[x]
    OBVIOUS
  <2> HIDE DEF z, h
  <2> QED BY <2>1, <1>3, SumPlus
<1>5. SumFunction(z) = 0
  <2>1. \A x \in S : z[x] = 0
    OBVIOUS
  <2> HIDE DEF z
  <2> QED BY <2>1, <1>3, SumZero
<1> HIDE DEF z, h
<1>6. /\ SumFunction(z) \in Int /\ SumFunction(h) \in Int
      /\ SumFunction(g) \in Int /\ SumFunction(f) \in Int
  BY <1>3, SumInt
<1> QED BY <1>1, <1>2, <1>4, <1>5, <1>6

\* One value is another.
LEMMA SumChange ==
    ASSUME NEW S, IsFiniteSet(S), NEW f \in [S -> Int], NEW g \in [S -> Int],
           NEW y \in S, \A x \in S : x # y => g[x] = f[x]
    PROVE  SumFunction(g) = SumFunction(f) + g[y] - f[y]
<1>1. PICK p : Sums(p, f, S)
  BY SumsExist
<1>2. PICK q : Sums(q, g, S)
  BY SumsExist
<1>3. \A A \in SUBSET S : p[A] \in Int /\ q[A] \in Int
  BY <1>1, <1>2 DEF Sums
<1> DEFINE T == {A \in SUBSET S : /\ y \notin A => q[A] = p[A]
                                  /\ y \in A => q[A] = p[A] + g[y] - f[y]}
<1>4. {} \in T
  BY <1>1, <1>2 DEF Sums
<1>5. ASSUME NEW A \in SUBSET S, NEW x \in S \ A, A \in T
      PROVE  A \cup {x} \in T
  <2>1. p[A \cup {x}] = p[A] + f[x] /\ q[A \cup {x}] = q[A] + g[x]
    BY <1>1, <1>2 DEF Sums
  <2>2. f[x] \in Int /\ g[x] \in Int /\ f[y] \in Int /\ g[y] \in Int
    OBVIOUS
  <2>3. CASE x = y
    <3>1. q[A] = p[A]
      BY <1>5, <2>3
    <3>2. q[A \cup {x}] = p[A \cup {x}] + g[y] - f[y]
      BY <3>1, <2>1, <2>2, <2>3, <1>3
    <3> QED BY <3>2, <2>3
  <2>4. CASE x # y /\ y \in A
    <3>1. q[A] = p[A] + g[y] - f[y] /\ g[x] = f[x]
      BY <1>5, <2>4
    <3>2. q[A \cup {x}] = p[A \cup {x}] + g[y] - f[y]
      BY <3>1, <2>1, <2>2, <1>3
    <3> QED BY <3>2, <2>4
  <2>5. CASE x # y /\ y \notin A
    <3>1. q[A] = p[A] /\ g[x] = f[x]
      BY <1>5, <2>5
    <3>2. q[A \cup {x}] = p[A \cup {x}]
      BY <3>1, <2>1, <2>2, <1>3
    <3> QED BY <3>2, <2>5
  <2> QED BY <2>3, <2>4, <2>5
<1>6. S \in T
  <2> HIDE DEF T
  <2> QED BY <1>4, <1>5, FiniteInduction
<1> QED BY <1>1, <1>2, <1>6, SumOf

\* What is zero adds nothing.
LEMMA SumOfPart ==
    ASSUME NEW S, IsFiniteSet(S), NEW R \in SUBSET S,
           NEW f \in [S -> Int], NEW g \in [R -> Int],
           \A x \in S : f[x] = IF x \in R THEN g[x] ELSE 0
    PROVE  SumFunction(f) = SumFunction(g)
<1>0. IsFiniteSet(R)
  BY FS_Subset
<1>1. PICK p : Sums(p, f, S)
  BY SumsExist
<1>2. PICK q : Sums(q, g, R)
  BY <1>0, SumsExist
<1>3. \A A \in SUBSET S : p[A] \in Int
  BY <1>1 DEF Sums
<1> DEFINE T == {A \in SUBSET S : p[A] = q[A \cap R]}
<1>4. {} \in T
  <2>1. {} \cap R = {}
    OBVIOUS
  <2> QED BY <2>1, <1>1, <1>2 DEF Sums
<1>5. ASSUME NEW A \in SUBSET S, NEW x \in S \ A, A \in T
      PROVE  A \cup {x} \in T
  <2>1. p[A \cup {x}] = p[A] + f[x] /\ f[x] \in Int
    BY <1>1 DEF Sums
  <2>2. CASE x \in R
    <3>1. (A \cup {x}) \cap R = (A \cap R) \cup {x} /\ x \in R \ (A \cap R)
      BY <2>2
    <3>2. q[(A \cap R) \cup {x}] = q[A \cap R] + g[x]
      BY <3>1, <1>2 DEF Sums
    <3>3. p[A \cup {x}] = q[(A \cup {x}) \cap R]
      BY <3>1, <3>2, <2>1, <2>2, <1>5
    <3> QED BY <3>3
  <2>3. CASE x \notin R
    <3>1. (A \cup {x}) \cap R = A \cap R
      BY <2>3
    <3>2. f[x] = 0
      BY <2>3
    <3>4. p[A \cup {x}] = p[A]
      BY <2>1, <3>2, <1>3
    <3> QED BY <3>1, <3>4, <1>5
  <2> QED BY <2>2, <2>3
<1>6. S \in T
  <2> HIDE DEF T
  <2> QED BY <1>4, <1>5, FiniteInduction
<1>7. S \cap R = R
  OBVIOUS
<1> QED BY <1>0, <1>1, <1>2, <1>6, <1>7, SumOf

\* A sum taken kind by kind: g has the sum of each kind of members of S.
LEMMA SumByKind ==
    ASSUME NEW S, IsFiniteSet(S), NEW K, IsFiniteSet(K), NEW k \in [S -> K],
           NEW f \in [S -> Int], NEW g \in [K -> Int],
           \A y \in K : g[y] = SumFunction([x \in S |-> IF k[x] = y THEN f[x] ELSE 0])
    PROVE  SumFunction(g) = SumFunction(f)
<1> DEFINE G(A) == [y \in K |-> IF y \in A THEN g[y] ELSE 0]
           F(A) == [x \in S |-> IF k[x] \in A THEN f[x] ELSE 0]
           P(y) == [x \in S |-> IF k[x] = y THEN f[x] ELSE 0]
           T == {A \in SUBSET K : SumFunction(G(A)) = SumFunction(F(A))}
<1>1. /\ \A A : G(A) \in [K -> Int] /\ \A y \in K : G(A)[y] = IF y \in A THEN g[y] ELSE 0
      /\ \A A : F(A) \in [S -> Int] /\ \A x \in S : F(A)[x] = IF k[x] \in A THEN f[x] ELSE 0
  OBVIOUS
<1>2. \A y \in K : /\ P(y) \in [S -> Int]
                   /\ \A x \in S : P(y)[x] = IF k[x] = y THEN f[x] ELSE 0
                   /\ g[y] = SumFunction(P(y))
  OBVIOUS
<1>3. G(K) = g /\ F(K) = f
  OBVIOUS
<1> HIDE DEF G, F, P
<1>4. {} \in T
  <2>1. SumFunction(G({})) = 0
    BY <1>1, SumZero
  <2>2. SumFunction(F({})) = 0
    BY <1>1, SumZero
  <2> QED BY <2>1, <2>2
<1>5. ASSUME NEW A \in SUBSET K, NEW y \in K \ A, A \in T
      PROVE  A \cup {y} \in T
  <2>1. SumFunction(G(A \cup {y})) = SumFunction(G(A)) + g[y] - 0
    <3> DEFINE u == G(A)
               v == G(A \cup {y})
    <3>1. u \in [K -> Int] /\ v \in [K -> Int]
      BY <1>1
    <3>2. (\A z \in K : y # z => v[z] = u[z]) /\ v[y] = g[y] /\ u[y] = 0
      BY <1>1
    <3> HIDE DEF u, v
    <3>3. SumFunction(v) = SumFunction(u) + v[y] - u[y]
      BY <3>1, <3>2, SumChange
    <3> QED BY <3>2, <3>3 DEF u, v
  <2>2. SumFunction(F(A \cup {y})) = SumFunction(F(A)) + SumFunction(P(y))
    <3> DEFINE u == F(A)
               v == F(A \cup {y})
               w == P(y)
    <3>1. u \in [S -> Int] /\ v \in [S -> Int] /\ w \in [S -> Int]
      BY <1>1, <1>2
    <3>2. \A x \in S : v[x] = u[x] + w[x]
      <4> SUFFICES ASSUME NEW x \in S PROVE v[x] = u[x] + w[x]
        OBVIOUS
      <4>1. f[x] \in Int /\ k[x] \in K
        OBVIOUS
      <4>2. /\ u[x] = IF k[x] \in A THEN f[x] ELSE 0
            /\ v[x] = IF k[x] \in A \cup {y} THEN f[x] ELSE 0
            /\ w[x] = IF k[x] = y THEN f[x] ELSE 0
        BY <1>1, <1>2
      <4> HIDE DEF u, v, w
      <4>3. CASE k[x] = y
        <5>1. k[x] \notin A /\ k[x] \in A \cup {y}
          BY <4>3
        <5> QED BY <5>1, <4>1, <4>2, <4>3
      <4>4. CASE k[x] # y
        <5>1. (k[x] \in A \cup {y}) <=> (k[x] \in A)
          BY <4>4
        <5> QED BY <5>1, <4>1, <4>2, <4>4
      <4> QED BY <4>3, <4>4
    <3> HIDE DEF u, v, w
    <3>3. SumFunction(v) = SumFunction(u) + SumFunction(w)
      BY <3>1, <3>2, SumPlus
    <3> QED BY <3>3 DEF u, v, w
  <2>3. SumFunction(G(A)) = SumFunction(F(A)) /\ SumFunction(G(A)) \in Int /\ g[y] \in Int
    BY <1>1, <1>5, SumInt
  <2>4. SumFunction(P(y)) = g[y]
    BY <1>2
  <2>5. SumFunction(G(A \cup {y})) = SumFunction(F(A \cup {y}))
    BY <2>1, <2>2, <2>3, <2>4
  <2> QED BY <2>5
<1>6. K \in T
  <2> HIDE DEF T
  <2> QED BY <1>4, <1>5, FiniteInduction
<1> QED BY <1>3, <1>6
=============================================================================
