---------------------------- MODULE SequenceFacts ----------------------------
(***************************************************************************)
(* Lemmas the proofs share: the least element of a set of naturals, which   *)
(* is how they go by induction, and what is in the sequences the models     *)
(* build with Append, \o, Tail, SubSeq, SetToSeq and Only, and in which     *)
(* order.                                                                   *)
(***************************************************************************)
EXTENDS Lists, FiniteSets,
        SequenceTheorems, FiniteSetTheorems, FunctionTheorems,
        NaturalsInduction, WellFoundedInduction, TLAPS

\* A set of naturals has a least element.
LEMMA LeastNat ==
  ASSUME NEW S \in SUBSET Nat, S # {}
  PROVE  \E n \in S : \A m \in S : n <= m
<1> DEFINE R == OpToRel(<, Nat)
<1>1. PICK n \in S : \A m \in S : ~(<<m, n>> \in R)
  BY NatLessThanWellFounded, WFMin
<1>2. \A m \in S : ~(m < n)
  BY <1>1 DEF OpToRel
<1> QED
  BY <1>2

-----------------------------------------------------------------------------
(* What is in a sequence *)

\* The members of a sequence are its elements.
LEMMA ToSetOfSeq ==
  ASSUME NEW S, NEW s \in Seq(S)
  PROVE  ToSet(s) \subseteq S /\ ToSet(s) = {s[i] : i \in 1 .. Len(s)}
BY LenProperties, ElementOfSeq DEF ToSet

\* Nothing is in the empty sequence, and only there nothing is.
LEMMA ToSetEmpty ==
  ASSUME NEW S, NEW s \in Seq(S)
  PROVE  s = <<>> <=> ToSet(s) = {}
<1>1. CASE s = <<>>
  BY <1>1 DEF ToSet
<1>2. CASE s # <<>>
  <2>1. Len(s) \in Nat \ {0}
    BY <1>2, EmptySeq
  <2>2. s[1] \in ToSet(s)
    BY <2>1, ToSetOfSeq
  <2> QED
    BY <1>2, <2>2
<1> QED
  BY <1>1, <1>2

\* Append adds one element.
LEMMA ToSetAppend ==
  ASSUME NEW S, NEW s \in Seq(S), NEW e \in S
  PROVE  ToSet(Append(s, e)) = ToSet(s) \cup {e}
<1>1. DOMAIN Append(s, e) = 1 .. Len(s) + 1
  BY AppendProperties, LenProperties
<1>2. DOMAIN s = 1 .. Len(s) /\ Len(s) \in Nat
  BY LenProperties
<1> QED
  BY <1>1, <1>2, AppendProperties DEF ToSet

\* A concatenation holds what its parts hold.
LEMMA ToSetConcat ==
  ASSUME NEW S, NEW s \in Seq(S), NEW t \in Seq(S)
  PROVE  s \o t \in Seq(S) /\ ToSet(s \o t) = ToSet(s) \cup ToSet(t)
<1>1. /\ s \o t \in Seq(S) /\ Len(s \o t) = Len(s) + Len(t)
      /\ \A i \in 1 .. Len(s) + Len(t) : (s \o t)[i] = IF i <= Len(s) THEN s[i] ELSE t[i - Len(s)]
  BY ConcatProperties
<1>2. DOMAIN (s \o t) = 1 .. Len(s) + Len(t)
  BY <1>1, LenProperties
<1>3. DOMAIN s = 1 .. Len(s) /\ Len(s) \in Nat /\ DOMAIN t = 1 .. Len(t) /\ Len(t) \in Nat
  BY LenProperties
<1>4. ToSet(s \o t) \subseteq ToSet(s) \cup ToSet(t)
  BY <1>1, <1>2, <1>3 DEF ToSet
<1>5. ToSet(s) \subseteq ToSet(s \o t)
  BY <1>1, <1>2, <1>3 DEF ToSet
<1>6. ToSet(t) \subseteq ToSet(s \o t)
  <2>1. SUFFICES ASSUME NEW j \in 1 .. Len(t) PROVE t[j] \in ToSet(s \o t)
    BY <1>3 DEF ToSet
  <2>2. j + Len(s) \in 1 .. Len(s) + Len(t) /\ (s \o t)[j + Len(s)] = t[j]
    BY <1>1, <1>3
  <2> QED
    BY <2>2, <1>2 DEF ToSet
<1> QED
  BY <1>1, <1>4, <1>5, <1>6

\* A sequence that is not empty holds its head and what its tail holds.
LEMMA ToSetTail ==
  ASSUME NEW S, NEW s \in Seq(S), s # <<>>
  PROVE  /\ Head(s) \in S /\ Tail(s) \in Seq(S)
         /\ ToSet(s) = {Head(s)} \cup ToSet(Tail(s))
<1>1. /\ Head(s) \in S /\ Tail(s) \in Seq(S) /\ Len(Tail(s)) = Len(s) - 1
      /\ \A i \in 1 .. Len(Tail(s)) : Tail(s)[i] = s[i + 1]
  BY HeadTailProperties
<1>2. Len(s) \in Nat \ {0} /\ DOMAIN s = 1 .. Len(s) /\ DOMAIN Tail(s) = 1 .. Len(s) - 1
  BY <1>1, EmptySeq, LenProperties
<1>3. Head(s) = s[1]
  OBVIOUS
<1>4. ToSet(s) \subseteq {Head(s)} \cup ToSet(Tail(s))
  <2>1. SUFFICES ASSUME NEW i \in 1 .. Len(s), i # 1 PROVE s[i] \in ToSet(Tail(s))
    BY <1>2, <1>3 DEF ToSet
  <2>2. i - 1 \in 1 .. Len(s) - 1 /\ Tail(s)[i - 1] = s[i]
    BY <1>1, <1>2, <2>1
  <2> QED
    BY <2>2, <1>2 DEF ToSet
<1>5. {Head(s)} \cup ToSet(Tail(s)) \subseteq ToSet(s)
  BY <1>1, <1>2, <1>3 DEF ToSet
<1> QED
  BY <1>1, <1>4, <1>5

\* Cut in two anywhere, a sequence is in its two parts.
LEMMA ToSetSplit ==
  ASSUME NEW S, NEW s \in Seq(S), NEW n \in 0 .. Len(s)
  PROVE  /\ SubSeq(s, 1, n) \in Seq(S) /\ SubSeq(s, n + 1, Len(s)) \in Seq(S)
         /\ ToSet(s) = ToSet(SubSeq(s, 1, n)) \cup ToSet(SubSeq(s, n + 1, Len(s)))
<1>1. Len(s) \in Nat /\ \A i \in 1 .. Len(s) : s[i] \in S
  BY LenProperties, ElementOfSeq
<1>2. SubSeq(s, 1, n) \in Seq(S) /\ SubSeq(s, n + 1, Len(s)) \in Seq(S)
  BY <1>1, SubSeqProperties
<1>3. SubSeq(s, 1, n) \o SubSeq(s, n + 1, Len(s)) = SubSeq(s, 1, Len(s))
  <2>1. 1 \in 1 .. Len(s) + 1 /\ n \in 1 - 1 .. Len(s) /\ Len(s) \in n .. Len(s)
    BY <1>1
  <2> QED
    BY <2>1, ConcatAdjacentSubSeq
<1>4. SubSeq(s, 1, Len(s)) = s
  BY SubSeqFull
<1>5. ToSet(SubSeq(s, 1, n) \o SubSeq(s, n + 1, Len(s)))
        = ToSet(SubSeq(s, 1, n)) \cup ToSet(SubSeq(s, n + 1, Len(s)))
  BY <1>2, ToSetConcat
<1> QED
  BY <1>2, <1>3, <1>4, <1>5

\* A function of 1 .. n is a sequence of length n.
LEMMA FunctionIsSeq ==
  ASSUME NEW S, NEW n \in Nat, NEW f \in [1 .. n -> S]
  PROVE  f \in Seq(S) /\ Len(f) = n
OBVIOUS

\* What is in a concatenation, by the lengths of its parts.
LEMMA ConcatIs ==
  ASSUME NEW S, NEW s \in Seq(S), NEW t \in Seq(S), NEW m \in Nat, NEW n \in Nat, NEW all \in Nat,
         m = Len(s), n = Len(t), all = m + n
  PROVE  /\ s \o t \in Seq(S) /\ Len(s \o t) = all
         /\ \A j \in 1 .. all : (s \o t)[j] = IF j <= m THEN s[j] ELSE t[j - m]
BY ConcatProperties

\* RemoveAt takes one element, and those after it come one place nearer.
LEMMA RemoveAtIs ==
  ASSUME NEW S, NEW s \in Seq(S), NEW i \in 1 .. Len(s)
  PROVE  /\ RemoveAt(s, i) \in Seq(S) /\ Len(RemoveAt(s, i)) = Len(s) - 1
         /\ \A j \in 1 .. Len(s) - 1 : RemoveAt(s, i)[j] = IF j < i THEN s[j] ELSE s[j + 1]
<1> DEFINE before == SubSeq(s, 1, i - 1)
           after == SubSeq(s, i + 1, Len(s))
<1>1. Len(s) \in Nat /\ i \in Int /\ \A j \in 1 .. Len(s) : s[j] \in S
  BY LenProperties, ElementOfSeq
<1>2. /\ before \in Seq(S) /\ Len(before) = i - 1
      /\ \A j \in 1 .. i - 1 : before[j] = s[j]
  <2>1. \A j \in 1 .. i - 1 : s[j] \in S
    BY <1>1
  <2>2. /\ before \in Seq(S) /\ Len(before) = IF 1 <= i - 1 THEN i - 1 - 1 + 1 ELSE 0
        /\ \A j \in 1 .. i - 1 - 1 + 1 : before[j] = s[1 + j - 1]
    BY <1>1, <2>1, SubSeqProperties
  <2> QED
    BY <1>1, <2>2
<1>3. /\ after \in Seq(S) /\ Len(after) = Len(s) - i
      /\ \A j \in 1 .. Len(s) - i : after[j] = s[i + j]
  <2>1. \A j \in i + 1 .. Len(s) : s[j] \in S
    BY <1>1
  <2>2. /\ after \in Seq(S) /\ Len(after) = IF i + 1 <= Len(s) THEN Len(s) - (i + 1) + 1 ELSE 0
        /\ \A j \in 1 .. Len(s) - (i + 1) + 1 : after[j] = s[i + 1 + j - 1]
    BY <1>1, <2>1, SubSeqProperties
  <2> QED
    BY <1>1, <2>2
<1>4. RemoveAt(s, i) = before \o after
  BY DEF RemoveAt
<1> HIDE DEF before, after
<1>5. /\ before \o after \in Seq(S) /\ Len(before \o after) = Len(s) - 1
      /\ \A j \in 1 .. Len(s) - 1 :
           (before \o after)[j] = IF j <= i - 1 THEN before[j] ELSE after[j - (i - 1)]
  <2> DEFINE m == i - 1
             n == Len(s) - i
             all == Len(s) - 1
  <2>1. /\ m \in Nat /\ n \in Nat /\ all \in Nat /\ all = m + n /\ m = Len(before) /\ n = Len(after)
        /\ before \in Seq(S) /\ after \in Seq(S)
    BY <1>1, <1>2, <1>3
  <2> HIDE DEF m, n, all
  <2>2. /\ before \o after \in Seq(S) /\ Len(before \o after) = all
        /\ \A j \in 1 .. all : (before \o after)[j] = IF j <= m THEN before[j] ELSE after[j - m]
    BY <2>1, ConcatIs
  <2> QED
    BY <2>2 DEF m, all
<1>6. \A j \in 1 .. Len(s) - 1 : (before \o after)[j] = IF j < i THEN s[j] ELSE s[j + 1]
  <2>1. TAKE j \in 1 .. Len(s) - 1
  <2>2. CASE j < i
    BY <1>1, <1>2, <1>5, <2>2
  <2>3. CASE ~(j < i)
    <3>1. j - (i - 1) \in 1 .. Len(s) - i /\ i + (j - (i - 1)) = j + 1 /\ ~(j <= i - 1)
      BY <1>1, <2>3
    <3> QED
      BY <1>3, <1>5, <2>3, <3>1
  <2> QED
    BY <2>2, <2>3
<1> QED
  BY <1>4, <1>5, <1>6

\* InsertAt puts one element, and those after it go one place farther.
LEMMA InsertAtIs ==
  ASSUME NEW S, NEW s \in Seq(S), NEW new \in Nat, new = Len(s) + 1, NEW i \in 1 .. new, NEW e \in S
  PROVE  /\ InsertAt(s, i, e) \in Seq(S) /\ Len(InsertAt(s, i, e)) = new
         /\ \A j \in 1 .. new : /\ j < i => InsertAt(s, i, e)[j] = s[j]
                                /\ j = i => InsertAt(s, i, e)[j] = e
                                /\ j > i => InsertAt(s, i, e)[j] = s[j - 1]
<1> DEFINE before == SubSeq(s, 1, i - 1)
           after == SubSeq(s, i, Len(s))
<1>1. Len(s) \in Nat /\ i \in Int /\ \A j \in 1 .. Len(s) : s[j] \in S
  BY LenProperties, ElementOfSeq
<1>2. /\ before \in Seq(S) /\ Len(before) = i - 1
      /\ \A j \in 1 .. i - 1 : before[j] = s[j]
  <2>1. \A j \in 1 .. i - 1 : s[j] \in S
    BY <1>1
  <2>2. /\ before \in Seq(S) /\ Len(before) = IF 1 <= i - 1 THEN i - 1 - 1 + 1 ELSE 0
        /\ \A j \in 1 .. i - 1 - 1 + 1 : before[j] = s[1 + j - 1]
    BY <1>1, <2>1, SubSeqProperties
  <2> QED
    BY <1>1, <2>2
<1>3. /\ after \in Seq(S) /\ Len(after) = Len(s) - i + 1
      /\ \A j \in 1 .. Len(s) - i + 1 : after[j] = s[i + j - 1]
  <2>1. \A j \in i .. Len(s) : s[j] \in S
    BY <1>1
  <2>2. /\ after \in Seq(S) /\ Len(after) = IF i <= Len(s) THEN Len(s) - i + 1 ELSE 0
        /\ \A j \in 1 .. Len(s) - i + 1 : after[j] = s[i + j - 1]
    BY <1>1, <2>1, SubSeqProperties
  <2> QED
    BY <1>1, <2>2
<1>4. InsertAt(s, i, e) = before \o <<e>> \o after
  BY DEF InsertAt
<1> HIDE DEF before, after
<1>5. /\ before \o <<e>> \in Seq(S) /\ Len(before \o <<e>>) = i
      /\ \A j \in 1 .. i : (before \o <<e>>)[j] = IF j <= i - 1 THEN before[j] ELSE <<e>>[j - (i - 1)]
  <2>1. <<e>> \in Seq(S) /\ Len(<<e>>) = 1
    OBVIOUS
  <2> QED
    BY <1>1, <1>2, <2>1, ConcatIs
<1>6. \A j \in 1 .. i : (before \o <<e>>)[j] = IF j < i THEN s[j] ELSE e
  BY <1>1, <1>2, <1>5
<1>7. /\ before \o <<e>> \o after \in Seq(S) /\ Len(before \o <<e>> \o after) = Len(s) + 1
      /\ \A j \in 1 .. Len(s) + 1 :
           (before \o <<e>> \o after)[j] = IF j <= i THEN (before \o <<e>>)[j] ELSE after[j - i]
  <2> DEFINE n == Len(s) - i + 1
             all == Len(s) + 1
             front == before \o <<e>>
  <2>1. /\ i \in Nat /\ n \in Nat /\ all \in Nat /\ all = i + n /\ i = Len(front) /\ n = Len(after)
        /\ front \in Seq(S) /\ after \in Seq(S)
    BY <1>1, <1>3, <1>5
  <2> HIDE DEF n, all, front
  <2>2. /\ front \o after \in Seq(S) /\ Len(front \o after) = all
        /\ \A j \in 1 .. all : (front \o after)[j] = IF j <= i THEN front[j] ELSE after[j - i]
    BY <2>1, ConcatIs
  <2> QED
    BY <2>2 DEF front, all
<1>8. \A j \in 1 .. Len(s) + 1 :
        (before \o <<e>> \o after)[j] = IF j < i THEN s[j] ELSE IF j = i THEN e ELSE s[j - 1]
  <2>1. TAKE j \in 1 .. Len(s) + 1
  <2>2. CASE j <= i
    <3>1. j \in 1 .. i /\ (j < i \/ j = i)
      BY <1>1, <2>2
    <3>2. (before \o <<e>> \o after)[j] = (before \o <<e>>)[j]
      BY <1>7, <2>2
    <3> QED
      BY <1>1, <1>6, <3>1, <3>2
  <2>3. CASE ~(j <= i)
    <3>1. j - i \in 1 .. Len(s) - i + 1 /\ i + (j - i) - 1 = j - 1 /\ ~(j < i) /\ j # i
      BY <1>1, <2>3
    <3> QED
      BY <1>3, <1>7, <2>3, <3>1
  <2> QED
    BY <2>2, <2>3
<1>9. /\ InsertAt(s, i, e) \in Seq(S) /\ Len(InsertAt(s, i, e)) = Len(s) + 1
      /\ \A j \in 1 .. Len(s) + 1 :
           InsertAt(s, i, e)[j] = IF j < i THEN s[j] ELSE IF j = i THEN e ELSE s[j - 1]
  BY <1>4, <1>7, <1>8
<1>10. i \in Int
  BY <1>1
<1> QED
  BY <1>9, <1>10

\* Front and Last take a sequence apart.
LEMMA FrontAndLast ==
  ASSUME NEW S, NEW s \in Seq(S), s # <<>>
  PROVE  /\ Front(s) \in Seq(S) /\ Len(Front(s)) = Len(s) - 1 /\ Last(s) \in S /\ Last(s) = s[Len(s)]
         /\ \A i \in 1 .. Len(s) - 1 : Front(s)[i] = s[i]
<1>1. Len(s) \in Nat \ {0} /\ \A i \in 1 .. Len(s) : s[i] \in S
  BY LenProperties, ElementOfSeq, EmptySeq
<1>2. \A i \in 1 .. Len(s) - 1 : s[i] \in S
  BY <1>1
<1>3. /\ Front(s) \in Seq(S) /\ Len(Front(s)) = IF 1 <= Len(s) - 1 THEN Len(s) - 1 - 1 + 1 ELSE 0
      /\ \A i \in 1 .. Len(s) - 1 - 1 + 1 : Front(s)[i] = s[1 + i - 1]
  BY <1>1, <1>2, SubSeqProperties DEF Front
<1>4. Last(s) = s[Len(s)] /\ Len(s) \in 1 .. Len(s)
  BY <1>1 DEF Last
<1>5. \A i \in 1 .. Len(s) - 1 : Front(s)[i] = s[i]
  BY <1>1, <1>3
<1>6. Len(Front(s)) = Len(s) - 1
  <2> DEFINE n == Len(s)
  <2>1. n \in Nat \ {0} /\ Len(Front(s)) = IF 1 <= n - 1 THEN n - 1 - 1 + 1 ELSE 0
    BY <1>1, <1>3
  <2> HIDE DEF n
  <2>2. Len(Front(s)) = n - 1
    BY <2>1
  <2> QED
    BY <2>2 DEF n
<1> QED
  BY <1>1, <1>3, <1>4, <1>5, <1>6

\* SetToSeq lists a finite set.
LEMMA SetToSeqLists ==
  ASSUME NEW S, IsFiniteSet(S)
  PROVE  SetToSeq(S) \in Seq(S) /\ ToSet(SetToSeq(S)) = S
<1> DEFINE n == Cardinality(S)
           f == SetToSeq(S)
<1>1. n \in Nat /\ Bijection(1 .. n, S) # {}
  BY FS_CardinalityType DEF ExistsBijection
<1>2. \E g \in [1 .. n -> S] : IsInjective(g)
  BY <1>1 DEF Bijection, Injection
<1>3. f \in [1 .. n -> S] /\ IsInjective(f)
  BY <1>2 DEF SetToSeq
<1>4. f \in Seq(S)
  BY <1>1, <1>3
<1>5. f \in Injection(1 .. n, S)
  BY <1>3 DEF Injection
<1>6. Cardinality(1 .. n) = n
  BY <1>1, FS_Interval
<1>7. f \in Surjection(1 .. n, S)
  BY <1>5, <1>6, FS_Injection
<1>8. ToSet(f) = S
  BY <1>3, <1>7 DEF Surjection, ToSet
<1> QED
  BY <1>4, <1>8

\* What is reversed stays.
LEMMA ReverseIs ==
  ASSUME NEW S, NEW s \in Seq(S)
  PROVE  Reverse(s) \in Seq(S) /\ ToSet(Reverse(s)) = ToSet(s)
<1> DEFINE n == Len(s)
           back == Reverse(s)
<1>1. n \in Nat /\ DOMAIN s = 1 .. n /\ \A i \in 1 .. n : s[i] \in S
  BY LenProperties, ElementOfSeq
<1>2. back = [i \in 1 .. n |-> s[(n - i) + 1]]
  BY DEF Reverse
<1> HIDE DEF back, n
<1>3. \A i \in 1 .. n : (n - i) + 1 \in 1 .. n /\ i = (n - ((n - i) + 1)) + 1
  BY <1>1
<1>4. back \in [1 .. n -> S]
  BY <1>1, <1>2, <1>3
<1>5. back \in Seq(S)
  BY <1>1, <1>4, FunctionIsSeq
<1>6. ToSet(back) = ToSet(s)
  BY <1>1, <1>2, <1>3 DEF ToSet
<1> QED
  BY <1>5, <1>6 DEF back

\* The end of a sequence, from a place in it.
LEMMA EndIs ==
  ASSUME NEW S, NEW s \in Seq(S), NEW m \in 1 .. Len(s) + 1
  PROVE  SubSeq(s, m, Len(s)) \in Seq(S)
<1>1. Len(s) \in Nat /\ \A i \in 1 .. Len(s) : s[i] \in S
  BY LenProperties, ElementOfSeq
<1>2. m \in Int /\ Len(s) \in Int /\ \A i \in m .. Len(s) : s[i] \in S
  BY <1>1
<1> QED
  BY <1>2, SubSeqProperties

-----------------------------------------------------------------------------
(* What is kept of a sequence, and the order of what it holds. *)

\* What of a sequence is kept up to each of its places.
OnlyStep(kept, s, S, m) ==
  [n \in 0 .. m |-> IF n = 0 THEN <<>> ELSE IF s[n] \in S THEN Append(kept[n - 1], s[n]) ELSE kept[n - 1]]

\* The recursion by which Only is defined is defined for every length.
LEMMA OnlyStepsExist ==
  ASSUME NEW s, NEW S, NEW n \in Nat
  PROVE  \E kept : kept = OnlyStep(kept, s, S, n)
<1> DEFINE F(m, kept) == kept = OnlyStep(kept, s, S, m)
           Bad == {m \in Nat : ~ \E kept : F(m, kept)}
<1>1. SUFFICES ASSUME Bad # {} PROVE FALSE
  OBVIOUS
<1>2. PICK m \in Bad : \A l \in Bad : m <= l
  <2>1. Bad \in SUBSET Nat
    OBVIOUS
  <2> HIDE DEF Bad
  <2> QED
    BY <1>1, <2>1, LeastNat
<1>3. m # 0
  <2>1. F(0, [i \in 0 .. 0 |-> <<>>])
    BY DEF OnlyStep
  <2> QED
    BY <1>2, <2>1
<1>4. PICK kept : F(m - 1, kept)
  BY <1>2, <1>3
<1> DEFINE next == IF s[m] \in S THEN Append(kept[m - 1], s[m]) ELSE kept[m - 1]
           longer == [i \in 0 .. m |-> IF i = m THEN next ELSE kept[i]]
<1>5. F(m, longer)
  <2>1. m \in Nat \ {0} /\ \A i \in 0 .. m : i # m => i \in 0 .. m - 1
    BY <1>2, <1>3
  <2>2. \A i \in 0 .. m - 1 : longer[i] = kept[i]
    BY <2>1
  <2>3. \A i \in 0 .. m - 1 :
          kept[i] = IF i = 0 THEN <<>> ELSE IF s[i] \in S THEN Append(kept[i - 1], s[i]) ELSE kept[i - 1]
    BY <1>4 DEF OnlyStep
  <2>4. \A i \in 0 .. m :
          longer[i] = IF i = 0 THEN <<>> ELSE IF s[i] \in S THEN Append(longer[i - 1], s[i]) ELSE longer[i - 1]
    <3>1. TAKE i \in 0 .. m
    <3>2. CASE i = m
      BY <2>1, <2>2, <3>2
    <3>3. CASE i # m
      BY <2>1, <2>2, <2>3, <3>3
    <3> QED
      BY <3>2, <3>3
  <2> HIDE DEF longer
  <2>5. longer = [i \in 0 .. m |-> longer[i]]
    BY DEF longer
  <2> QED
    BY <2>4, <2>5 DEF OnlyStep
<1> QED
  BY <1>2, <1>5

\* Only keeps what of a sequence is in a set.
LEMMA OnlyIs ==
  ASSUME NEW E, NEW s \in Seq(E), NEW S
  PROVE  Only(s, S) \in Seq(E) /\ ToSet(Only(s, S)) = ToSet(s) \cap S
<1> DEFINE N == Len(s)
           kept == CHOOSE kept : kept = OnlyStep(kept, s, S, N)
           upTo(n) == {s[i] : i \in 1 .. n} \cap S
           Good(n) == kept[n] \in Seq(E) /\ ToSet(kept[n]) = upTo(n)
           Bad == {n \in 0 .. N : ~Good(n)}
<1>1. N \in Nat /\ DOMAIN s = 1 .. N /\ \A i \in 1 .. N : s[i] \in E
  BY LenProperties, ElementOfSeq
<1>2. kept = OnlyStep(kept, s, S, N)
  BY <1>1, OnlyStepsExist
<1>3. Only(s, S) = kept[N]
  BY DEF Only, OnlyStep
<1> HIDE DEF kept, Good
<1>4. \A n \in 0 .. N :
        kept[n] = IF n = 0 THEN <<>> ELSE IF s[n] \in S THEN Append(kept[n - 1], s[n]) ELSE kept[n - 1]
  <2> HIDE DEF Bad
  <2> QED
    BY <1>2 DEF OnlyStep
<1>5. Good(0)
  <2>1. kept[0] = <<>> /\ upTo(0) = {}
    BY <1>1, <1>4
  <2> QED
    BY <2>1 DEF Good, ToSet
<1>6. ASSUME NEW n \in 1 .. N, Good(n - 1) PROVE Good(n)
  <2>1. n \in 0 .. N /\ n # 0 /\ s[n] \in E
    BY <1>1
  <2>2. \A i \in 1 .. n : i = n \/ i \in 1 .. n - 1
    BY <1>1
  <2>3. 1 .. n - 1 \subseteq 1 .. n /\ n \in 1 .. n
    BY <1>1
  <2>4. upTo(n) = IF s[n] \in S THEN upTo(n - 1) \cup {s[n]} ELSE upTo(n - 1)
    BY <2>2, <2>3
  <2> HIDE DEF upTo, N
  <2>5. kept[n - 1] \in Seq(E) /\ ToSet(kept[n - 1]) = upTo(n - 1)
    BY <1>6 DEF Good
  <2>6. CASE s[n] \in S
    <3>1. kept[n] = Append(kept[n - 1], s[n])
      BY <1>4, <2>1, <2>6
    <3>2. Append(kept[n - 1], s[n]) \in Seq(E)
      BY <2>1, <2>5, AppendProperties
    <3>3. ToSet(kept[n]) = upTo(n - 1) \cup {s[n]}
      BY <2>1, <2>5, <3>1, ToSetAppend
    <3> QED
      BY <2>4, <2>6, <3>1, <3>2, <3>3 DEF Good
  <2>7. CASE s[n] \notin S
    <3>1. kept[n] = kept[n - 1]
      BY <1>4, <2>1, <2>7
    <3> QED
      BY <2>4, <2>5, <2>7, <3>1 DEF Good
  <2> QED
    BY <2>6, <2>7
<1>7. Bad = {}
  <2>1. SUFFICES ASSUME Bad # {} PROVE FALSE
    OBVIOUS
  <2>2. PICK n \in Bad : \A m \in Bad : n <= m
    <3>1. Bad \in SUBSET Nat
      BY <1>1
    <3> HIDE DEF Bad
    <3> QED
      BY <2>1, <3>1, LeastNat
  <2>3. n # 0
    BY <1>5, <2>2
  <2>4. n \in 1 .. N /\ n - 1 \in 0 .. N /\ ~(n <= n - 1)
    BY <1>1, <2>2, <2>3
  <2>5. Good(n - 1)
    <3>1. n - 1 \notin Bad
      BY <2>2, <2>4
    <3> QED
      BY <2>4, <3>1
  <2> QED
    BY <1>6, <2>2, <2>4, <2>5
<1>8. Good(N)
  <2>1. N \in 0 .. N /\ N \notin Bad
    BY <1>1, <1>7
  <2> QED
    BY <2>1
<1>9. upTo(N) = ToSet(s) \cap S
  BY <1>1 DEF ToSet
<1> HIDE DEF upTo, N
<1> QED
  BY <1>3, <1>8, <1>9 DEF Good

\* What Only keeps of a longer sequence.
LEMMA OnlyAppend ==
  ASSUME NEW E, NEW s \in Seq(E), NEW x \in E, NEW S, NEW t, t = Append(s, x)
  PROVE  Only(t, S) = IF x \in S THEN Append(Only(s, S), x) ELSE Only(s, S)
<1> DEFINE N == Len(s)
           keptS == CHOOSE kept : kept = OnlyStep(kept, s, S, N)
           keptT == CHOOSE kept : kept = OnlyStep(kept, t, S, Len(t))
           Bad == {n \in 0 .. N : keptT[n] # keptS[n]}
<1>1. /\ N \in Nat /\ Len(t) = N + 1
      /\ \A n \in 1 .. N : t[n] = s[n]
      /\ t[N + 1] = x
  BY LenProperties, AppendProperties
<1>2. keptS = OnlyStep(keptS, s, S, N) /\ keptT = OnlyStep(keptT, t, S, Len(t))
  BY <1>1, OnlyStepsExist
<1>3. Only(s, S) = keptS[N] /\ Only(t, S) = keptT[N + 1]
  BY <1>1 DEF Only, OnlyStep
<1> HIDE DEF keptS, keptT
<1>4. \A n \in 0 .. N :
        keptS[n] = IF n = 0 THEN <<>> ELSE IF s[n] \in S THEN Append(keptS[n - 1], s[n]) ELSE keptS[n - 1]
  <2> HIDE DEF Bad
  <2> QED
    BY <1>2 DEF OnlyStep
<1>5. \A n \in 0 .. N + 1 :
        keptT[n] = IF n = 0 THEN <<>> ELSE IF t[n] \in S THEN Append(keptT[n - 1], t[n]) ELSE keptT[n - 1]
  <2> HIDE DEF Bad
  <2> QED
    BY <1>1, <1>2 DEF OnlyStep
<1>6. Bad = {}
  <2>1. SUFFICES ASSUME Bad # {} PROVE FALSE
    OBVIOUS
  <2>2. PICK n \in Bad : \A m \in Bad : n <= m
    <3>1. Bad \in SUBSET Nat
      BY <1>1
    <3> HIDE DEF Bad
    <3> QED
      BY <2>1, <3>1, LeastNat
  <2>3. n \in 0 .. N /\ n \in 0 .. N + 1 /\ keptT[n] # keptS[n]
    BY <1>1, <2>2
  <2>4. n # 0
    BY <1>4, <1>5, <2>3
  <2>5. n - 1 \in 0 .. N /\ ~(n <= n - 1) /\ n \in 1 .. N
    BY <1>1, <2>3, <2>4
  <2>6. keptT[n - 1] = keptS[n - 1]
    BY <2>2, <2>5
  <2>7. t[n] = s[n]
    BY <1>1, <2>5
  <2> HIDE DEF Bad, N
  <2> QED
    BY <1>4, <1>5, <2>3, <2>4, <2>6, <2>7
<1>7. keptT[N] = keptS[N]
  BY <1>1, <1>6
<1>8. keptT[N + 1] = IF x \in S THEN Append(keptT[N], x) ELSE keptT[N]
  <2>1. N + 1 \in 0 .. N + 1 /\ N + 1 # 0 /\ N + 1 - 1 = N
    BY <1>1
  <2> HIDE DEF N, Bad
  <2> QED
    BY <1>1, <1>5, <2>1
<1> QED
  BY <1>3, <1>7, <1>8

\* Nothing is kept of nothing.
LEMMA OnlyEmpty ==
  ASSUME NEW S
  PROVE  Only(<<>>, S) = <<>>
<1> DEFINE kept == CHOOSE kept : kept = OnlyStep(kept, <<>>, S, 0)
<1>1. kept = OnlyStep(kept, <<>>, S, 0)
  BY OnlyStepsExist
<1>2. Only(<<>>, S) = kept[0]
  BY DEF Only, OnlyStep
<1> HIDE DEF kept
<1> QED
  BY <1>1, <1>2 DEF OnlyStep

\* What is kept of two sequences, one after the other.
LEMMA OnlyConcat ==
  ASSUME NEW E, NEW s \in Seq(E), NEW t \in Seq(E), NEW S
  PROVE  Only(s \o t, S) = Only(s, S) \o Only(t, S)
<1> DEFINE Bad == {n \in Nat : \E u \in Seq(E) : Len(u) = n /\ Only(s \o u, S) # Only(s, S) \o Only(u, S)}
<1>1. Bad = {}
  <2>1. SUFFICES ASSUME Bad # {} PROVE FALSE
    OBVIOUS
  <2>2. PICK n \in Bad : \A m \in Bad : n <= m
    <3>1. Bad \in SUBSET Nat
      OBVIOUS
    <3> HIDE DEF Bad
    <3> QED
      BY <2>1, <3>1, LeastNat
  <2>3. PICK u \in Seq(E) : Len(u) = n /\ Only(s \o u, S) # Only(s, S) \o Only(u, S)
    BY <2>2
  <2>4. Only(s, S) \in Seq(E)
    BY OnlyIs
  <2>5. u # <<>>
    <3>1. SUFFICES ASSUME u = <<>> PROVE FALSE
      OBVIOUS
    <3>2. s \o u = s /\ Only(u, S) = <<>>
      BY <3>1, OnlyEmpty
    <3>3. Only(s, S) \o <<>> = Only(s, S)
      BY <2>4
    <3> QED
      BY <2>3, <3>2, <3>3
  <2>6. PICK v, x : v = Front(u) /\ x = Last(u)
    OBVIOUS
  <2>7. /\ v \in Seq(E) /\ Len(v) = Len(u) - 1 /\ x \in E /\ x = u[Len(u)]
        /\ \A i \in 1 .. Len(u) - 1 : v[i] = u[i]
    BY <2>5, <2>6, FrontAndLast
  <2>8. Len(u) \in Nat \ {0} /\ u = Append(v, x) /\ s \o u = Append(s \o v, x) /\ s \o v \in Seq(E)
    <3>1. Len(u) \in Nat \ {0} /\ Len(v) \in Nat
      BY <2>5, <2>7, LenProperties
    <3>2. u = Append(v, x)
      BY <2>5, <2>6, <2>7, <3>1, FrontAndLast
    <3> QED
      BY <2>7, <3>1, <3>2
  <2>9. Only(s \o v, S) = Only(s, S) \o Only(v, S)
    <3>1. Len(v) \in Nat /\ ~(n <= Len(v))
      BY <2>3, <2>7, <2>8
    <3>2. Len(v) \notin Bad
      BY <2>2, <3>1
    <3> QED
      BY <2>7, <3>1, <3>2
  <2>10. Only(v, S) \in Seq(E)
    BY <2>7, OnlyIs
  <2>11. Only(s \o u, S) = IF x \in S THEN Append(Only(s \o v, S), x) ELSE Only(s \o v, S)
    <3>0. s \o v \in Seq(E) /\ s \o u \in Seq(E)
      BY <2>8
    <3>1. PICK w \in Seq(E), all \in Seq(E) : w = s \o v /\ all = s \o u
      BY <3>0, Zenon
    <3>2. all = Append(w, x)
      BY <2>8, <3>1
    <3>3. x \in E
      BY <2>7
    <3>4. Only(all, S) = IF x \in S THEN Append(Only(w, S), x) ELSE Only(w, S)
      BY <3>2, <3>3, OnlyAppend
    <3> QED
      BY <3>1, <3>4
  <2>12. Only(u, S) = IF x \in S THEN Append(Only(v, S), x) ELSE Only(v, S)
    <3>1. PICK w \in Seq(E), all \in Seq(E) : w = v /\ all = u
      BY <2>7
    <3>2. all = Append(w, x)
      BY <2>8, <3>1
    <3>3. x \in E
      BY <2>7
    <3>4. Only(all, S) = IF x \in S THEN Append(Only(w, S), x) ELSE Only(w, S)
      BY <3>2, <3>3, OnlyAppend
    <3> QED
      BY <3>1, <3>4
  <2>13. Only(s, S) \o Append(Only(v, S), x) = Append(Only(s, S) \o Only(v, S), x)
    BY <2>4, <2>7, <2>10
  <2> QED
    BY <2>3, <2>9, <2>11, <2>12, <2>13
<1> QED
  BY <1>1, LenProperties

\* What is kept of one element, and of an element and what comes after it.
LEMMA OnlyOne ==
  ASSUME NEW E, NEW x \in E, NEW S
  PROVE  Only(<<x>>, S) = IF x \in S THEN <<x>> ELSE <<>>
<1>1. PICK none, one : none = <<>> /\ one = <<x>>
  OBVIOUS
<1>2. none \in Seq(E) /\ one = Append(none, x) /\ Append(none, x) = <<x>>
  BY <1>1
<1>3. Only(one, S) = IF x \in S THEN Append(Only(none, S), x) ELSE Only(none, S)
  BY <1>2, OnlyAppend
<1>4. Only(none, S) = none
  BY <1>1, OnlyEmpty
<1> QED
  BY <1>1, <1>2, <1>3, <1>4

\* What is kept once the first is gone is the rest of what was kept, or all of it.
LEMMA OnlyTail ==
  ASSUME NEW E, NEW s \in Seq(E), s # <<>>, NEW S
  PROVE  /\ Head(s) \in S => Only(s, S) = <<Head(s)>> \o Only(Tail(s), S)
         /\ Head(s) \notin S => Only(s, S) = Only(Tail(s), S)
<1>1. PICK x \in E, t \in Seq(E) : x = Head(s) /\ t = Tail(s)
  BY ToSetTail
<1>2. PICK one \in Seq(E) : one = <<x>>
  <2>1. <<x>> \in Seq(E)
    OBVIOUS
  <2> QED
    BY <2>1
<1>3. Only(s, S) = Only(<<x>>, S) \o Only(t, S)
  <2>1. s = one \o t
    BY <1>1, <1>2
  <2>2. Only(one \o t, S) = Only(one, S) \o Only(t, S)
    BY OnlyConcat
  <2> QED
    BY <1>2, <2>1, <2>2
<1>4. Only(t, S) \in Seq(E)
  BY OnlyIs
<1>5. <<>> \o Only(t, S) = Only(t, S)
  BY <1>4
<1> QED
  BY <1>1, <1>3, <1>5, OnlyOne

\* Nothing is kept of what is not wanted, and all of what is.
LEMMA OnlyNone ==
  ASSUME NEW E, NEW s \in Seq(E), NEW S, ToSet(s) \cap S = {}
  PROVE  Only(s, S) = <<>>
BY OnlyIs, ToSetEmpty

\* A sequence is one of what is in it.
LEMMA SeqOfThem ==
  ASSUME NEW E, NEW s \in Seq(E), NEW S, ToSet(s) \subseteq S
  PROVE  s \in Seq(S)
<1>1. PICK N \in Nat : N = Len(s) /\ DOMAIN s = 1 .. N /\ s \in [1 .. N -> E]
  BY LenProperties
<1>2. s \in [1 .. N -> S]
  BY <1>1 DEF ToSet
<1> QED
  BY <1>1, <1>2, FunctionIsSeq

\* What is kept of a sequence is one of what is kept.
LEMMA OnlyThem ==
  ASSUME NEW E, NEW s \in Seq(E), NEW S
  PROVE  Only(s, S) \in Seq(S)
<1>1. PICK t : t = Only(s, S)
  OBVIOUS
<1>2. t \in Seq(E) /\ ToSet(t) \subseteq S
  BY <1>1, OnlyIs
<1>3. t \in Seq(S)
  BY <1>2, SeqOfThem
<1> QED
  BY <1>1, <1>3

\* What two sequences are, one after the other.
Joined(all, s, N, t, M) ==
  /\ DOMAIN s = 1 .. N /\ DOMAIN t = 1 .. M /\ DOMAIN all = 1 .. N + M
  /\ \A n \in 1 .. N : all[n] = s[n]
  /\ \A n \in 1 .. M : all[n + N] = t[n]

\* Two sequences, one after the other, are what is said of them.
LEMMA ConcatJoins ==
  ASSUME NEW E, NEW s \in Seq(E), NEW t \in Seq(E), NEW all, all = s \o t
  PROVE  \E N \in Nat, M \in Nat : Joined(all, s, N, t, M)
<1>1. PICK N \in Nat, M \in Nat : N = Len(s) /\ M = Len(t)
  BY LenProperties
<1>2. DOMAIN all = 1 .. N + M /\ DOMAIN s = 1 .. N /\ DOMAIN t = 1 .. M
  BY <1>1, LenProperties, ConcatProperties
<1>3. ASSUME NEW n \in 1 .. N PROVE all[n] = s[n]
  BY <1>1, ConcatProperties
<1>4. ASSUME NEW n \in 1 .. M PROVE all[n + N] = t[n]
  BY <1>1, ConcatProperties
<1> QED
  BY <1>2, <1>3, <1>4 DEF Joined

\* Where there is none of one or of the other, there is no order to keep.
LEMMA NeverNone ==
  ASSUME NEW E, NEW s \in Seq(E), NEW A, NEW b, b \notin ToSet(s) \/ ToSet(s) \cap A = {}
  PROVE  Never(s, A, b)
<1>1. DOMAIN s = 1 .. Len(s) /\ Len(s) \in Nat
  BY LenProperties
<1> QED
  BY <1>1 DEF Never, ToSet

\* What never comes after is not in the second if it is in the first, and so for both.
LEMMA NeverJoined ==
  ASSUME NEW s, NEW t, NEW N \in Nat, NEW M \in Nat, NEW A, NEW b, NEW all,
         Joined(all, s, N, t, M),
         Never(s, A, b), Never(t, A, b), b \notin ToSet(t) \/ ToSet(s) \cap A = {}
  PROVE  Never(all, A, b)
<1>2. DOMAIN all = 1 .. N + M /\ DOMAIN s = 1 .. N /\ DOMAIN t = 1 .. M
  BY DEF Joined
<1>3. \A n \in 1 .. N + M : all[n] = IF n <= N THEN s[n] ELSE t[n - N]
  <2>1. \A n \in 1 .. N + M : n > N => n - N \in 1 .. M /\ (n - N) + N = n
    OBVIOUS
  <2> QED
    BY <2>1 DEF Joined
<1> SUFFICES ASSUME NEW n \in 1 .. N + M, all[n] = b, NEW m \in 1 .. n - 1
             PROVE  all[m] \notin A
  BY <1>2 DEF Never
<1>4. CASE n <= N
  BY <1>2, <1>3, <1>4 DEF Never
<1>5. CASE n > N /\ m > N
  <2>1. n - N \in 1 .. M /\ m - N \in 1 .. (n - N) - 1 /\ all[n] = t[n - N] /\ all[m] = t[m - N]
    BY <1>3, <1>5
  <2> QED
    BY <1>2, <2>1 DEF Never
<1>6. CASE n > N /\ m <= N
  <2>1. n - N \in 1 .. M /\ m \in 1 .. N /\ all[n] = t[n - N] /\ all[m] = s[m]
    BY <1>3, <1>6
  <2>2. b \in ToSet(t) /\ all[m] \in ToSet(s)
    BY <1>2, <2>1 DEF ToSet
  <2> QED
    BY <2>2
<1> QED
  BY <1>4, <1>5, <1>6

\* The same, of sequences that are put one after the other.
LEMMA NeverConcat ==
  ASSUME NEW E, NEW s \in Seq(E), NEW t \in Seq(E), NEW A, NEW b, NEW all, all = s \o t,
         Never(s, A, b), Never(t, A, b), b \notin ToSet(t) \/ ToSet(s) \cap A = {}
  PROVE  Never(all, A, b)
<1>1. PICK N \in Nat, M \in Nat : Joined(all, s, N, t, M)
  BY ConcatJoins
<1> QED
  BY <1>1, NeverJoined

\* What was never after does not come after once the first is gone.
LEMMA NeverTail ==
  ASSUME NEW E, NEW s \in Seq(E), s # <<>>, NEW A, NEW b, Never(s, A, b)
  PROVE  Never(Tail(s), A, b) /\ (Head(s) \in A => b \notin ToSet(Tail(s)))
<1>1. PICK N \in Nat \ {0}, t \in Seq(E) : N = Len(s) /\ t = Tail(s)
  BY LenProperties, EmptySeq, ToSetTail
<1>2. DOMAIN s = 1 .. N /\ DOMAIN t = 1 .. N - 1 /\ Head(s) = s[1] /\ \A n \in 1 .. N - 1 : t[n] = s[n + 1]
  BY <1>1, HeadTailProperties, LenProperties
<1>3. Never(t, A, b)
  <2> SUFFICES ASSUME NEW n \in 1 .. N - 1, t[n] = b, NEW m \in 1 .. n - 1
               PROVE  t[m] \notin A
    BY <1>2 DEF Never
  <2>1. n + 1 \in 1 .. N /\ m + 1 \in 1 .. (n + 1) - 1 /\ t[n] = s[n + 1] /\ t[m] = s[m + 1]
    BY <1>2
  <2> QED
    BY <1>2, <2>1 DEF Never
<1>4. ASSUME NEW n \in 1 .. N - 1, t[n] = b
      PROVE  Head(s) \notin A
  <2>1. n + 1 \in 1 .. N /\ 1 \in 1 .. (n + 1) - 1 /\ t[n] = s[n + 1]
    BY <1>2
  <2> QED
    BY <1>2, <1>4, <2>1 DEF Never
<1>5. b \in ToSet(t) => \E n \in 1 .. N - 1 : t[n] = b
  BY <1>2 DEF ToSet
<1> QED
  BY <1>1, <1>3, <1>4, <1>5

\* Some b comes after an a in both when it does in one, or when the first has a and the second b.
LEMMA AfterJoined ==
  ASSUME NEW s, NEW t, NEW N \in Nat, NEW M \in Nat, NEW a, NEW b, NEW all,
         Joined(all, s, N, t, M),
         After(s, a, b) \/ After(t, a, b) \/ (a \in ToSet(s) /\ b \in ToSet(t))
  PROVE  After(all, a, b)
<1>2. DOMAIN all = 1 .. N + M /\ DOMAIN s = 1 .. N /\ DOMAIN t = 1 .. M
  BY DEF Joined
<1>3. \A n \in 1 .. N + M : all[n] = IF n <= N THEN s[n] ELSE t[n - N]
  <2>1. \A n \in 1 .. N + M : n > N => n - N \in 1 .. M /\ (n - N) + N = n
    OBVIOUS
  <2> QED
    BY <2>1 DEF Joined
<1>4. CASE After(s, a, b)
  <2>1. PICK n \in 1 .. N : s[n] = b /\ \E m \in 1 .. n - 1 : s[m] = a
    BY <1>2, <1>4 DEF After
  <2>2. n \in 1 .. N + M /\ all[n] = b /\ \E m \in 1 .. n - 1 : all[m] = a
    BY <1>3, <2>1
  <2> QED
    BY <1>2, <2>2 DEF After
<1>5. CASE After(t, a, b)
  <2>1. PICK n \in 1 .. M : t[n] = b /\ \E m \in 1 .. n - 1 : t[m] = a
    BY <1>2, <1>5 DEF After
  <2>2. PICK m \in 1 .. n - 1 : t[m] = a
    BY <2>1
  <2>3. PICK k \in 1 .. N + M : k = n + N
    BY <2>1
  <2>4. PICK l \in 1 .. k - 1 : l = m + N
    BY <2>2, <2>3
  <2>5. all[k] = t[n] /\ all[l] = t[m]
    BY <1>3, <2>2, <2>3, <2>4
  <2> QED
    BY <1>2, <2>1, <2>2, <2>5 DEF After
<1>6. CASE a \in ToSet(s) /\ b \in ToSet(t)
  <2>1. PICK m \in 1 .. N, n \in 1 .. M : s[m] = a /\ t[n] = b
    BY <1>2, <1>6 DEF ToSet
  <2>2. PICK k \in 1 .. N + M : k = n + N
    BY <2>1
  <2>3. all[k] = t[n] /\ all[m] = s[m] /\ m \in 1 .. k - 1
    BY <1>3, <2>2
  <2> QED
    BY <1>2, <2>1, <2>2, <2>3 DEF After
<1> QED
  BY <1>4, <1>5, <1>6

\* The same, of sequences that are put one after the other.
LEMMA AfterConcat ==
  ASSUME NEW E, NEW s \in Seq(E), NEW t \in Seq(E), NEW a, NEW b, NEW all, all = s \o t,
         After(s, a, b) \/ After(t, a, b) \/ (a \in ToSet(s) /\ b \in ToSet(t))
  PROVE  After(all, a, b)
<1>1. PICK N \in Nat, M \in Nat : Joined(all, s, N, t, M)
  BY ConcatJoins
<1> QED
  BY <1>1, AfterJoined

\* What came after an a still does once the first is gone, unless that was the a.
LEMMA AfterTail ==
  ASSUME NEW E, NEW s \in Seq(E), s # <<>>, NEW a, NEW b, After(s, a, b)
  PROVE  After(Tail(s), a, b) \/ Head(s) = a
<1>1. PICK N \in Nat \ {0}, t \in Seq(E) : N = Len(s) /\ t = Tail(s)
  BY LenProperties, EmptySeq, ToSetTail
<1>2. DOMAIN s = 1 .. N /\ DOMAIN t = 1 .. N - 1 /\ Head(s) = s[1] /\ \A n \in 1 .. N - 1 : t[n] = s[n + 1]
  BY <1>1, HeadTailProperties, LenProperties
<1>3. PICK n \in 1 .. N : s[n] = b /\ \E m \in 1 .. n - 1 : s[m] = a
  BY <1>2 DEF After
<1>6. PICK m \in 1 .. n - 1 : s[m] = a
  BY <1>3
<1>4. CASE m = 1
  BY <1>2, <1>6, <1>4
<1>5. CASE m # 1
  <2>1. n - 1 \in 1 .. N - 1 /\ m - 1 \in 1 .. (n - 1) - 1 /\ (n - 1) + 1 = n /\ (m - 1) + 1 = m
    BY <1>5
  <2>2. t[n - 1] = b /\ t[m - 1] = a
    <3>1. m - 1 \in 1 .. N - 1
      BY <1>5
    <3> QED
      BY <1>2, <1>3, <1>6, <2>1, <3>1
  <2>3. After(t, a, b)
    BY <1>2, <2>1, <2>2 DEF After
  <2> QED
    BY <1>1, <2>3
<1> QED
  BY <1>4, <1>5

\* What follows something is there.
LEMMA AfterHas ==
  ASSUME NEW E, NEW s \in Seq(E), NEW a, NEW b
  PROVE  /\ After(s, a, b) => a \in ToSet(s) /\ b \in ToSet(s)
         /\ Leads(s, a, b) /\ b \in ToSet(s) => After(s, a, b)
<1>1. DOMAIN s = 1 .. Len(s) /\ Len(s) \in Nat
  BY LenProperties
<1> QED
  BY <1>1 DEF After, Leads, ToSet

\* Every b comes after an a in both when it does in the first, and in the second or a is in the first.
LEMMA LeadsJoined ==
  ASSUME NEW s, NEW t, NEW N \in Nat, NEW M \in Nat, NEW a, NEW b, NEW all,
         Joined(all, s, N, t, M),
         Leads(s, a, b), Leads(t, a, b) \/ a \in ToSet(s) \/ b \notin ToSet(t)
  PROVE  Leads(all, a, b)
<1>2. DOMAIN all = 1 .. N + M /\ DOMAIN s = 1 .. N /\ DOMAIN t = 1 .. M
  BY DEF Joined
<1>3. \A n \in 1 .. N + M : all[n] = IF n <= N THEN s[n] ELSE t[n - N]
  <2>1. \A n \in 1 .. N + M : n > N => n - N \in 1 .. M /\ (n - N) + N = n
    OBVIOUS
  <2> QED
    BY <2>1 DEF Joined
<1> SUFFICES ASSUME NEW n \in 1 .. N + M, all[n] = b
             PROVE  \E m \in 1 .. n - 1 : all[m] = a
  BY <1>2 DEF Leads
<1>4. CASE n <= N
  <2>1. PICK m \in 1 .. n - 1 : s[m] = a
    BY <1>2, <1>3, <1>4 DEF Leads
  <2> QED
    BY <1>3, <1>4, <2>1
<1>5. CASE n > N
  <2>1. PICK k \in 1 .. M : k = n - N
    BY <1>5
  <2>2. t[k] = b /\ b \in ToSet(t)
    BY <1>2, <1>3, <1>5, <2>1 DEF ToSet
  <2>3. CASE Leads(t, a, b)
    <3>1. PICK l \in 1 .. k - 1 : t[l] = a
      BY <1>2, <2>2, <2>3 DEF Leads
    <3>2. PICK m \in 1 .. n - 1 : m = l + N
      BY <2>1, <1>5
    <3>3. all[m] = t[l]
      BY <1>3, <3>2, <2>1
    <3> QED
      BY <3>1, <3>3
  <2>4. CASE a \in ToSet(s)
    <3>1. PICK m \in 1 .. N : s[m] = a
      BY <1>2, <2>4 DEF ToSet
    <3>2. m \in 1 .. n - 1 /\ all[m] = s[m]
      BY <1>3, <1>5, <3>1
    <3> QED
      BY <3>1, <3>2
  <2> QED
    BY <2>2, <2>3, <2>4
<1> QED
  BY <1>4, <1>5

\* The same, of sequences that are put one after the other.
LEMMA LeadsConcat ==
  ASSUME NEW E, NEW s \in Seq(E), NEW t \in Seq(E), NEW a, NEW b, NEW all, all = s \o t,
         Leads(s, a, b), Leads(t, a, b) \/ a \in ToSet(s) \/ b \notin ToSet(t)
  PROVE  Leads(all, a, b)
<1>1. PICK N \in Nat, M \in Nat : Joined(all, s, N, t, M)
  BY ConcatJoins
<1> QED
  BY <1>1, LeadsJoined

\* The order of a sequence is that of what it consists of.
LEMMA NeverSplit ==
  ASSUME NEW s, NEW t, NEW N \in Nat, NEW M \in Nat, NEW A, NEW b, NEW all,
         Joined(all, s, N, t, M), Never(all, A, b)
  PROVE  Never(s, A, b) /\ Never(t, A, b) /\ (b \in ToSet(t) => ToSet(s) \cap A = {})
<1>1. DOMAIN all = 1 .. N + M /\ DOMAIN s = 1 .. N /\ DOMAIN t = 1 .. M
  BY DEF Joined
<1>2. ASSUME NEW n \in 1 .. N, s[n] = b, NEW m \in 1 .. n - 1
      PROVE  s[m] \notin A
  <2>1. n \in 1 .. N + M /\ all[n] = s[n] /\ all[m] = s[m]
    BY DEF Joined
  <2> QED
    BY <1>1, <1>2, <2>1 DEF Never
<1>3. ASSUME NEW n \in 1 .. M, t[n] = b, NEW m \in 1 .. n - 1
      PROVE  t[m] \notin A
  <2>1. n + N \in 1 .. N + M /\ m + N \in 1 .. (n + N) - 1 /\ m \in 1 .. M
    OBVIOUS
  <2>2. all[n + N] = t[n] /\ all[m + N] = t[m]
    BY <2>1 DEF Joined
  <2> QED
    BY <1>1, <1>3, <2>1, <2>2 DEF Never
<1>4. ASSUME NEW n \in 1 .. M, t[n] = b, NEW m \in 1 .. N
      PROVE  s[m] \notin A
  <2>1. n + N \in 1 .. N + M /\ m \in 1 .. (n + N) - 1
    OBVIOUS
  <2>2. all[n + N] = t[n] /\ all[m] = s[m]
    BY DEF Joined
  <2> QED
    BY <1>1, <1>4, <2>1, <2>2 DEF Never
<1>5. b \in ToSet(t) => ToSet(s) \cap A = {}
  BY <1>1, <1>4 DEF ToSet
<1> QED
  BY <1>1, <1>2, <1>3, <1>5 DEF Never

\* Where every b comes after an a, it does without the last; and an a is before the last if that is b.
LEMMA LeadsSplit ==
  ASSUME NEW s, NEW t, NEW N \in Nat, NEW a, NEW b, NEW all,
         Joined(all, s, N, t, 1), Leads(all, a, b)
  PROVE  Leads(s, a, b) /\ (t[1] = b => a \in ToSet(s))
<1>1. DOMAIN all = 1 .. N + 1 /\ DOMAIN s = 1 .. N /\ all[1 + N] = t[1]
  BY DEF Joined
<1>2. ASSUME NEW n \in 1 .. N, s[n] = b
      PROVE  \E m \in 1 .. n - 1 : s[m] = a
  <2>1. n \in 1 .. N + 1 /\ all[n] = s[n]
    BY DEF Joined
  <2>2. PICK m \in 1 .. n - 1 : all[m] = a
    BY <1>1, <1>2, <2>1 DEF Leads
  <2>3. all[m] = s[m]
    BY DEF Joined
  <2> QED
    BY <2>2, <2>3
<1>3. ASSUME t[1] = b
      PROVE  a \in ToSet(s)
  <2>1. PICK m \in 1 .. (1 + N) - 1 : all[m] = a
    BY <1>1, <1>3 DEF Leads
  <2>2. m \in 1 .. N /\ all[m] = s[m]
    BY DEF Joined
  <2> QED
    BY <1>1, <2>1, <2>2 DEF ToSet
<1> QED
  BY <1>1, <1>2, <1>3 DEF Leads

\* What is kept keeps its order.
OrderKept(s, S, A, a, b) ==
  /\ Never(s, A, b) => Never(Only(s, S), A, b)
  /\ Leads(s, a, b) /\ a \in S => Leads(Only(s, S), a, b)

\* What is kept of a sequence is in the order that the sequence has.
LEMMA OnlyOrder ==
  ASSUME NEW E, NEW s \in Seq(E), NEW S, NEW A, NEW a, NEW b
  PROVE  OrderKept(s, S, A, a, b)
<1> DEFINE Bad == {n \in Nat : \E u \in Seq(E) : Len(u) = n /\ ~OrderKept(u, S, A, a, b)}
<1>1. Bad = {}
  <2>1. SUFFICES ASSUME Bad # {} PROVE FALSE
    OBVIOUS
  <2>2. PICK n \in Bad : \A m \in Bad : n <= m
    <3>1. Bad \in SUBSET Nat
      OBVIOUS
    <3> HIDE DEF Bad
    <3> QED
      BY <2>1, <3>1, LeastNat
  <2>3. PICK u \in Seq(E) : Len(u) = n /\ ~OrderKept(u, S, A, a, b)
    BY <2>2
  <2>4. u # <<>>
    <3>1. SUFFICES ASSUME u = <<>> PROVE FALSE
      OBVIOUS
    <3>2. Only(u, S) = <<>>
      BY <3>1, OnlyEmpty
    <3> QED
      BY <2>3, <3>2 DEF OrderKept, Never, Leads
  <2>5. PICK v, x : v = Front(u) /\ x = Last(u)
    OBVIOUS
  <2>6. /\ v \in Seq(E) /\ Len(v) = Len(u) - 1 /\ x \in E /\ x = u[Len(u)]
        /\ \A i \in 1 .. Len(u) - 1 : v[i] = u[i]
    BY <2>4, <2>5, FrontAndLast
  <2>7. Len(u) \in Nat \ {0} /\ Len(v) \in Nat
    BY <2>4, <2>6, LenProperties
  <2>8. PICK one \in Seq(E) : one = <<x>>
    <3>1. <<x>> \in Seq(E)
      BY <2>6
    <3> QED
      BY <3>1
  <2>9. u = v \o one
    BY <2>6, <2>7, <2>8
  <2>10. Joined(u, v, Len(v), one, 1)
    <3>1. DOMAIN v = 1 .. Len(v) /\ DOMAIN one = 1 .. 1 /\ DOMAIN u = 1 .. Len(v) + 1 /\ one[1] = x
      BY <2>6, <2>7, <2>8, LenProperties
    <3>2. \A i \in 1 .. Len(v) : u[i] = v[i]
      BY <2>6, <2>7
    <3>3. \A i \in 1 .. 1 : u[i + Len(v)] = one[i]
      BY <2>6, <2>7, <3>1
    <3> QED
      BY <3>1, <3>2, <3>3 DEF Joined
  <2>11. OrderKept(v, S, A, a, b)
    <3>1. ~(n <= Len(v))
      BY <2>3, <2>6, <2>7
    <3>2. Len(v) \notin Bad
      BY <2>2, <3>1
    <3> QED
      BY <2>6, <2>7, <3>2
  <2>12. PICK kv, k1, ku : kv = Only(v, S) /\ k1 = Only(one, S) /\ ku = Only(u, S)
    OBVIOUS
  <2>13. kv \in Seq(E) /\ k1 \in Seq(E) /\ ToSet(kv) = ToSet(v) \cap S /\ ToSet(k1) = ToSet(one) \cap S
    BY <2>6, <2>8, <2>12, OnlyIs
  <2>14. ku = kv \o k1
    <3>1. PICK w \in Seq(E), y \in Seq(E) : w = v /\ y = one
      BY <2>6, <2>8
    <3> HIDE DEF Bad
    <3>2. Only(w \o y, S) = Only(w, S) \o Only(y, S)
      BY <3>1, OnlyConcat
    <3> QED
      BY <2>9, <2>12, <3>1, <3>2
  <2>15. ToSet(one) = {x} /\ one[1] = x /\ DOMAIN one = 1 .. 1
    BY <2>8 DEF ToSet
  <2>16. k1 = <<>> \/ k1 = one
    BY <2>6, <2>8, <2>12, OnlyOne
  <2>17. Never(u, A, b) => Never(ku, A, b)
    <3> SUFFICES ASSUME Never(u, A, b) PROVE Never(ku, A, b)
      OBVIOUS
    <3>1. Never(v, A, b) /\ (b \in ToSet(one) => ToSet(v) \cap A = {})
      <4>1. 1 \in Nat
        OBVIOUS
      <4> QED
        BY <2>7, <2>10, <4>1, NeverSplit
    <3>2. Never(kv, A, b)
      BY <2>11, <2>12, <3>1 DEF OrderKept
    <3>3. Never(k1, A, b)
      BY <2>15, <2>16 DEF Never
    <3>4. b \notin ToSet(k1) \/ ToSet(kv) \cap A = {}
      BY <2>13, <3>1
    <3> QED
      BY <2>13, <2>14, <3>2, <3>3, <3>4, NeverConcat
  <2>18. Leads(u, a, b) /\ a \in S => Leads(ku, a, b)
    <3> SUFFICES ASSUME Leads(u, a, b), a \in S PROVE Leads(ku, a, b)
      OBVIOUS
    <3>1. Leads(v, a, b) /\ (one[1] = b => a \in ToSet(v))
      BY <2>7, <2>10, LeadsSplit
    <3>2. Leads(kv, a, b)
      BY <2>11, <2>12, <3>1 DEF OrderKept
    <3>3. a \in ToSet(kv) \/ b \notin ToSet(k1)
      BY <2>13, <2>15, <3>1
    <3> QED
      BY <2>13, <2>14, <3>2, <3>3, LeadsConcat
  <2> QED
    BY <2>3, <2>12, <2>17, <2>18 DEF OrderKept
<1> HIDE DEF Bad
<1>2. Len(s) \in Nat /\ Len(s) \notin Bad
  BY <1>1, LenProperties
<1> QED
  BY <1>2 DEF Bad

\* A set is listed without repeating.
LEMMA SetToSeqOnce ==
  ASSUME NEW S, IsFiniteSet(S), NEW b
  PROVE  Never(SetToSeq(S), {b}, b)
<1> DEFINE n == Cardinality(S)
           f == SetToSeq(S)
<1>1. n \in Nat /\ Bijection(1 .. n, S) # {}
  BY FS_CardinalityType DEF ExistsBijection
<1>2. \E g \in [1 .. n -> S] : IsInjective(g)
  BY <1>1 DEF Bijection, Injection
<1>3. f \in [1 .. n -> S] /\ IsInjective(f)
  BY <1>2 DEF SetToSeq
<1> HIDE DEF f, n
<1>4. \A i, j \in 1 .. n : f[i] = f[j] => i = j
  BY <1>3 DEF IsInjective
<1>5. Never(f, {b}, b)
  BY <1>1, <1>3, <1>4 DEF Never
<1> QED
  BY <1>5 DEF f

\* What comes first stays first when more comes after it.
LEMMA HeadStays ==
  ASSUME NEW E, NEW s \in Seq(E), s # <<>>, NEW t \in Seq(E)
  PROVE  /\ s \o t # <<>> /\ Head(s \o t) = Head(s) /\ Tail(s \o t) = Tail(s) \o t
         /\ ToSet(Tail(s \o t)) = ToSet(Tail(s)) \cup ToSet(t)
<1>1. PICK h \in E, r \in Seq(E) : h = Head(s) /\ r = Tail(s)
  BY ToSetTail
<1>2. s \o t # <<>> /\ Head(s \o t) = h /\ Tail(s \o t) = r \o t
  BY <1>1
<1>3. ToSet(r \o t) = ToSet(r) \cup ToSet(t)
  BY ToSetConcat
<1> QED
  BY <1>1, <1>2, <1>3

\* One packet is a sequence of packets.
LEMMA OnePacket ==
  ASSUME NEW S, NEW p \in S, NEW r, r = <<p>>
  PROVE  r \in Seq(S) /\ ToSet(r) = {p} /\ <<>> \in Seq(S) /\ ToSet(<<>>) = {}
<1>1. r \in Seq(S) /\ DOMAIN r = 1 .. 1 /\ r[1] = p
  OBVIOUS
<1>2. <<>> \in Seq(S) /\ DOMAIN <<>> = {}
  OBVIOUS
<1> QED
  BY <1>1, <1>2 DEF ToSet

\* A first packet and those after it.
LEMMA OneThen ==
  ASSUME NEW S, NEW p \in S, NEW s \in Seq(S), NEW all, all = <<p>> \o s
  PROVE  all \in Seq(S) /\ all # <<>> /\ Head(all) = p /\ Tail(all) = s /\ ToSet(all) = {p} \cup ToSet(s)
<1>1. PICK one : one = <<p>>
  OBVIOUS
<1>2. one \in Seq(S) /\ ToSet(one) = {p}
  BY <1>1, OnePacket
<1>3. all = one \o s /\ ToSet(one \o s) = ToSet(one) \cup ToSet(s)
  BY <1>1, <1>2, ToSetConcat, Zenon
<1>4. ToSet(all) = {p} \cup ToSet(s)
  BY <1>2, <1>3, Zenon
<1>5. all \in Seq(S) /\ all # <<>> /\ Head(all) = p /\ Tail(all) = s
  OBVIOUS
<1> QED
  BY <1>4, <1>5

\* What appeared in the host is after what it is in.
LEMMA AppendLeads ==
  ASSUME NEW E, NEW s \in Seq(E), NEW x \in E, NEW k, NEW j, Leads(s, k, j), j = x => k \in ToSet(s)
  PROVE  Leads(Append(s, x), k, j)
<1>1. PICK one \in Seq(E) : one = <<x>>
  <2>1. <<x>> \in Seq(E)
    OBVIOUS
  <2> QED
    BY <2>1
<1>2. ToSet(one) = {x}
  BY <1>1, OnePacket
<1>3. PICK all : all = s \o one
  OBVIOUS
<1>4. Leads(all, k, j)
  BY <1>2, <1>3, LeadsConcat
<1>5. Append(s, x) = all
  BY <1>1, <1>3
<1> QED
  BY <1>4, <1>5
=============================================================================
