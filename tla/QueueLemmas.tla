----------------------------- MODULE QueueLemmas -----------------------------
(***************************************************************************)
(* What the proofs about the other modules use of the channels and queues: *)
(* what is left of a queue when something is put into it or taken from it, *)
(* and of queues whose elements are numbers in increasing order.           *)
(***************************************************************************)
EXTENDS FiniteSetTheorems, SequencesExt, SequenceTheorems, TLAPS

\* What remains of a queue when its head is taken.
LEMMA TailOf ==
  ASSUME NEW S, NEW s \in Seq(S), s # <<>>
  PROVE  /\ Tail(s) \in Seq(S) /\ Head(s) \in S
         /\ Head(s) = s[1] /\ 1 \in DOMAIN s
         /\ \A j \in DOMAIN Tail(s) :
               j + 1 \in DOMAIN s /\ Tail(s)[j] = s[j + 1] /\ j \in Nat \ {0}
         /\ Range(Tail(s)) \subseteq Range(s)
         /\ Range(s) = {Head(s)} \cup Range(Tail(s))
<1>1. /\ Len(s) \in Nat /\ DOMAIN s = 1..Len(s)
      /\ DOMAIN Tail(s) = 1..(Len(s) - 1)
      /\ Len(s) # 0
  BY HeadTailProperties, LenProperties, EmptySeq
<1>2. \A j \in 1..(Len(s) - 1) : Tail(s)[j] = s[j + 1]
  BY HeadTailProperties, <1>1
<1>3. Head(s) = s[1]
  OBVIOUS
<1>4. \A k \in 1..Len(s) : k = 1 \/ (k - 1 \in 1..(Len(s) - 1) /\ s[k] = Tail(s)[k - 1])
  BY <1>1, <1>2
<1>5. \A j \in 1..(Len(s) - 1) : j + 1 \in 1..Len(s) /\ j \in Nat \ {0}
  BY <1>1
<1>6. Range(Tail(s)) \subseteq Range(s)
  BY <1>1, <1>2, <1>5 DEF Range
<1>7. \A x \in Range(s) : x = Head(s) \/ x \in Range(Tail(s))
  BY <1>1, <1>3, <1>4 DEF Range
<1>8. 1 \in 1..Len(s)
  BY <1>1
<1>9. Head(s) \in Range(s)
  BY <1>1, <1>3, <1>8 DEF Range
<1> QED
  BY <1>1, <1>2, <1>3, <1>5, <1>6, <1>7, <1>8, <1>9, HeadTailProperties

\* A queue that grows.
LEMMA AppendTo ==
  ASSUME NEW S, NEW s \in Seq(S), NEW e \in S
  PROVE  /\ Append(s, e) \in Seq(S)
         /\ DOMAIN Append(s, e) = DOMAIN s \cup {Len(s) + 1}
         /\ \A j \in DOMAIN s : Append(s, e)[j] = s[j] /\ j # Len(s) + 1
         /\ Append(s, e)[Len(s) + 1] = e
         /\ Range(Append(s, e)) = Range(s) \cup {e}
<1>1. Len(s) \in Nat /\ DOMAIN s = 1..Len(s)
  BY LenProperties
<1>2. /\ Append(s, e) \in Seq(S) /\ Len(Append(s, e)) = Len(s) + 1
      /\ \A j \in 1..Len(s) : Append(s, e)[j] = s[j]
      /\ Append(s, e)[Len(s) + 1] = e
  BY AppendProperties
<1>3. DOMAIN Append(s, e) = 1..(Len(s) + 1)
  BY <1>2, LenProperties
<1>4. 1..(Len(s) + 1) = 1..Len(s) \cup {Len(s) + 1}
  BY <1>1
<1>5. Range(Append(s, e)) = Range(s) \cup {e}
  BY <1>1, <1>2, <1>3, <1>4 DEF Range
<1> QED
  BY <1>1, <1>2, <1>3, <1>4, <1>5

\* A queue that is cut in two.
LEMMA CutAt ==
  ASSUME NEW S, NEW s \in Seq(S), NEW n \in 0..Len(s)
  PROVE  /\ SubSeq(s, 1, n) \in Seq(S) /\ SubSeq(s, n + 1, Len(s)) \in Seq(S)
         /\ DOMAIN SubSeq(s, 1, n) = 1..n /\ Len(SubSeq(s, 1, n)) = n
         /\ \A j \in 1..n : SubSeq(s, 1, n)[j] = s[j] /\ j \in DOMAIN s
         /\ \A j \in DOMAIN SubSeq(s, n + 1, Len(s)) :
               /\ SubSeq(s, n + 1, Len(s))[j] = s[n + j]
               /\ n + j \in DOMAIN s /\ n + j \notin 1..n /\ j \in Nat
         /\ Range(SubSeq(s, 1, n)) \subseteq Range(s)
         /\ Range(SubSeq(s, n + 1, Len(s))) \subseteq Range(s)
         /\ Range(s) = Range(SubSeq(s, 1, n)) \cup Range(SubSeq(s, n + 1, Len(s)))
<1> DEFINE a == SubSeq(s, 1, n)
           b == SubSeq(s, n + 1, Len(s))
<1>1. /\ Len(s) \in Nat /\ DOMAIN s = 1..Len(s) /\ n \in Nat
      /\ \A j \in 1..Len(s) : s[j] \in S
  BY LenProperties, ElementOfSeq
<1>2. /\ a \in Seq(S) /\ Len(a) = n /\ \A j \in 1..n : a[j] = s[j]
  BY <1>1, SubSeqProperties
<1>3. DOMAIN a = 1..n
  BY <1>2, LenProperties
<1>4. /\ b \in Seq(S) /\ Len(b) = Len(s) - n
      /\ \A j \in 1..(Len(s) - n) : b[j] = s[n + j]
  <2>1. \A j \in (n + 1)..Len(s) : s[j] \in S
    BY <1>1
  <2>2. /\ b \in Seq(S)
        /\ Len(b) = IF n + 1 <= Len(s) THEN Len(s) - (n + 1) + 1 ELSE 0
        /\ \A j \in 1..(Len(s) - (n + 1) + 1) : b[j] = s[(n + 1) + j - 1]
    BY <1>1, <2>1, SubSeqProperties
  <2>3. Len(b) = Len(s) - n
    <3>1. \A l \in Nat : \A k \in 0..l :
            (IF k + 1 <= l THEN l - (k + 1) + 1 ELSE 0) = l - k
      OBVIOUS
    <3> QED
      BY <1>1, <2>2, <3>1
  <2>4. ASSUME NEW j \in 1..(Len(s) - n) PROVE b[j] = s[n + j]
    <3>1. j \in 1..(Len(s) - (n + 1) + 1) /\ (n + 1) + j - 1 = n + j
      BY <1>1
    <3> QED
      BY <2>2, <3>1
  <2> QED
    BY <2>2, <2>3, <2>4
<1>5. DOMAIN b = 1..(Len(s) - n)
  BY <1>4, LenProperties
<1>6. \A j \in 1..n : j \in 1..Len(s)
  BY <1>1
<1>7. \A j \in 1..(Len(s) - n) : n + j \in 1..Len(s) /\ n + j \notin 1..n /\ j \in Nat
  BY <1>1
<1>8. \A j \in 1..Len(s) : j \in 1..n \/ (j - n \in 1..(Len(s) - n) /\ s[j] = b[j - n])
  <2>1. ASSUME NEW j \in 1..Len(s), j \notin 1..n
        PROVE  j - n \in 1..(Len(s) - n) /\ n + (j - n) = j
    BY <1>1, <2>1
  <2> QED
    BY <1>4, <2>1
<1>9. Range(a) \subseteq Range(s)
  BY <1>1, <1>2, <1>3, <1>6 DEF Range
<1>10. Range(b) \subseteq Range(s)
  BY <1>1, <1>4, <1>5, <1>7 DEF Range
<1>11. Range(s) \subseteq Range(a) \cup Range(b)
  <2>1. ASSUME NEW j \in 1..Len(s) PROVE s[j] \in Range(a) \cup Range(b)
    <3>1. CASE j \in 1..n
      BY <1>2, <1>3, <3>1 DEF Range
    <3>2. CASE j - n \in 1..(Len(s) - n) /\ s[j] = b[j - n]
      BY <1>5, <3>2 DEF Range
    <3> QED
      BY <1>8, <3>1, <3>2
  <2> QED
    BY <1>1, <2>1 DEF Range
<1> QED
  BY <1>1, <1>2, <1>3, <1>4, <1>5, <1>6, <1>7, <1>9, <1>10, <1>11

\* Every element of a finite set, once, in some order.
LEMMA SequenceOf ==
  ASSUME NEW S, IsFiniteSet(S)
  PROVE  /\ SetToSeq(S) \in Seq(S) /\ Range(SetToSeq(S)) = S
         /\ IsInjective(SetToSeq(S))
<1> DEFINE n == Cardinality(S)
           q == SetToSeq(S)
<1>1. n \in Nat /\ ExistsBijection(1..n, S)
  BY FS_CardinalityType
<1>2. PICK f \in [1..n -> S] : IsInjective(f)
  BY <1>1 DEF ExistsBijection, Bijection, Injection, IsInjective
<1>3. q \in [1..n -> S] /\ IsInjective(q)
  BY <1>2 DEF SetToSeq
<1>4. q \in Injection(1..n, S)
  BY <1>3 DEF Injection, IsInjective
<1>5. IsFiniteSet(1..n) /\ Cardinality(1..n) = n
  BY <1>1, FS_Interval
<1>6. q \in Surjection(1..n, S)
  <2> HIDE DEF q, n
  <2> QED
    BY <1>4, <1>5, FS_Injection DEF n
<1>7. Range(q) = S
  BY <1>6 DEF Range, Surjection
<1>8. q \in Seq(S)
  BY <1>1, <1>3, SeqDef
<1> QED
  BY <1>3, <1>7, <1>8

\* A set of numbers that is not empty has a least element.
LEMMA LeastOf ==
  ASSUME NEW S, S \subseteq Nat, S # {}
  PROVE  Min(S) \in S /\ \A x \in S : Min(S) <= x
<1> DEFINE R == {p \in Nat \X Nat : p[1] < p[2]}
<1>1. OpToRel(<, Nat) = R
  BY DEF OpToRel
<1>2. IsWellFoundedOn(R, Nat)
  BY <1>1, NatLessThanWellFounded
<1>3. PICK x \in S : \A y \in S : ~(<<y, x>> \in R)
  <2> HIDE DEF R
  <2> QED
    BY <1>2, WFMin
<1>4. ASSUME NEW y \in S PROVE x <= y
  <2>1. x \in Nat /\ y \in Nat
    OBVIOUS
  <2>2. ~(<<y, x>>[1] < <<y, x>>[2])
    BY <1>3, <2>1
  <2> QED
    BY <2>1, <2>2
<1> QED
  BY <1>4 DEF Min

-----------------------------------------------------------------------------
(* Queues of numbers in increasing order.                                  *)

Increasing(s) == \A j, k \in DOMAIN s : j < k => s[j] < s[k]

\* The head of an increasing queue is less than what comes after it.
LEMMA IncreasingTail ==
  ASSUME NEW s \in Seq(Nat), s # <<>>, Increasing(s)
  PROVE  Increasing(Tail(s)) /\ \A x \in Range(Tail(s)) : Head(s) < x
<1>1. /\ 1 \in DOMAIN s /\ Head(s) = s[1]
      /\ \A j \in DOMAIN Tail(s) :
            j + 1 \in DOMAIN s /\ Tail(s)[j] = s[j + 1] /\ j \in Nat \ {0}
  BY TailOf
<1>2. \A j \in DOMAIN Tail(s) : 1 < j + 1
  BY <1>1
<1>3. \A x \in Range(Tail(s)) : Head(s) < x
  BY <1>1, <1>2 DEF Increasing, Range
<1>4. \A j, k \in DOMAIN Tail(s) : j < k => j + 1 < k + 1
  BY <1>1
<1>5. Increasing(Tail(s))
  BY <1>1, <1>4 DEF Increasing
<1> QED
  BY <1>3, <1>5

\* What comes last is greater.
LEMMA IncreasingAppend ==
  ASSUME NEW s \in Seq(Nat), NEW e \in Nat, Increasing(s),
         \A x \in Range(s) : x < e
  PROVE  Increasing(Append(s, e))
<1>1. /\ DOMAIN Append(s, e) = DOMAIN s \cup {Len(s) + 1}
      /\ \A j \in DOMAIN s : Append(s, e)[j] = s[j] /\ j # Len(s) + 1
      /\ Append(s, e)[Len(s) + 1] = e
  BY AppendTo
<1>2. Len(s) \in Nat /\ DOMAIN s = 1..Len(s)
  BY LenProperties
<1>3. \A j \in DOMAIN s : s[j] < e
  BY DEF Range
<1>4. \A k \in DOMAIN Append(s, e) : ~(Len(s) + 1 < k)
  BY <1>1, <1>2
<1> QED
  BY <1>1, <1>3, <1>4 DEF Increasing

\* The parts of an increasing queue.
LEMMA IncreasingCut ==
  ASSUME NEW s \in Seq(Nat), NEW n \in 0..Len(s), Increasing(s)
  PROVE  /\ Increasing(SubSeq(s, 1, n))
         /\ Increasing(SubSeq(s, n + 1, Len(s)))
         /\ \A x \in Range(SubSeq(s, 1, n)), y \in Range(SubSeq(s, n + 1, Len(s))) : x < y
<1> DEFINE a == SubSeq(s, 1, n)
           b == SubSeq(s, n + 1, Len(s))
<1>1. /\ DOMAIN a = 1..n
      /\ \A j \in 1..n : a[j] = s[j] /\ j \in DOMAIN s
      /\ \A j \in DOMAIN b :
            b[j] = s[n + j] /\ n + j \in DOMAIN s /\ n + j \notin 1..n /\ j \in Nat
  BY CutAt
<1>2. Len(s) \in Nat /\ DOMAIN s = 1..Len(s) /\ n \in Nat
  BY LenProperties
<1> HIDE DEF a, b
<1>3. Increasing(a)
  BY <1>1 DEF Increasing
<1>4. \A j, k \in DOMAIN b : j < k => n + j < n + k
  BY <1>1, <1>2
<1>5. Increasing(b)
  BY <1>1, <1>4 DEF Increasing
<1>6. \A j \in DOMAIN a, k \in DOMAIN b : j < n + k
  BY <1>1, <1>2
<1>7. \A x \in Range(a), y \in Range(b) : x < y
  BY <1>1, <1>6 DEF Increasing, Range
<1> QED
  BY <1>3, <1>5, <1>7 DEF a, b

\* An increasing queue goes on increasing in another one, as long as all that
\* is in the one is less than all that is in the other.
LEMMA IncreasingConcat ==
  ASSUME NEW s \in Seq(Nat), NEW r \in Seq(Nat), Increasing(s), Increasing(r),
         \A x \in Range(s), y \in Range(r) : x < y
  PROVE  /\ Increasing(s \o r)
         /\ \A j \in DOMAIN (s \o r) : (s \o r)[j] \in Range(s) \cup Range(r)
         /\ s \o r \in Seq(Nat) /\ Range(s \o r) \subseteq Range(s) \cup Range(r)
<1> DEFINE l == s \o r
<1>1. /\ Len(s) \in Nat /\ DOMAIN s = 1..Len(s)
      /\ Len(r) \in Nat /\ DOMAIN r = 1..Len(r)
  BY LenProperties
<1>2. /\ l \in Seq(Nat) /\ Len(l) = Len(s) + Len(r)
      /\ \A i \in 1..Len(s) + Len(r) :
            l[i] = IF i <= Len(s) THEN s[i] ELSE r[i - Len(s)]
  BY ConcatProperties
<1>3. DOMAIN l = 1..(Len(s) + Len(r))
  BY <1>2, LenProperties
<1> HIDE DEF l
<1>4. ASSUME NEW j \in DOMAIN l
      PROVE  \/ j \in DOMAIN s /\ l[j] = s[j]
             \/ j - Len(s) \in DOMAIN r /\ l[j] = r[j - Len(s)] /\ j \in Nat /\ Len(s) < j
  BY <1>1, <1>2, <1>3
<1>5. \A j \in DOMAIN l : l[j] \in Range(s) \cup Range(r)
  BY <1>4 DEF Range
<1>6. ASSUME NEW j \in DOMAIN l, NEW k \in DOMAIN l, j < k
      PROVE  l[j] < l[k]
  <2>1. CASE k \in DOMAIN s /\ l[k] = s[k]
    <3>1. j \in DOMAIN s /\ l[j] = s[j]
      BY <1>1, <1>3, <1>4, <1>6, <2>1
    <3> QED
      BY <1>6, <2>1, <3>1 DEF Increasing
  <2>2. CASE k - Len(s) \in DOMAIN r /\ l[k] = r[k - Len(s)]
    <3>1. CASE j \in DOMAIN s /\ l[j] = s[j]
      BY <2>2, <3>1 DEF Range
    <3>2. CASE j - Len(s) \in DOMAIN r /\ l[j] = r[j - Len(s)]
      <4>1. j - Len(s) < k - Len(s)
        BY <1>1, <1>3, <1>6
      <4> QED
        BY <2>2, <3>2, <4>1 DEF Increasing
    <3> QED
      BY <1>4, <3>1, <3>2
  <2> QED
    BY <1>4, <2>1, <2>2
<1>7. Range(l) \subseteq Range(s) \cup Range(r)
  BY <1>5 DEF Range
<1> QED
  BY <1>2, <1>5, <1>6, <1>7 DEF Increasing, l

=============================================================================
