------------------------------ MODULE ListFacts ------------------------------
(***************************************************************************)
(* Lemmas about lists without repetitions, for the proofs about the ready  *)
(* list, the sleep list and the waiter lists of the runtime, and some about *)
(* numbers, which stand in for induction and for recursive definitions.    *)
(***************************************************************************)
EXTENDS Integers, Sequences, Functions, SequenceTheorems, WellFoundedInduction, TLAPS

\* Appending any element.
LEMMA AppendRange ==
  ASSUME NEW S, NEW s \in Seq(S), NEW e \in S
  PROVE  /\ Append(s, e) \in Seq(S)
         /\ Len(Append(s, e)) = Len(s) + 1
         /\ \A i \in 1..Len(s) : Append(s, e)[i] = s[i]
         /\ Append(s, e)[Len(s) + 1] = e
         /\ Range(Append(s, e)) = Range(s) \cup {e}
<1> DEFINE a == Append(s, e)
<1>1. /\ a \in Seq(S) /\ Len(a) = Len(s) + 1
      /\ DOMAIN s = 1..Len(s)
      /\ DOMAIN a = 1..(Len(s) + 1)
      /\ \A i \in 1..Len(s) : a[i] = s[i]
      /\ a[Len(s) + 1] = e
      /\ Len(s) \in Nat
  OBVIOUS
<1> HIDE DEF a
<1>2. \A x \in Range(a) : x \in Range(s) \cup {e}
  BY <1>1 DEF Range
<1>3. \A x \in Range(s) \cup {e} : x \in Range(a)
  BY <1>1 DEF Range
<1> QED BY <1>1, <1>2, <1>3 DEF a

\* Appending a new element.
LEMMA AppendFacts ==
  ASSUME NEW S, NEW s \in Seq(S), NEW e \in S, IsInjective(s), e \notin Range(s)
  PROVE  /\ Append(s, e) \in Seq(S)
         /\ IsInjective(Append(s, e))
         /\ Range(Append(s, e)) = Range(s) \cup {e}
<1> DEFINE a == Append(s, e)
<1>1. /\ a \in Seq(S)
      /\ DOMAIN s = 1..Len(s)
      /\ DOMAIN a = 1..(Len(s) + 1)
      /\ \A i \in 1..Len(s) : a[i] = s[i]
      /\ a[Len(s) + 1] = e
      /\ Len(s) \in Nat
  OBVIOUS
<1> HIDE DEF a
<1>2. \A i \in 1..Len(s) : s[i] \in Range(s)
  BY <1>1 DEF Range
<1>3. IsInjective(a)
  BY <1>1, <1>2 DEF IsInjective
<1>4. Range(a) = Range(s) \cup {e}
  <2>1. \A x \in Range(a) : x \in Range(s) \cup {e}
    BY <1>1, <1>2 DEF Range
  <2>2. \A x \in Range(s) : x \in Range(a)
    BY <1>1 DEF Range
  <2>3. e \in Range(a)
    BY <1>1 DEF Range
  <2> QED BY <2>1, <2>2, <2>3
<1> QED BY <1>1, <1>3, <1>4 DEF a

\* Removing the first element.
LEMMA TailFacts ==
  ASSUME NEW S, NEW s \in Seq(S), s # <<>>, IsInjective(s)
  PROVE  /\ Head(s) \in S
         /\ Head(s) \in Range(s)
         /\ Tail(s) \in Seq(S)
         /\ IsInjective(Tail(s))
         /\ Range(Tail(s)) = Range(s) \ {Head(s)}
<1> DEFINE r == Tail(s)
<1>1. /\ r \in Seq(S)
      /\ Head(s) = s[1]
      /\ Head(s) \in S
      /\ Len(s) \in Nat \ {0}
      /\ DOMAIN s = 1..Len(s)
      /\ DOMAIN r = 1..(Len(s) - 1)
      /\ \A i \in 1..(Len(s) - 1) : r[i] = s[i + 1]
  OBVIOUS
<1> HIDE DEF r
<1>2. IsInjective(r)
  <2> SUFFICES ASSUME NEW i \in 1..(Len(s) - 1), NEW j \in 1..(Len(s) - 1), r[i] = r[j]
               PROVE  i = j
    BY <1>1 DEF IsInjective
  <2>1. i + 1 \in DOMAIN s /\ j + 1 \in DOMAIN s /\ s[i + 1] = s[j + 1]
    BY <1>1
  <2>2. i + 1 = j + 1
    BY <2>1 DEF IsInjective
  <2> QED BY <2>2
<1>3. Head(s) \in Range(s)
  BY <1>1 DEF Range
<1>4. Range(r) = Range(s) \ {Head(s)}
  <2>1. \A x \in Range(r) : x \in Range(s) /\ x # Head(s)
    BY <1>1 DEF Range, IsInjective
  <2>2. ASSUME NEW x \in Range(s), x # Head(s) PROVE x \in Range(r)
    <3>1. PICK i \in 1..Len(s) : x = s[i]
      BY <1>1 DEF Range
    <3>2. i # 1 /\ i - 1 \in 1..(Len(s) - 1) /\ r[i - 1] = x
      BY <1>1, <2>2, <3>1
    <3> QED BY <1>1, <3>2 DEF Range
  <2> QED BY <2>1, <2>2
<1> QED BY <1>1, <1>2, <1>3, <1>4 DEF r

\* The concatenation of three lists, by position.
LEMMA ConcatThree ==
  ASSUME NEW S, NEW a \in Seq(S), NEW b \in Seq(S), NEW c \in Seq(S)
  PROVE  /\ a \o b \o c \in Seq(S)
         /\ Len(a \o b \o c) = Len(a) + Len(b) + Len(c)
         /\ \A i \in 1..(Len(a) + Len(b) + Len(c)) :
              (a \o b \o c)[i] =
                IF i <= Len(a) THEN a[i]
                ELSE IF i <= Len(a) + Len(b) THEN b[i - Len(a)]
                ELSE c[i - Len(a) - Len(b)]
  OBVIOUS

\* A list with an element put behind the first k.
Inserted(s, k, e) == SubSeq(s, 1, k) \o <<e>> \o SubSeq(s, k+1, Len(s))

\* What that list holds, by position.
IsInserted(n, s, k, e) ==
  /\ Len(n) = Len(s) + 1
  /\ \A i \in 1..(Len(s) + 1) :
       n[i] = IF i <= k THEN s[i] ELSE IF i = k + 1 THEN e ELSE s[i - 1]

\* Inserting an element after the first k, by position.
LEMMA InsertPositions ==
  ASSUME NEW S, NEW s \in Seq(S), NEW e \in S, NEW k \in 0..Len(s)
  PROVE  /\ Inserted(s, k, e) \in Seq(S)
         /\ IsInserted(Inserted(s, k, e), s, k, e)
<1> DEFINE a == SubSeq(s, 1, k)
           b == <<e>>
           c == SubSeq(s, k+1, Len(s))
<1>0. /\ Len(s) \in Nat /\ k \in Nat /\ k <= Len(s)
      /\ DOMAIN s = 1..Len(s)
  OBVIOUS
<1>1. /\ a \in Seq(S) /\ Len(a) = k
      /\ c \in Seq(S) /\ Len(c) = Len(s) - k
      /\ \A i \in 1..k : a[i] = s[i]
      /\ \A i \in 1..(Len(s) - k) : c[i] = s[k + i]
  OBVIOUS
<1>2. b \in Seq(S) /\ Len(b) = 1 /\ b[1] = e OBVIOUS
<1> HIDE DEF a, b, c
<1> DEFINE n == a \o b \o c
<1>3. /\ n \in Seq(S) /\ Len(n) = Len(a) + Len(b) + Len(c)
      /\ \A i \in 1..(Len(a) + Len(b) + Len(c)) :
           n[i] = IF i <= Len(a) THEN a[i]
                  ELSE IF i <= Len(a) + Len(b) THEN b[i - Len(a)]
                  ELSE c[i - Len(a) - Len(b)]
  <2>1. a \in Seq(S)
    BY <1>1
  <2>2. b \in Seq(S)
    BY <1>2
  <2>3. c \in Seq(S)
    BY <1>1
  <2> QED BY <2>1, <2>2, <2>3, ConcatThree
<1> HIDE DEF n
<1>4. ASSUME NEW i \in 1..(Len(s) + 1)
      PROVE  n[i] = IF i <= k THEN s[i] ELSE IF i = k + 1 THEN e ELSE s[i - 1]
  <2>1. n[i] = IF i <= k THEN a[i] ELSE IF i <= k + 1 THEN b[i - k] ELSE c[i - k - 1]
    BY <1>0, <1>1, <1>2, <1>3
  <2>2. CASE i <= k
    BY <1>0, <1>1, <2>1, <2>2
  <2>3. CASE i = k + 1
    BY <1>0, <1>1, <1>2, <2>1, <2>3
  <2>4. CASE i > k + 1
    <3>1. i - k - 1 \in 1..(Len(s) - k) /\ k + (i - k - 1) = i - 1
      BY <1>0, <1>1, <2>4
    <3>2. c[i - k - 1] = s[i - 1]
      BY <1>0, <1>1, <3>1
    <3>3. n[i] = c[i - k - 1]
      BY <1>0, <1>1, <2>1, <2>4
    <3> QED BY <1>0, <1>1, <2>4, <3>2, <3>3
  <2> QED BY <1>0, <1>1, <2>2, <2>3, <2>4
<1>5. n \in Seq(S) /\ Len(n) = Len(s) + 1
  BY <1>0, <1>1, <1>2, <1>3
<1>6. n = Inserted(s, k, e)
  BY DEF Inserted, n, a, b, c
<1> QED BY <1>4, <1>5, <1>6 DEF IsInserted

\* Inserting a new element after the first k keeps a list without duplicates so.
LEMMA InsertFacts ==
  ASSUME NEW S, NEW s \in Seq(S), NEW e \in S, NEW k \in 0..Len(s),
         IsInjective(s), e \notin Range(s)
  PROVE  /\ Inserted(s, k, e) \in Seq(S)
         /\ IsInjective(Inserted(s, k, e))
         /\ Range(Inserted(s, k, e)) = Range(s) \cup {e}
<1> DEFINE n == Inserted(s, k, e)
<1>0. /\ Len(s) \in Nat /\ k \in Nat /\ k <= Len(s)
      /\ DOMAIN s = 1..Len(s)
  OBVIOUS
<1> HIDE DEF n
<1>5. n \in Seq(S) /\ IsInserted(n, s, k, e)
  BY InsertPositions, Zenon DEF n
<1>6. /\ n \in Seq(S)
      /\ Len(n) = Len(s) + 1
      /\ \A i \in 1..(Len(s) + 1) :
           n[i] = IF i <= k THEN s[i] ELSE IF i = k + 1 THEN e ELSE s[i - 1]
  BY <1>5 DEF IsInserted
<1>7. DOMAIN n = 1..(Len(s) + 1)
  BY <1>6
<1>8. \A i \in 1..Len(s) : s[i] \in Range(s)
  BY <1>0 DEF Range
<1>9. IsInjective(n)
  <2>1. SUFFICES ASSUME NEW i \in 1..(Len(s) + 1), NEW j \in 1..(Len(s) + 1), i < j
                 PROVE  n[i] # n[j]
    BY <1>0, <1>7 DEF IsInjective
  <2>2. \A x, y \in 1..Len(s) : x < y => s[x] # s[y]
    BY <1>0 DEF IsInjective
  <2>3. CASE j <= k
    BY <1>0, <1>6, <2>1, <2>2, <2>3
  <2>4. CASE j = k + 1
    BY <1>0, <1>6, <1>8, <2>1, <2>4
  <2>5. CASE j > k + 1 /\ i = k + 1
    BY <1>0, <1>6, <1>8, <2>1, <2>5
  <2>6. CASE j > k + 1 /\ i <= k
    BY <1>0, <1>6, <2>1, <2>2, <2>6
  <2>7. CASE j > k + 1 /\ i > k + 1
    <3>1. n[i] = s[i - 1] /\ n[j] = s[j - 1]
      BY <1>0, <1>6, <2>1, <2>7
    <3>2. i - 1 \in 1..Len(s) /\ j - 1 \in 1..Len(s) /\ i - 1 < j - 1
      BY <1>0, <2>1, <2>7
    <3> QED BY <2>2, <3>1, <3>2
  <2> QED BY <1>0, <2>3, <2>4, <2>5, <2>6, <2>7
<1>10. Range(n) = Range(s) \cup {e}
  <2>1. ASSUME NEW x \in Range(n) PROVE x \in Range(s) \cup {e}
    <3>1. PICK i \in 1..(Len(s) + 1) : x = n[i]
      BY <1>7 DEF Range
    <3>2. i > k + 1 => i - 1 \in 1..Len(s)
      BY <1>0
    <3> QED BY <1>0, <1>6, <1>8, <3>1, <3>2
  <2>2. e \in Range(n)
    <3>1. k + 1 \in 1..(Len(s) + 1) /\ n[k + 1] = e
      BY <1>0, <1>6
    <3> QED BY <1>7, <3>1 DEF Range
  <2>3. ASSUME NEW x \in Range(s) PROVE x \in Range(n)
    <3>1. PICK i \in 1..Len(s) : x = s[i]
      BY <1>0 DEF Range
    <3>2. CASE i <= k
      BY <1>0, <1>6, <1>7, <3>1, <3>2 DEF Range
    <3>3. CASE i > k
      <4>1. i + 1 \in 1..(Len(s) + 1) /\ n[i + 1] = s[i]
        BY <1>0, <1>6, <1>7, <3>1, <3>3
      <4> QED BY <1>7, <3>1, <4>1 DEF Range
    <3> QED BY <1>0, <3>1, <3>2, <3>3
  <2> QED BY <2>1, <2>2, <2>3
<1> QED BY <1>6, <1>9, <1>10 DEF n

\* What the concatenation of two lists holds.
LEMMA ConcatFacts ==
  ASSUME NEW S, NEW s \in Seq(S), NEW t \in Seq(S)
  PROVE  /\ s \o t \in Seq(S)
         /\ Range(s \o t) = Range(s) \cup Range(t)
         /\ IsInjective(s \o t) <=> /\ IsInjective(s) /\ IsInjective(t)
                                   /\ Range(s) \cap Range(t) = {}
<1> DEFINE n == s \o t
<1>1. /\ n \in Seq(S)
      /\ Len(s) \in Nat /\ Len(t) \in Nat
      /\ DOMAIN s = 1..Len(s) /\ DOMAIN t = 1..Len(t)
      /\ DOMAIN n = 1..(Len(s) + Len(t))
      /\ \A i \in 1..(Len(s) + Len(t)) : n[i] = IF i <= Len(s) THEN s[i] ELSE t[i - Len(s)]
  OBVIOUS
<1> HIDE DEF n
<1>2. \A i \in 1..Len(s) : i \in DOMAIN n /\ n[i] = s[i]
  BY <1>1
<1>3. \A i \in 1..Len(t) : i + Len(s) \in DOMAIN n /\ n[i + Len(s)] = t[i]
  BY <1>1
<1>4. \A i \in DOMAIN n : i \in 1..Len(s) \/ (i - Len(s) \in 1..Len(t) /\ ~(i <= Len(s)))
  BY <1>1
<1>5. Range(n) = Range(s) \cup Range(t)
  <2>1. \A x \in Range(n) : x \in Range(s) \cup Range(t)
    <3> SUFFICES ASSUME NEW i \in DOMAIN n PROVE n[i] \in Range(s) \cup Range(t)
      BY DEF Range
    <3> QED BY <1>1, <1>4 DEF Range
  <2>2. \A i \in DOMAIN s : s[i] \in Range(n)
    BY <1>1, <1>2 DEF Range
  <2>3. \A i \in DOMAIN t : t[i] \in Range(n)
    BY <1>1, <1>3 DEF Range
  <2> QED BY <2>1, <2>2, <2>3 DEF Range
<1>6. ASSUME IsInjective(n)
      PROVE  IsInjective(s) /\ IsInjective(t) /\ Range(s) \cap Range(t) = {}
  <2>1. IsInjective(s)
    BY <1>1, <1>2, <1>6 DEF IsInjective
  <2>2. IsInjective(t)
    <3> SUFFICES ASSUME NEW i \in 1..Len(t), NEW j \in 1..Len(t), t[i] = t[j] PROVE i = j
      BY <1>1 DEF IsInjective
    <3>1. n[i + Len(s)] = n[j + Len(s)] /\ i + Len(s) \in DOMAIN n /\ j + Len(s) \in DOMAIN n
      BY <1>3
    <3>2. i + Len(s) = j + Len(s)
      BY <3>1, <1>6 DEF IsInjective
    <3> QED BY <3>2, <1>1
  <2>3. ASSUME NEW i \in 1..Len(s), NEW j \in 1..Len(t) PROVE s[i] # t[j]
    <3>1. i \in DOMAIN n /\ j + Len(s) \in DOMAIN n /\ n[i] = s[i] /\ n[j + Len(s)] = t[j]
      BY <1>2, <1>3
    <3>2. i # j + Len(s)
      BY <1>1
    <3> QED BY <3>1, <3>2, <1>6 DEF IsInjective
  <2> QED BY <2>1, <2>2, <2>3, <1>1 DEF Range
<1>7. ASSUME IsInjective(s), IsInjective(t), Range(s) \cap Range(t) = {}
      PROVE  IsInjective(n)
  <2>1. \A i \in 1..Len(s), j \in 1..Len(t) : s[i] # t[j]
    BY <1>1, <1>7 DEF Range
  <2> SUFFICES ASSUME NEW i \in DOMAIN n, NEW j \in DOMAIN n, i < j PROVE n[i] # n[j]
    BY <1>1 DEF IsInjective
  <2>2. CASE j <= Len(s)
    BY <2>2, <1>1, <1>7 DEF IsInjective
  <2>3. CASE i <= Len(s) /\ ~(j <= Len(s))
    BY <2>1, <2>3, <1>1, <1>4
  <2>4. CASE ~(i <= Len(s)) /\ ~(j <= Len(s))
    <3>1. /\ i - Len(s) \in 1..Len(t) /\ j - Len(s) \in 1..Len(t) /\ i - Len(s) # j - Len(s)
          /\ n[i] = t[i - Len(s)] /\ n[j] = t[j - Len(s)]
      BY <2>4, <1>1, <1>4
    <3> QED BY <3>1, <1>1, <1>7 DEF IsInjective
  <2> QED BY <2>2, <2>3, <2>4, <1>1
<1> QED BY <1>1, <1>5, <1>6, <1>7 DEF n

\* A list cut after the first k.
LEMMA SplitFacts ==
  ASSUME NEW S, NEW s \in Seq(S), NEW k \in 0..Len(s)
  PROVE  /\ SubSeq(s, 1, k) \in Seq(S)
         /\ SubSeq(s, k + 1, Len(s)) \in Seq(S)
         /\ Len(SubSeq(s, 1, k)) = k
         /\ Len(SubSeq(s, k + 1, Len(s))) = Len(s) - k
         /\ \A i \in 1..k : SubSeq(s, 1, k)[i] = s[i]
         /\ \A i \in 1..(Len(s) - k) : SubSeq(s, k + 1, Len(s))[i] = s[k + i]
         /\ s = SubSeq(s, 1, k) \o SubSeq(s, k + 1, Len(s))
<1> DEFINE a == SubSeq(s, 1, k)
           b == SubSeq(s, k + 1, Len(s))
<1>1. /\ Len(s) \in Nat /\ k \in Nat /\ k <= Len(s)
      /\ a \in Seq(S) /\ Len(a) = k
      /\ b \in Seq(S) /\ Len(b) = Len(s) - k
      /\ \A i \in 1..k : a[i] = s[i]
      /\ \A i \in 1..(Len(s) - k) : b[i] = s[k + i]
  OBVIOUS
<1> HIDE DEF a, b
<1> DEFINE n == a \o b
<1>2. /\ n \in Seq(S) /\ Len(n) = Len(s)
      /\ \A i \in 1..Len(s) : n[i] = IF i <= k THEN a[i] ELSE b[i - k]
  BY <1>1
<1> HIDE DEF n
<1>3. \A i \in 1..Len(s) : n[i] = s[i]
  <2> TAKE i \in 1..Len(s)
  <2>1. CASE i <= k
    BY <2>1, <1>1, <1>2
  <2>2. CASE ~(i <= k)
    <3>1. i - k \in 1..(Len(s) - k) /\ k + (i - k) = i
      BY <2>2, <1>1
    <3> QED BY <3>1, <2>2, <1>1, <1>2
  <2> QED BY <2>1, <2>2
<1>4. n = s
  BY <1>1, <1>2, <1>3
<1> QED BY <1>1, <1>4 DEF a, b, n

\* All but the last of a list without repetitions.
LEMMA FrontOnce ==
  ASSUME NEW S, NEW s \in Seq(S), s # <<>>, IsInjective(s)
  PROVE  /\ SubSeq(s, 1, Len(s) - 1) \in Seq(S)
         /\ Len(SubSeq(s, 1, Len(s) - 1)) = Len(s) - 1
         /\ \A i \in 1..(Len(s) - 1) : SubSeq(s, 1, Len(s) - 1)[i] = s[i] /\ s[i] # s[Len(s)]
         /\ IsInjective(SubSeq(s, 1, Len(s) - 1))
<1> DEFINE f == SubSeq(s, 1, Len(s) - 1)
<1>1. /\ Len(s) \in Nat \ {0} /\ DOMAIN s = 1..Len(s)
      /\ Len(s) - 1 \in 0..Len(s)
      /\ f \in Seq(S) /\ Len(f) = Len(s) - 1
      /\ \A i \in 1..(Len(s) - 1) : f[i] = s[i]
      /\ DOMAIN f = 1..(Len(s) - 1)
  <2>1. Len(s) \in Nat \ {0} /\ DOMAIN s = 1..Len(s)
    OBVIOUS
  <2> DEFINE k == Len(s) - 1
  <2>2. k \in 0..Len(s)
    BY <2>1
  <2> HIDE DEF k
  <2>5. /\ SubSeq(s, 1, k) \in Seq(S) /\ Len(SubSeq(s, 1, k)) = k
        /\ \A i \in 1..k : SubSeq(s, 1, k)[i] = s[i]
    BY <2>2, SplitFacts, ZenonT(30)
  <2> USE DEF k
  <2>3. /\ f \in Seq(S) /\ Len(f) = Len(s) - 1
        /\ \A i \in 1..(Len(s) - 1) : f[i] = s[i]
    BY <2>5, Zenon
  <2> HIDE DEF f
  <2>4. DOMAIN f = 1..(Len(s) - 1)
    BY <2>3
  <2> QED BY <2>1, <2>2, <2>3, <2>4
<1> HIDE DEF f
<1>2. \A i \in 1..(Len(s) - 1) : s[i] # s[Len(s)]
  BY <1>1 DEF IsInjective
<1>3. IsInjective(f)
  BY <1>1 DEF IsInjective
<1> QED BY <1>1, <1>2, <1>3 DEF f

\* The first element, and the rest.
LEMMA HeadTail ==
  ASSUME NEW S, NEW s \in Seq(S), s # <<>>
  PROVE  /\ Head(s) \in S /\ Tail(s) \in Seq(S)
         /\ <<Head(s)>> \in Seq(S)
         /\ Len(Tail(s)) = Len(s) - 1
         /\ s = <<Head(s)>> \o Tail(s)
<1>1. /\ Head(s) \in S /\ Tail(s) \in Seq(S) /\ Len(Tail(s)) = Len(s) - 1
      /\ Head(s) = s[1] /\ \A i \in 1..(Len(s) - 1) : Tail(s)[i] = s[i + 1]
      /\ Len(s) \in Nat \ {0}
  OBVIOUS
<1> DEFINE h == <<Head(s)>>
           t == Tail(s)
<1>2. h \in Seq(S) /\ Len(h) = 1 /\ h[1] = s[1]
  BY <1>1
<1>3. t \in Seq(S) /\ Len(t) = Len(s) - 1 /\ \A i \in 1..(Len(s) - 1) : t[i] = s[i + 1]
  BY <1>1
<1> HIDE DEF h, t
<1>4. /\ h \o t \in Seq(S) /\ Len(h \o t) = Len(s)
      /\ \A i \in 1..Len(s) : (h \o t)[i] = IF i <= 1 THEN h[i] ELSE t[i - 1]
  <2>1. /\ h \o t \in Seq(S) /\ Len(h \o t) = Len(h) + Len(t)
        /\ \A i \in 1..(Len(h) + Len(t)) :
             (h \o t)[i] = IF i <= Len(h) THEN h[i] ELSE t[i - Len(h)]
    <3>1. h \in Seq(S) /\ t \in Seq(S)
      BY <1>2, <1>3
    <3> QED BY <3>1
  <2>2. Len(h) + Len(t) = Len(s) /\ Len(h) = 1
    BY <1>1, <1>2, <1>3
  <2> QED BY <2>1, <2>2
<1>5. \A i \in 1..Len(s) : (h \o t)[i] = s[i]
  <2> TAKE i \in 1..Len(s)
  <2>1. i = 1 \/ (i - 1 \in 1..(Len(s) - 1) /\ i - 1 + 1 = i /\ ~(i <= 1))
    BY <1>1
  <2> QED BY <2>1, <1>1, <1>2, <1>3, <1>4, SMTT(30)
<1>6. h \o t = s
  <2> DEFINE n == h \o t
  <2>1. n \in Seq(S) /\ Len(n) = Len(s) /\ \A i \in 1..Len(s) : n[i] = s[i]
    BY <1>4, <1>5
  <2> HIDE DEF n
  <2>2. n = s
    BY <2>1
  <2> QED BY <2>2 DEF n
<1>7. h = <<Head(s)>> /\ t = Tail(s)
  BY DEF h, t
<1> QED BY <1>1, <1>2, <1>6, <1>7, Zenon

\* A set of naturals has a least element.
LEMMA LeastNat ==
  ASSUME NEW T, T \subseteq Nat, T # {}
  PROVE  \E n \in T : \A k \in T : n <= k
<1> DEFINE R == OpToRel(<, Nat)
<1>1. IsWellFoundedOn(R, Nat)
  BY NatLessThanWellFounded
<1>2. \A x, y \in Nat : x < y => <<x, y>> \in R
  BY DEF OpToRel
<1> HIDE DEF R
<1>3. PICK x \in T : \A y \in T : ~ (<<y, x>> \in R)
  BY <1>1, WFMin
<1>4. \A y \in T : ~ (y < x)
  BY <1>2, <1>3
<1>5. \A y \in T : y \in Nat /\ x \in Nat
  OBVIOUS
<1>6. \A y \in T : x <= y
  BY <1>4, <1>5
<1> QED BY <1>6

\* Numbers from 0 to n, one after the other.
LEMMA Induction ==
  ASSUME NEW n \in Nat, NEW P, 0 \in P,
         \A k \in 0..(n - 1) : k \in P => k + 1 \in P
  PROVE  \A k \in 0..n : k \in P
<1> DEFINE T == (0..n) \ P
<1>1. CASE T # {}
  <2>1. PICK k \in T : \A j \in T : k <= j
    <3>1. T \subseteq Nat
      OBVIOUS
    <3> HIDE DEF T
    <3> QED BY <1>1, <3>1, LeastNat
  <2>2. k \in 0..n /\ k \notin P
    OBVIOUS
  <2>3. k - 1 \in 0..(n - 1) /\ k - 1 \in 0..n /\ ~(k <= k - 1) /\ (k - 1) + 1 = k
    BY <2>2
  <2>4. k - 1 \in P
    BY <2>1, <2>3
  <2> QED BY <2>2, <2>3, <2>4
<1> QED BY <1>1

\* Ways to make n values, each of the one before, and the values made.
Steps(n, S) == [1..n -> [S -> S]]
MadeBy(G, n, S, a) == {f \in [0..n -> S] : f[0] = a /\ \A i \in 1..n : f[i] = G[i][f[i - 1]]}

\* The values can be made.
LEMMA Recursion ==
  ASSUME NEW n \in Nat, NEW S, NEW a \in S, NEW G \in Steps(n, S)
  PROVE  MadeBy(G, n, S, a) # {}
<1> USE DEF Steps, MadeBy
<1> DEFINE Good(k, f) == f[0] = a /\ \A i \in 1..k : f[i] = G[i][f[i - 1]]
           P == {k \in 0..n : \E f \in [0..k -> S] : Good(k, f)}
<1>1. 0 \in P
  <2> DEFINE g == [i \in 0..0 |-> a]
  <2>1. g \in [0..0 -> S] /\ g[0] = a
    OBVIOUS
  <2>2. 1..0 = {}
    OBVIOUS
  <2> HIDE DEF g
  <2>3. Good(0, g)
    BY <2>1, <2>2
  <2> QED BY <2>1, <2>3
<1>2. ASSUME NEW j \in 0..(n - 1), j \in P
      PROVE  j + 1 \in P
  <2>1. PICK f \in [0..j -> S] : Good(j, f)
    BY <1>2
  <2> DEFINE k == j + 1
             g == [i \in 0..k |-> IF i = k THEN G[k][f[j]] ELSE f[i]]
  <2>2. j \in 0..j /\ k \in 1..n /\ k \in 0..n
    OBVIOUS
  <2>3. G[k][f[j]] \in S
    BY <2>2
  <2>4. g \in [0..k -> S]
    BY <2>2, <2>3
  <2>5. (\A i \in 0..j : g[i] = f[i]) /\ g[k] = G[k][f[j]]
    OBVIOUS
  <2> HIDE DEF g
  <2>6. ASSUME NEW i \in 1..k
        PROVE  g[i] = G[i][g[i - 1]]
    <3>1. CASE i = k
      <4>1. i - 1 = j /\ j \in 0..j
        BY <3>1
      <4> QED BY <2>5, <3>1, <4>1
    <3>2. CASE i # k
      <4>1. i \in 1..j /\ i \in 0..j /\ i - 1 \in 0..j
        BY <3>2
      <4> QED BY <2>1, <2>5, <4>1
    <3> QED BY <3>1, <3>2
  <2>7. g[0] = a
    BY <2>1, <2>5
  <2>8. Good(k, g)
    BY <2>6, <2>7
  <2> QED BY <2>2, <2>4, <2>8
<1>3. n \in 0..n
  OBVIOUS
<1> HIDE DEF P
<1>4. n \in P
  BY <1>1, <1>2, <1>3, Induction
<1> QED BY <1>4 DEF P
=============================================================================
