--------------------------- MODULE SequenceLemmas ---------------------------
(***************************************************************************)
(* Facts about sequences without duplicates, as the lists of machines and  *)
(* the queue of connections are: what erase, push_back, insert and pop do  *)
(* to the set of elements.                                                 *)
(***************************************************************************)
EXTENDS Integers, SequencesExt, SequenceTheorems, TLAPS

\* std::find on a list against membership.
LEMMA ContainsIsMember ==
  ASSUME NEW S, NEW s \in Seq(S), NEW e
  PROVE  Contains(s, e) <=> e \in ToSet(s)
BY DEF Contains, ToSet

\* Erasing an element of a list without duplicates leaves the others.
LEMMA RemoveFirstInjective ==
  ASSUME NEW S, NEW s \in Seq(S), NEW e, IsInjective(s), Contains(s, e)
  PROVE  /\ RemoveFirst(s, e) \in Seq(S)
         /\ IsInjective(RemoveFirst(s, e))
         /\ ToSet(RemoveFirst(s, e)) = ToSet(s) \ {e}
<1> DEFINE n == Len(s)
<1>1. n \in Nat /\ DOMAIN s = 1 .. n /\ \A j \in 1 .. n : s[j] \in S
  OBVIOUS
<1>2. PICK i \in 1 .. n : s[i] = e
  BY DEF Contains
<1>3. \A j \in 1 .. n : s[j] = e => j = i
  BY <1>1, <1>2 DEF IsInjective
<1>4. SelectInSeq(s, LAMBDA v : v = e) = i
  <2> DEFINE I == {j \in 1 .. Len(s) : s[j] = e}
  <2>1. I = {i}
    BY <1>2, <1>3
  <2>2. Min(I) = i
    BY <2>1, <1>1 DEF Min
  <2> QED
    BY <2>1, <2>2 DEF SelectInSeq
<1> DEFINE a == SubSeq(s, 1, i - 1)
           b == SubSeq(s, i + 1, n)
           r == RemoveFirst(s, e)
<1>5. r = a \o b
  BY <1>2, <1>4 DEF RemoveFirst, RemoveAt
<1>6. a \in Seq(S) /\ Len(a) = i - 1 /\ \A j \in 1 .. i - 1 : a[j] = s[j]
  BY <1>1, SubSeqProperties
<1>7. b \in Seq(S) /\ Len(b) = n - i /\ \A j \in 1 .. n - i : b[j] = s[i + j]
  <2>1. \A j \in i + 1 .. n : s[j] \in S
    BY <1>1
  <2>2. /\ b \in Seq(S)
        /\ Len(b) = IF i + 1 <= n THEN n - (i + 1) + 1 ELSE 0
        /\ \A j \in 1 .. n - (i + 1) + 1 : b[j] = s[(i + 1) + j - 1]
    BY <1>1, <2>1, SubSeqProperties
  <2> HIDE DEF b
  <2>3. n \in Nat /\ i \in 1 .. n
    BY <1>1
  <2>4. \A j \in 1 .. n - i : (i + 1) + j - 1 = i + j
    BY <2>3
  <2> HIDE DEF n
  <2>5. n - (i + 1) + 1 = n - i /\ (i + 1 <= n <=> n - i # 0)
    BY <2>3
  <2>6. \A j \in 1 .. n - i : b[j] = s[i + j]
    <3> SUFFICES ASSUME NEW j \in 1 .. n - i PROVE b[j] = s[i + j]
      OBVIOUS
    <3>1. b[j] = s[(i + 1) + j - 1]
      BY <2>2, <2>5
    <3> QED
      BY <2>4, <3>1
  <2> QED
    BY <2>2, <2>3, <2>5, <2>6
<1>8. /\ r \in Seq(S) /\ Len(r) = n - 1
      /\ \A j \in 1 .. n - 1 : r[j] = IF j < i THEN s[j] ELSE s[j + 1]
  <2>1. /\ r \in Seq(S) /\ Len(r) = (i - 1) + (n - i)
        /\ \A j \in 1 .. (i - 1) + (n - i) :
             r[j] = IF j <= i - 1 THEN a[j] ELSE b[j - (i - 1)]
    <3> HIDE DEF a, b, r, n
    <3>1. /\ a \o b \in Seq(S) /\ Len(a \o b) = Len(a) + Len(b)
          /\ \A j \in 1 .. Len(a) + Len(b) :
               (a \o b)[j] = IF j <= Len(a) THEN a[j] ELSE b[j - Len(a)]
      BY <1>6, <1>7, ConcatProperties
    <3> QED
      BY <1>5, <1>6, <1>7, <3>1
  <2> HIDE DEF a, b, r, n
  <2> QED
    BY <1>1, <1>6, <1>7, <2>1
<1> HIDE DEF a, b, r
<1>9. DOMAIN r = 1 .. n - 1
  BY <1>8
<1>10. IsInjective(r)
  BY <1>1, <1>8, <1>9, SMTT(30) DEF IsInjective
<1>11. ToSet(r) \subseteq ToSet(s) \ {e}
  <2> SUFFICES ASSUME NEW j \in 1 .. n - 1
               PROVE  r[j] # e /\ \E k \in 1 .. n : s[k] = r[j]
    BY <1>1, <1>9 DEF ToSet
  <2>1. CASE j < i
    BY <1>1, <1>3, <1>8, <2>1
  <2>2. CASE j >= i
    BY <1>1, <1>3, <1>8, <2>2
  <2> QED
    BY <1>1, <2>1, <2>2
<1>12. ToSet(s) \ {e} \subseteq ToSet(r)
  <2> SUFFICES ASSUME NEW j \in 1 .. n, j # i
               PROVE  \E k \in 1 .. n - 1 : r[k] = s[j]
    BY <1>1, <1>2, <1>9 DEF ToSet
  <2>1. CASE j < i
    BY <1>1, <1>8, <2>1
  <2>2. CASE j > i
    <3>1. j - 1 \in 1 .. n - 1 /\ r[j - 1] = s[(j - 1) + 1]
      BY <1>1, <1>8, <2>2
    <3> QED
      BY <3>1
  <2> QED
    BY <2>1, <2>2
<1> QED
  BY <1>8, <1>10, <1>11, <1>12 DEF r

\* Appending a new element to a list without duplicates.
LEMMA ExtendInjective ==
  ASSUME NEW S, NEW s \in Seq(S), NEW e \in S, IsInjective(s), e \notin ToSet(s)
  PROVE  /\ Append(s, e) \in Seq(S)
         /\ IsInjective(Append(s, e))
         /\ ToSet(Append(s, e)) = ToSet(s) \cup {e}
<1>1. Len(s) \in Nat /\ DOMAIN s = 1 .. Len(s)
  OBVIOUS
<1>2. PICK r : r = Append(s, e)
  OBVIOUS
<1>3. /\ r \in Seq(S) /\ DOMAIN r = 1 .. Len(s) + 1
      /\ \A i \in 1 .. Len(s) : r[i] = s[i]
      /\ r[Len(s) + 1] = e
  BY <1>2, AppendProperties
<1>4. IsInjective(r)
  BY <1>1, <1>3 DEF IsInjective, ToSet
<1>5. ToSet(r) = ToSet(s) \cup {e}
  BY <1>1, <1>3 DEF ToSet
<1> QED
  BY <1>2, <1>3, <1>4, <1>5

\* Joining two lists without common elements.
LEMMA ConcatInjective ==
  ASSUME NEW S, NEW s \in Seq(S), NEW t \in Seq(S),
         IsInjective(s), IsInjective(t), ToSet(s) \cap ToSet(t) = {}
  PROVE  /\ s \o t \in Seq(S)
         /\ IsInjective(s \o t)
         /\ ToSet(s \o t) = ToSet(s) \cup ToSet(t)
<1> DEFINE r == s \o t
<1>1. /\ Len(s) \in Nat /\ DOMAIN s = 1 .. Len(s)
      /\ Len(t) \in Nat /\ DOMAIN t = 1 .. Len(t)
  OBVIOUS
<1>2. /\ r \in Seq(S) /\ DOMAIN r = 1 .. Len(s) + Len(t)
      /\ \A i \in 1 .. Len(s) + Len(t) :
           r[i] = IF i <= Len(s) THEN s[i] ELSE t[i - Len(s)]
  BY ConcatProperties
<1> HIDE DEF r
<1>3. \A i \in DOMAIN s : r[i] = s[i] /\ i \in DOMAIN r
  BY <1>1, <1>2
<1>4. \A i \in DOMAIN t : r[Len(s) + i] = t[i] /\ Len(s) + i \in DOMAIN r
  BY <1>1, <1>2
<1>5. \A i \in DOMAIN r : i \in DOMAIN s \/ i - Len(s) \in DOMAIN t
  BY <1>1, <1>2
<1>6. \A i \in DOMAIN s, j \in DOMAIN t : s[i] # t[j]
  BY DEF ToSet
<1>7. IsInjective(r)
  <2> SUFFICES ASSUME NEW i \in DOMAIN r, NEW j \in DOMAIN r, r[i] = r[j]
               PROVE  i = j
    BY DEF IsInjective
  <2>1. CASE i \in DOMAIN s /\ j \in DOMAIN s
    BY <2>1, <1>3 DEF IsInjective
  <2>2. CASE i \notin DOMAIN s /\ j \notin DOMAIN s
    <3>1. t[i - Len(s)] = t[j - Len(s)]
      BY <2>2, <1>1, <1>2
    <3>2. i - Len(s) = j - Len(s)
      BY <3>1, <2>2, <1>5 DEF IsInjective
    <3> QED
      BY <3>2, <1>1, <1>2
  <2>3. CASE i \in DOMAIN s /\ j \notin DOMAIN s
    BY <2>3, <1>1, <1>2, <1>5, <1>6
  <2>4. CASE i \notin DOMAIN s /\ j \in DOMAIN s
    BY <2>4, <1>1, <1>2, <1>5, <1>6
  <2> QED
    BY <2>1, <2>2, <2>3, <2>4
<1>8. ToSet(r) = ToSet(s) \cup ToSet(t)
  <2>1. ToSet(s) \cup ToSet(t) \subseteq ToSet(r)
    BY <1>3, <1>4 DEF ToSet
  <2>2. \A i \in DOMAIN r : r[i] \in ToSet(s) \cup ToSet(t)
    BY <1>1, <1>2, <1>5 DEF ToSet
  <2> QED
    BY <2>1, <2>2 DEF ToSet
<1> QED
  BY <1>2, <1>7, <1>8 DEF r

\* Taking the first element of a list without duplicates.
LEMMA TailInjective ==
  ASSUME NEW S, NEW s \in Seq(S), s # << >>, IsInjective(s)
  PROVE  /\ Head(s) \in S /\ Head(s) \in ToSet(s)
         /\ Tail(s) \in Seq(S) /\ Len(Tail(s)) = Len(s) - 1
         /\ IsInjective(Tail(s))
         /\ ToSet(Tail(s)) = ToSet(s) \ {Head(s)}
<1> DEFINE t == Tail(s)
<1>1. Len(s) \in Nat \ {0} /\ DOMAIN s = 1 .. Len(s) /\ s[1] = Head(s) /\ s[1] \in S
  OBVIOUS
<1>2. /\ t \in Seq(S) /\ DOMAIN t = 1 .. Len(s) - 1 /\ Len(t) = Len(s) - 1
      /\ \A i \in 1 .. Len(s) - 1 : t[i] = s[i + 1]
  BY HeadTailProperties
<1> HIDE DEF t
<1>3. IsInjective(t)
  BY <1>1, <1>2 DEF IsInjective
<1>4. ToSet(t) \subseteq ToSet(s) \ {Head(s)}
  BY <1>1, <1>2 DEF ToSet, IsInjective
<1>5. ToSet(s) \ {Head(s)} \subseteq ToSet(t)
  <2>1. ASSUME NEW i \in DOMAIN s, s[i] # s[1]
        PROVE  \E j \in DOMAIN t : t[j] = s[i]
    <3>1. i # 1
      BY <2>1
    <3>2. i - 1 \in DOMAIN t /\ (i - 1) + 1 = i
      BY <1>1, <1>2, <3>1
    <3>3. t[i - 1] = s[(i - 1) + 1]
      BY <1>2, <3>2
    <3>4. t[i - 1] = s[i]
      BY <3>2, <3>3
    <3> QED
      BY <3>2, <3>4
  <2>2. \A x \in ToSet(s) : \E i \in DOMAIN s : x = s[i]
    BY DEF ToSet
  <2>3. \A j \in DOMAIN t : t[j] \in ToSet(t)
    BY DEF ToSet
  <2> QED
    BY <1>1, <2>1, <2>2, <2>3
<1>6. Head(s) \in ToSet(s)
  BY <1>1 DEF ToSet
<1> QED
  BY <1>1, <1>2, <1>3, <1>4, <1>5, <1>6 DEF t

\* Two queues, one behind the other, are one: what the first of them does at its
\* head, and the second at its end, the whole does.
LEMMA QueueConcat ==
  ASSUME NEW S, NEW s \in Seq(S), NEW t \in Seq(S)
  PROVE  /\ s # << >> => Head(s \o t) = Head(s) /\ Tail(s \o t) = Tail(s) \o t
         /\ t # << >> => Append(s, Head(t)) \o Tail(t) = s \o t
         /\ \A e \in S : s \o Append(t, e) = Append(s \o t, e)
<1> DEFINE r == s \o t
<1>1. /\ Len(s) \in Nat /\ DOMAIN s = 1 .. Len(s) /\ \A i \in 1 .. Len(s) : s[i] \in S
      /\ Len(t) \in Nat /\ DOMAIN t = 1 .. Len(t) /\ \A i \in 1 .. Len(t) : t[i] \in S
  OBVIOUS
<1>2. /\ r \in Seq(S) /\ Len(r) = Len(s) + Len(t) /\ DOMAIN r = 1 .. Len(s) + Len(t)
      /\ \A i \in 1 .. Len(s) + Len(t) :
           r[i] = IF i <= Len(s) THEN s[i] ELSE t[i - Len(s)]
  BY ConcatProperties
<1> HIDE DEF r
<1>3. ASSUME s # << >> PROVE Head(r) = Head(s) /\ Tail(r) = Tail(s) \o t
  <2>1. Len(s) > 0 /\ r # << >>
    BY <1>1, <1>2, <1>3
  <2>2. Head(r) = r[1] /\ Head(s) = s[1]
    BY <2>1, <1>2, <1>3
  <2>3. /\ Tail(r) \in Seq(S) /\ Len(Tail(r)) = Len(s) + Len(t) - 1
        /\ \A i \in 1 .. Len(s) + Len(t) - 1 : Tail(r)[i] = r[i + 1]
    BY <1>2, <2>1, HeadTailProperties
  <2>4. /\ Tail(s) \in Seq(S) /\ Len(Tail(s)) = Len(s) - 1
        /\ \A i \in 1 .. Len(s) - 1 : Tail(s)[i] = s[i + 1]
    BY <1>3, HeadTailProperties
  <2> DEFINE u == Tail(s) \o t
  <2>5. /\ u \in Seq(S) /\ Len(u) = Len(s) - 1 + Len(t)
        /\ \A i \in 1 .. Len(s) - 1 + Len(t) :
             u[i] = IF i <= Len(s) - 1 THEN Tail(s)[i] ELSE t[i - (Len(s) - 1)]
    BY <2>4, ConcatProperties
  <2> HIDE DEF u
  <2>6. \A i \in 1 .. Len(s) + Len(t) - 1 : Tail(r)[i] = u[i]
    <3> TAKE i \in 1 .. Len(s) + Len(t) - 1
    <3>1. i + 1 \in 1 .. Len(s) + Len(t) /\ i \in 1 .. Len(s) - 1 + Len(t)
      BY <1>1
    <3>2. Tail(r)[i] = IF i + 1 <= Len(s) THEN s[i + 1] ELSE t[i + 1 - Len(s)]
      BY <1>2, <2>3, <3>1
    <3>3. CASE i + 1 <= Len(s)
      <4>1. i \in 1 .. Len(s) - 1
        BY <1>1, <3>3
      <4>2. Tail(r)[i] = s[i + 1]
        BY <3>2, <3>3
      <4>3. u[i] = Tail(s)[i]
        BY <1>1, <2>5, <3>1, <4>1
      <4> QED
        BY <2>4, <4>1, <4>2, <4>3
    <3>4. CASE ~(i + 1 <= Len(s))
      <4>1. ~(i <= Len(s) - 1) /\ i + 1 - Len(s) = i - (Len(s) - 1)
        BY <1>1, <3>4
      <4> QED
        BY <2>5, <3>1, <3>2, <3>4, <4>1
    <3> QED
      BY <3>3, <3>4
  <2>7. Tail(r) = u
    BY <1>1, <2>3, <2>5, <2>6, SeqEqual
  <2>8. r[1] = s[1]
    BY <1>1, <1>2, <2>1
  <2> QED
    BY <2>2, <2>7, <2>8 DEF u
<1>4. ASSUME t # << >> PROVE Append(s, Head(t)) \o Tail(t) = r
  <2>1. /\ Head(t) = t[1] /\ t[1] \in S /\ Tail(t) \in Seq(S) /\ <<t[1]>> \in Seq(S)
        /\ 1 \in 1 .. Len(t) /\ Len(t) \in 1 .. Len(t)
    BY <1>1, <1>4
  <2>2. t = <<t[1]>> \o Tail(t)
    <3>1. SubSeq(t, 1, Len(t)) = <<t[1]>> \o SubSeq(t, 1 + 1, Len(t))
      BY <2>1, SubSeqRecursiveFirst
    <3>2. SubSeq(t, 1, Len(t)) = t
      BY SubSeqFull
    <3>3. Tail(t) = SubSeq(t, 2, Len(t)) /\ 1 + 1 = 2
      BY <1>4, TailIsSubSeq
    <3> QED
      BY <3>1, <3>2, <3>3
  <2>3. Append(s, t[1]) = s \o <<t[1]>>
    BY <2>1, AppendIsConcat
  <2>4. (s \o <<t[1]>>) \o Tail(t) = s \o (<<t[1]>> \o Tail(t))
    BY <2>1, ConcatAssociative
  <2> QED
    BY <2>1, <2>2, <2>3, <2>4 DEF r
<1>5. ASSUME NEW e \in S PROVE s \o Append(t, e) = Append(r, e)
  <2>1. Append(t, e) = t \o <<e>> /\ Append(r, e) = r \o <<e>> /\ <<e>> \in Seq(S)
    BY <1>2, AppendIsConcat
  <2>2. r \o <<e>> = s \o (t \o <<e>>)
    BY <2>1, ConcatAssociative DEF r
  <2> QED
    BY <2>1, <2>2
<1> QED
  BY <1>3, <1>4, <1>5 DEF r

\* The first of the two queues and the second in the whole.
LEMMA QueueParts ==
  ASSUME NEW S, NEW s \in Seq(S), NEW t \in Seq(S)
  PROVE  /\ SubSeq(s \o t, 1, Len(s)) = s
         /\ {(s \o t)[i] : i \in Len(s) + 1 .. Len(s \o t)} = ToSet(t)
         /\ ToSet(s \o t) = ToSet(s) \cup ToSet(t)
<1> DEFINE r == s \o t
<1>1. /\ Len(s) \in Nat /\ DOMAIN s = 1 .. Len(s) /\ \A i \in 1 .. Len(s) : s[i] \in S
      /\ Len(t) \in Nat /\ DOMAIN t = 1 .. Len(t) /\ \A i \in 1 .. Len(t) : t[i] \in S
  OBVIOUS
<1>2. /\ r \in Seq(S) /\ Len(r) = Len(s) + Len(t) /\ DOMAIN r = 1 .. Len(s) + Len(t)
      /\ \A i \in 1 .. Len(s) + Len(t) :
           r[i] = IF i <= Len(s) THEN s[i] ELSE t[i - Len(s)]
  BY ConcatProperties
<1> HIDE DEF r
<1>3. SubSeq(r, 1, Len(s)) = s
  <2> DEFINE u == SubSeq(r, 1, Len(s))
  <2>1. \A i \in 1 .. Len(s) : r[i] = s[i] /\ r[i] \in S
    BY <1>1, <1>2
  <2>2. /\ u \in Seq(S) /\ Len(u) = IF 1 <= Len(s) THEN Len(s) - 1 + 1 ELSE 0
        /\ \A i \in 1 .. Len(s) - 1 + 1 : u[i] = r[1 + i - 1]
    BY <1>1, <2>1, SubSeqProperties
  <2> HIDE DEF u
  <2>3. Len(u) = Len(s) /\ \A i \in 1 .. Len(s) : u[i] = s[i]
    BY <1>1, <2>1, <2>2
  <2>4. u = s
    BY <2>2, <2>3, SeqEqual
  <2> QED
    BY <2>4 DEF u
<1>4. {r[i] : i \in Len(s) + 1 .. Len(r)} = ToSet(t)
  <2>1. ASSUME NEW i \in Len(s) + 1 .. Len(r)
        PROVE  r[i] \in ToSet(t)
    <3>1. i - Len(s) \in DOMAIN t /\ r[i] = t[i - Len(s)]
      BY <1>1, <1>2
    <3> QED
      BY <3>1 DEF ToSet
  <2>2. ASSUME NEW j \in DOMAIN t
        PROVE  \E i \in Len(s) + 1 .. Len(r) : r[i] = t[j]
    <3>1. /\ Len(s) + j \in Len(s) + 1 .. Len(r)
          /\ r[Len(s) + j] = t[Len(s) + j - Len(s)] /\ Len(s) + j - Len(s) = j
      BY <1>1, <1>2
    <3> QED
      BY <3>1
  <2> QED
    BY <2>1, <2>2 DEF ToSet
<1>5. ToSet(r) = ToSet(s) \cup ToSet(t)
  <2>1. \A i \in 1 .. Len(s) : r[i] = s[i]
    BY <1>1, <1>2
  <2>2. ToSet(r) = {r[i] : i \in 1 .. Len(s)} \cup {r[i] : i \in Len(s) + 1 .. Len(r)}
    <3>1. DOMAIN r = (1 .. Len(s)) \cup (Len(s) + 1 .. Len(r))
      BY <1>1, <1>2
    <3> QED
      BY <3>1, Zenon DEF ToSet
  <2>3. {r[i] : i \in 1 .. Len(s)} = ToSet(s)
    BY <1>1, <2>1 DEF ToSet
  <2> QED
    BY <1>4, <2>2, <2>3
<1> QED
  BY <1>3, <1>4, <1>5 DEF r

=============================================================================
