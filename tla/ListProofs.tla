------------------------------ MODULE ListProofs ------------------------------
(***************************************************************************)
(* Facts about sequences, of any length, that stand for the linked lists   *)
(* of the code: what putting an element in and taking one out does to the  *)
(* others.  A list of objects that holds none twice is injective, and what *)
(* matters of it is mostly its Range.  What a function that is recursive   *)
(* along a list computes is shown by NumberInduction.                      *)
(***************************************************************************)
EXTENDS Integers, Sequences, SequencesExt, FiniteSets, SequenceTheorems,
        FiniteSetTheorems, WellFoundedInduction, TLAPS

-----------------------------------------------------------------------------
(***************************************************************************)
(* Numbers.                                                                *)
(***************************************************************************)

\* Pairs of numbers, the first less than the second.
Less == {pair \in Nat \X Nat : pair[1] < pair[2]}

\* A set of numbers has a least one.
LEMMA LeastNumber ==
    ASSUME NEW T, T \subseteq Nat, T # {}
    PROVE  \E n \in T : \A m \in T : n <= m
<1>1. Less = OpToRel(<, Nat)
  BY DEF Less, OpToRel
<1>2. IsWellFoundedOn(Less, Nat)
  BY <1>1, NatLessThanWellFounded
<1>3. PICK n \in T : \A m \in T : ~ (<<m, n>> \in Less)
  BY <1>2, WFMin
<1>4. \A m, k \in Nat : m < k => <<m, k>> \in Less
  BY DEF Less
<1>5. ASSUME NEW m \in T
      PROVE  n <= m
  <2>1. m \in Nat /\ n \in Nat
    OBVIOUS
  <2>2. ~ (m < n)
    BY <1>3, <1>4, <2>1
  <2> QED BY <2>1, <2>2
<1> QED BY <1>5

\* A set that has 0, and with each number up to a bound the next one, has all
\* numbers up to the bound.
LEMMA NumberInduction ==
    ASSUME NEW S, NEW bound \in Nat, 0 \in S,
           \A n \in 0 .. bound - 1 : n \in S => n + 1 \in S
    PROVE  0 .. bound \subseteq S
<1> DEFINE T == (0 .. bound) \ S
<1> SUFFICES ASSUME T # {}
             PROVE  FALSE
  OBVIOUS
<1>1. PICK n \in T : \A m \in T : n <= m
  <2>1. T \subseteq Nat
    OBVIOUS
  <2> HIDE DEF T
  <2> QED BY <2>1, LeastNumber
<1>2. n - 1 \in 0 .. bound - 1
  BY <1>1
<1>3. n - 1 \in S
  <2> SUFFICES ASSUME n - 1 \notin S
               PROVE  FALSE
    OBVIOUS
  <2>1. n - 1 \in T
    BY <1>2
  <2>2. n <= n - 1
    BY <1>1, <2>1
  <2> QED BY <1>1, <2>2
<1>4. (n - 1) + 1 \in S
  BY <1>2, <1>3
<1> QED BY <1>1, <1>4

-----------------------------------------------------------------------------
(***************************************************************************)
(* One element more or less.                                               *)
(***************************************************************************)

\* RemoveAt drops one element and moves up those after it.
LEMMA RemoveAtElements ==
    ASSUME NEW S, NEW q \in Seq(S), NEW i \in 1 .. Len(q)
    PROVE  /\ RemoveAt(q, i) \in Seq(S)
           /\ Len(RemoveAt(q, i)) = Len(q) - 1
           /\ \A k \in 1 .. Len(q) - 1 :
                  RemoveAt(q, i)[k] = IF k < i THEN q[k] ELSE q[k + 1]
<1> DEFINE front == SubSeq(q, 1, i - 1)
           back  == SubSeq(q, i + 1, Len(q))
<1>1. /\ front \in Seq(S) /\ Len(front) = i - 1
      /\ \A k \in 1 .. i - 1 : front[k] = q[k]
  BY SubSeqProperties
<1>2. /\ back \in Seq(S) /\ Len(back) = Len(q) - i
      /\ \A k \in 1 .. Len(q) - i : back[k] = q[k + i]
  BY SubSeqProperties
<1>3. RemoveAt(q, i) = front \o back
  BY DEF RemoveAt
<1> HIDE DEF front, back
<1>4. /\ front \o back \in Seq(S) /\ Len(front \o back) = Len(front) + Len(back)
      /\ \A k \in 1 .. Len(front) + Len(back) :
             (front \o back)[k] = IF k <= Len(front) THEN front[k]
                                  ELSE back[k - Len(front)]
  BY <1>1, <1>2, ConcatProperties
<1>5. \A k \in 1 .. Len(q) - 1 :
          (front \o back)[k] = IF k < i THEN q[k] ELSE back[k - (i - 1)]
  BY <1>1, <1>2, <1>4
<1>6. \A k \in 1 .. Len(q) - 1 : k >= i => back[k - (i - 1)] = q[k + 1]
  <2> TAKE k \in 1 .. Len(q) - 1
  <2> HAVE k >= i
  <2>1. k - (i - 1) \in 1 .. Len(q) - i /\ k - (i - 1) + i = k + 1
    OBVIOUS
  <2> QED BY <1>2, <2>1
<1> QED BY <1>1, <1>2, <1>3, <1>4, <1>5, <1>6

\* InsertAt puts one element in and moves those from its place on.
LEMMA InsertAtElements ==
    ASSUME NEW S, NEW q \in Seq(S), NEW i \in 1 .. Len(q) + 1, NEW e \in S
    PROVE  /\ InsertAt(q, i, e) \in Seq(S)
           /\ Len(InsertAt(q, i, e)) = Len(q) + 1
           /\ \A k \in 1 .. i - 1 : InsertAt(q, i, e)[k] = q[k]
           /\ InsertAt(q, i, e)[i] = e
           /\ \A k \in i .. Len(q) : InsertAt(q, i, e)[k + 1] = q[k]
<1> DEFINE front == SubSeq(q, 1, i - 1)
           back  == SubSeq(q, i, Len(q))
           r     == (front \o <<e>>) \o back
<1>1. /\ front \in Seq(S) /\ Len(front) = i - 1
      /\ \A k \in 1 .. i - 1 : front[k] = q[k]
  BY SubSeqProperties
<1>2. /\ back \in Seq(S) /\ Len(back) = Len(q) - (i - 1)
      /\ \A k \in 1 .. Len(q) - (i - 1) : back[k] = q[k + (i - 1)]
  BY SubSeqProperties
<1>3. InsertAt(q, i, e) = r
  BY Zenon DEF InsertAt
<1> HIDE DEF front, back
<1> DEFINE first == front \o <<e>>
<1>4. /\ first \in Seq(S) /\ Len(first) = i
      /\ \A k \in 1 .. i - 1 : first[k] = q[k]
      /\ first[i] = e
  <2>1. <<e>> \in Seq(S) /\ Len(<<e>>) = 1 /\ <<e>>[1] = e
    OBVIOUS
  <2> QED BY <1>1, <2>1, ConcatProperties
<1> HIDE DEF first
<1>5. /\ first \o back \in Seq(S) /\ Len(first \o back) = Len(first) + Len(back)
      /\ \A k \in 1 .. Len(first) + Len(back) :
             (first \o back)[k] = IF k <= Len(first) THEN first[k]
                                  ELSE back[k - Len(first)]
  BY <1>2, <1>4, ConcatProperties
<1>6. r = first \o back
  BY DEF first
<1>7. \A k \in 1 .. i - 1 : (first \o back)[k] = q[k]
  BY <1>2, <1>4, <1>5
<1>8. (first \o back)[i] = e
  BY <1>2, <1>4, <1>5
<1>9. ASSUME NEW k \in i .. Len(q)
      PROVE  (first \o back)[k + 1] = q[k]
  <2>1. /\ k + 1 \in 1 .. Len(first) + Len(back)
        /\ ~ (k + 1 <= Len(first))
        /\ k + 1 - Len(first) = k - (i - 1)
    BY <1>2, <1>4
  <2>2. (first \o back)[k + 1] = back[k - (i - 1)]
    BY <1>5, <2>1
  <2>3. k - (i - 1) \in 1 .. Len(q) - (i - 1) /\ (k - (i - 1)) + (i - 1) = k
    OBVIOUS
  <2> QED BY <1>2, <2>2, <2>3
<1>10. Len(first \o back) = Len(q) + 1
  BY <1>2, <1>4, <1>5
<1>11. InsertAt(q, i, e) = first \o back
  BY <1>3, <1>6
<1> HIDE DEF r
<1> QED BY <1>5, <1>7, <1>8, <1>9, <1>10, <1>11

-----------------------------------------------------------------------------
(***************************************************************************)
(* Lists that hold no element twice.                                       *)
(***************************************************************************)

Lists(S) == {q \in Seq(S) : IsInjective(q)}

\* A list has a length, and its elements are of the set.
LEMMA ListTypes ==
    ASSUME NEW S, NEW q \in Lists(S)
    PROVE  /\ q \in Seq(S) /\ Len(q) \in Nat
           /\ DOMAIN q = 1 .. Len(q)
           /\ Range(q) = {q[i] : i \in 1 .. Len(q)}
           /\ Range(q) \subseteq S
           /\ \A i, j \in 1 .. Len(q) : q[i] = q[j] => i = j
           /\ q = <<>> <=> Range(q) = {}
<1>1. q \in Seq(S) /\ IsInjective(q)
  BY DEF Lists
<1>2. Len(q) \in Nat /\ DOMAIN q = 1 .. Len(q) /\ \A i \in 1 .. Len(q) : q[i] \in S
  BY <1>1
<1>3. Range(q) = {q[i] : i \in 1 .. Len(q)}
  BY <1>2 DEF Range
<1>4. q = <<>> <=> Range(q) = {}
  <2>1. q = <<>> <=> Len(q) = 0
    BY <1>1
  <2>2. Len(q) # 0 => 1 \in 1 .. Len(q)
    BY <1>2
  <2> QED BY <1>2, <1>3, <2>1, <2>2
<1> QED BY <1>1, <1>2, <1>3, <1>4 DEF IsInjective

\* The empty list is one.
LEMMA EmptyList ==
    ASSUME NEW S
    PROVE  <<>> \in Lists(S) /\ Range(<<>>) = {}
BY DEF Lists, IsInjective, Range

\* A new element at the head.
LEMMA PrependToList ==
    ASSUME NEW S, NEW q \in Lists(S), NEW e \in S, e \notin Range(q)
    PROVE  <<e>> \o q \in Lists(S) /\ Range(<<e>> \o q) = Range(q) \union {e}
<1> DEFINE r == <<e>> \o q
<1>1. /\ r \in Seq(S) /\ Len(r) = Len(q) + 1 /\ r[1] = e
      /\ \A k \in 2 .. Len(q) + 1 : r[k] = q[k - 1]
  <2>1. q \in Seq(S) /\ Len(q) \in Nat
    BY ListTypes
  <2>2. <<e>> \in Seq(S) /\ Len(<<e>>) = 1 /\ <<e>>[1] = e
    OBVIOUS
  <2> QED BY <2>1, <2>2, ConcatProperties
<1> HIDE DEF r
<1>2. Len(q) \in Nat /\ Range(q) = {q[i] : i \in 1 .. Len(q)}
  BY ListTypes
<1>3. DOMAIN r = 1 .. Len(q) + 1
  BY <1>1
<1>4. Range(r) = Range(q) \union {e}
  <2>1. \A k \in 1 .. Len(q) : k + 1 \in 2 .. Len(q) + 1 /\ (k + 1) - 1 = k
    BY <1>2
  <2>2. \A k \in 2 .. Len(q) + 1 : k - 1 \in 1 .. Len(q)
    BY <1>2
  <2>3. \A k \in 1 .. Len(q) + 1 : k = 1 \/ k \in 2 .. Len(q) + 1
    BY <1>2
  <2>4. Range(q) \union {e} \subseteq Range(r)
    <3>1. ASSUME NEW k \in 1 .. Len(q)
          PROVE  q[k] \in Range(r)
      <4>1. r[k + 1] = q[k] /\ k + 1 \in 1 .. Len(q) + 1
        BY <1>1, <1>2, <2>1
      <4> QED BY <1>3, <4>1 DEF Range
    <3>2. e \in Range(r)
      BY <1>1, <1>2, <1>3 DEF Range
    <3> QED BY <1>2, <3>1, <3>2
  <2>5. Range(r) \subseteq Range(q) \union {e}
    BY <1>1, <1>2, <1>3, <2>2, <2>3 DEF Range
  <2> QED BY <2>4, <2>5
<1>5. ASSUME NEW i \in 1 .. Len(q) + 1, NEW j \in 1 .. Len(q) + 1, r[i] = r[j]
      PROVE  i = j
  <2>1. \A k \in 2 .. Len(q) + 1 : r[k] # e
    BY <1>1, <1>2
  <2>2. CASE i = 1 \/ j = 1
    BY <1>1, <1>2, <1>5, <2>1, <2>2
  <2>3. CASE i # 1 /\ j # 1
    <3>1. /\ i - 1 \in 1 .. Len(q) /\ j - 1 \in 1 .. Len(q)
          /\ q[i - 1] = q[j - 1]
      BY <1>1, <1>2, <1>5, <2>3
    <3>2. i - 1 = j - 1
      BY <3>1, ListTypes
    <3> QED BY <1>2, <3>2
  <2> QED BY <2>2, <2>3
<1>6. IsInjective(r)
  BY <1>3, <1>5 DEF IsInjective
<1> QED BY <1>1, <1>4, <1>6 DEF Lists, r

\* Taking an element out, wherever it is.
LEMMA RemoveAtOfList ==
    ASSUME NEW S, NEW q \in Lists(S), NEW i \in 1 .. Len(q)
    PROVE  RemoveAt(q, i) \in Lists(S) /\ Range(RemoveAt(q, i)) = Range(q) \ {q[i]}
<1> DEFINE r == RemoveAt(q, i)
<1>1. /\ q \in Seq(S) /\ Len(q) \in Nat
      /\ Range(q) = {q[k] : k \in 1 .. Len(q)}
      /\ \A k, l \in 1 .. Len(q) : q[k] = q[l] => k = l
  BY ListTypes
<1>2. /\ r \in Seq(S) /\ Len(r) = Len(q) - 1
      /\ \A k \in 1 .. Len(q) - 1 : r[k] = IF k < i THEN q[k] ELSE q[k + 1]
  BY <1>1, RemoveAtElements
<1> HIDE DEF r
<1>3. DOMAIN r = 1 .. Len(q) - 1
  BY <1>1, <1>2
<1> DEFINE Old(k) == IF k < i THEN k ELSE k + 1
<1>4. \A k \in 1 .. Len(q) - 1 : /\ Old(k) \in 1 .. Len(q) /\ Old(k) # i
                                 /\ r[k] = q[Old(k)]
  BY <1>1, <1>2
<1>5. \A k \in 1 .. Len(q) : k # i => \E l \in 1 .. Len(q) - 1 : Old(l) = k
  <2> TAKE k \in 1 .. Len(q)
  <2> HAVE k # i
  <2>1. CASE k < i
    BY <1>1, <2>1
  <2>2. CASE k > i
    <3>1. k - 1 \in 1 .. Len(q) - 1 /\ Old(k - 1) = k
      BY <1>1, <2>2
    <3> QED BY <3>1
  <2> QED BY <1>1, <2>1, <2>2
<1>6. \A k, l \in 1 .. Len(q) - 1 : Old(k) = Old(l) => k = l
  BY <1>1
<1> HIDE DEF Old
<1>7. Range(r) = Range(q) \ {q[i]}
  <2>1. Range(r) \subseteq Range(q) \ {q[i]}
    BY <1>1, <1>3, <1>4 DEF Range
  <2>2. ASSUME NEW k \in 1 .. Len(q), q[k] # q[i]
        PROVE  q[k] \in Range(r)
    <3>1. PICK l \in 1 .. Len(q) - 1 : Old(l) = k
      BY <1>5, <2>2
    <3>2. r[l] = q[k]
      BY <1>4, <3>1
    <3> QED BY <1>3, <3>2 DEF Range
  <2> QED BY <1>1, <2>1, <2>2
<1>8. IsInjective(r)
  BY <1>1, <1>3, <1>4, <1>6 DEF IsInjective
<1> QED BY <1>2, <1>7, <1>8 DEF Lists, r

\* RemoveFirst takes an element out, if it is in the list.
LEMMA RemoveFromList ==
    ASSUME NEW S, NEW q \in Lists(S), NEW e
    PROVE  /\ RemoveFirst(q, e) \in Lists(S)
           /\ Range(RemoveFirst(q, e)) = Range(q) \ {e}
<1>1. /\ Len(q) \in Nat /\ Range(q) = {q[k] : k \in 1 .. Len(q)}
      /\ \A k, l \in 1 .. Len(q) : q[k] = q[l] => k = l
  BY ListTypes
<1>2. CASE e \notin Range(q)
  BY <1>1, <1>2 DEF RemoveFirst
<1>3. CASE e \in Range(q)
  <2>1. PICK i \in 1 .. Len(q) : q[i] = e
    BY <1>1, <1>3
  <2>2. {k \in 1 .. Len(q) : q[k] = e} = {i}
    BY <1>1, <2>1
  <2>3. Min({i}) = i
    BY DEF Min
  <2>4. SelectInSeq(q, LAMBDA v : v = e) = i
    BY <2>2, <2>3 DEF SelectInSeq
  <2>5. RemoveFirst(q, e) = RemoveAt(q, i)
    BY <2>1, <2>4 DEF RemoveFirst
  <2> QED BY <2>1, <2>5, RemoveAtOfList
<1> QED BY <1>2, <1>3

\* Taking the head off.
LEMMA TailOfList ==
    ASSUME NEW S, NEW q \in Lists(S), q # <<>>
    PROVE  /\ Head(q) \in Range(q)
           /\ Tail(q) \in Lists(S)
           /\ Range(Tail(q)) = Range(q) \ {Head(q)}
<1>1. /\ q \in Seq(S) /\ Len(q) \in Nat
      /\ Range(q) = {q[k] : k \in 1 .. Len(q)}
  BY ListTypes
<1>2. Len(q) # 0
  BY <1>1
<1>3. 1 \in 1 .. Len(q) /\ Head(q) = q[1]
  BY <1>1, <1>2
<1>4. /\ Tail(q) \in Seq(S) /\ Len(Tail(q)) = Len(q) - 1
      /\ \A k \in 1 .. Len(q) - 1 : Tail(q)[k] = q[k + 1]
  BY <1>1, HeadTailProperties
<1>5. /\ RemoveAt(q, 1) \in Seq(S) /\ Len(RemoveAt(q, 1)) = Len(q) - 1
      /\ \A k \in 1 .. Len(q) - 1 : RemoveAt(q, 1)[k] = q[k + 1]
  <2>1. \A k \in 1 .. Len(q) - 1 : ~ (k < 1)
    BY <1>1
  <2> QED BY <1>1, <1>3, <2>1, RemoveAtElements
<1>6. Tail(q) = RemoveAt(q, 1)
  BY <1>4, <1>5, SeqEqual
<1>7. Head(q) \in Range(q)
  BY <1>1, <1>3
<1>8. /\ RemoveAt(q, 1) \in Lists(S)
      /\ Range(RemoveAt(q, 1)) = Range(q) \ {q[1]}
  BY <1>3, RemoveAtOfList
<1> QED BY <1>3, <1>6, <1>7, <1>8

\* A list is as long as it has elements.
LEMMA LengthOfList ==
    ASSUME NEW S, NEW q \in Lists(S)
    PROVE  IsFiniteSet(Range(q)) /\ Cardinality(Range(q)) = Len(q)
<1>1. /\ q \in Seq(S) /\ Len(q) \in Nat /\ DOMAIN q = 1 .. Len(q)
      /\ Range(q) = {q[k] : k \in 1 .. Len(q)}
      /\ \A k, l \in 1 .. Len(q) : q[k] = q[l] => k = l
  BY ListTypes
<1>2. q \in [1 .. Len(q) -> Range(q)]
  BY <1>1
<1>3. q \in Bijection(1 .. Len(q), Range(q))
  BY <1>1, <1>2 DEF Bijection, Injection, Surjection, IsInjective
<1>4. ExistsBijection(1 .. Len(q), Range(q))
  BY <1>3 DEF ExistsBijection
<1> QED BY <1>1, <1>4, FS_NatBijection, FS_CountingElements

\* Two lists without a common element, one after the other.
LEMMA ConcatOfLists ==
    ASSUME NEW S, NEW p \in Lists(S), NEW q \in Lists(S),
           Range(p) \intersect Range(q) = {}
    PROVE  p \o q \in Lists(S) /\ Range(p \o q) = Range(p) \union Range(q)
<1> DEFINE r == p \o q
           m == Len(p)
           n == Len(q)
<1>1. /\ p \in Seq(S) /\ m \in Nat /\ Range(p) = {p[i] : i \in 1 .. m}
      /\ \A i, j \in 1 .. m : p[i] = p[j] => i = j
  BY ListTypes
<1>2. /\ q \in Seq(S) /\ n \in Nat /\ Range(q) = {q[i] : i \in 1 .. n}
      /\ \A i, j \in 1 .. n : q[i] = q[j] => i = j
  BY ListTypes
<1>3. /\ r \in Seq(S) /\ Len(r) = m + n
      /\ \A i \in 1 .. m + n : r[i] = IF i <= m THEN p[i] ELSE q[i - m]
  BY <1>1, <1>2, ConcatProperties
<1> HIDE DEF r, m, n
<1>4. DOMAIN r = 1 .. m + n
  BY <1>3
<1>5. \A i \in 1 .. m + n : /\ i <= m => i \in 1 .. m /\ r[i] = p[i]
                            /\ ~(i <= m) => i - m \in 1 .. n /\ r[i] = q[i - m]
  BY <1>1, <1>2, <1>3
<1>6. \A i \in 1 .. m : i \in 1 .. m + n /\ r[i] = p[i]
  BY <1>1, <1>2, <1>3
<1>7. \A i \in 1 .. n : i + m \in 1 .. m + n /\ r[i + m] = q[i]
  BY <1>1, <1>2, <1>3
<1>8. Range(r) = {r[i] : i \in 1 .. m + n}
  BY <1>4 DEF Range
<1>9. Range(r) = Range(p) \union Range(q)
  <2>1. Range(r) \subseteq Range(p) \union Range(q)
    BY <1>1, <1>2, <1>5, <1>8
  <2>2. Range(p) \subseteq Range(r)
    BY <1>1, <1>6, <1>8
  <2>3. Range(q) \subseteq Range(r)
    BY <1>2, <1>7, <1>8
  <2> QED BY <2>1, <2>2, <2>3
<1>10. ASSUME NEW i \in 1 .. m + n, NEW j \in 1 .. m + n, r[i] = r[j]
       PROVE  i = j
  <2>1. CASE i <= m /\ j <= m
    BY <1>1, <1>5, <1>10, <2>1
  <2>2. CASE ~(i <= m) /\ ~(j <= m)
    <3>1. i - m \in 1 .. n /\ j - m \in 1 .. n /\ q[i - m] = q[j - m]
      BY <1>5, <1>10, <2>2
    <3>2. i - m = j - m
      BY <1>2, <3>1
    <3> QED BY <1>1, <1>2, <3>2
  <2>3. CASE i <= m /\ ~(j <= m)
    <3>1. r[i] \in Range(p) /\ r[j] \in Range(q)
      BY <1>1, <1>2, <1>5, <2>3
    <3> QED BY <1>10, <3>1
  <2>4. CASE ~(i <= m) /\ j <= m
    <3>1. r[i] \in Range(q) /\ r[j] \in Range(p)
      BY <1>1, <1>2, <1>5, <2>4
    <3> QED BY <1>10, <3>1
  <2> QED BY <2>1, <2>2, <2>3, <2>4
<1>11. r \in Lists(S)
  BY <1>3, <1>4, <1>10 DEF Lists, IsInjective
<1> QED BY <1>9, <1>11 DEF r

-----------------------------------------------------------------------------
(***************************************************************************)
(* Sequences of sequences, one after another.                              *)
(***************************************************************************)

\* The recursive function that FlattenSeq is defined with exists.
LEMMA FlattenRecursion ==
    ASSUME NEW S, NEW seqs \in Seq(Seq(S)), seqs # <<>>
    PROVE  \E f : /\ f[1] = seqs[1]
                  /\ \A i \in 2 .. Len(seqs) : f[i] = f[i - 1] \o seqs[i]
                  /\ FlattenSeq(seqs) = f[Len(seqs)]
<1> DEFINE N == Len(seqs)
           Joins(f, n) ==
               f = [i \in 1 .. n |-> IF i = 1 THEN seqs[i] ELSE f[i - 1] \o seqs[i]]
           T == {n \in Nat : n = 0 \/ \E f : Joins(f, n)}
<1>0. N \in Nat \ {0}
  <2>1. seqs # <<>> => Len(seqs) # 0
    OBVIOUS
  <2> QED BY <2>1
<1>1. 0 \in T
  OBVIOUS
<1>2. ASSUME NEW n \in 0 .. N - 1, n \in T
      PROVE  n + 1 \in T
  <2>1. CASE n = 0
    <3>1. Joins([i \in 1 .. 1 |-> seqs[1]], 1)
      OBVIOUS
    <3>2. 1 \in T
      <4> HIDE DEF Joins
      <4> QED BY <3>1
    <3> HIDE DEF T
    <3> QED BY <2>1, <3>2
  <2>2. CASE n # 0
    <3>1. PICK f : Joins(f, n)
      BY <1>2, <2>2
    <3> DEFINE g == [i \in 1 .. n + 1 |-> IF i <= n THEN f[i] ELSE f[n] \o seqs[n + 1]]
    <3>2. \A i \in 1 .. n : f[i] = IF i = 1 THEN seqs[i] ELSE f[i - 1] \o seqs[i]
      BY <3>1
    <3>3. \A i \in 1 .. n + 1 : g[i] = IF i = 1 THEN seqs[i] ELSE g[i - 1] \o seqs[i]
      BY <2>2, <3>2
    <3>4. Joins(g, n + 1)
      BY <3>3
    <3>5. n + 1 \in Nat
      BY <1>0
    <3> QED BY <3>4, <3>5
  <2> QED BY <2>1, <2>2
<1>3. \E f : Joins(f, N)
  <2> HIDE DEF Joins
  <2>1. 0 .. N \subseteq T
    <3> HIDE DEF T
    <3> QED BY <1>0, <1>1, <1>2, NumberInduction
  <2> QED BY <1>0, <2>1
<1> DEFINE flatten == CHOOSE f : Joins(f, N)
<1>4. Joins(flatten, N)
  BY <1>3
<1>5. \A i \in 1 .. N : flatten[i] = IF i = 1 THEN seqs[i] ELSE flatten[i - 1] \o seqs[i]
  <2> HIDE DEF flatten
  <2> QED BY <1>4
<1>6. FlattenSeq(seqs) = flatten[N]
  BY <1>0 DEF FlattenSeq
<1> HIDE DEF flatten
<1>7. /\ flatten[1] = seqs[1]
      /\ \A i \in 2 .. N : flatten[i] = flatten[i - 1] \o seqs[i]
  <2>1. 1 \in 1 .. N /\ \A i \in 2 .. N : i \in 1 .. N /\ i # 1
    BY <1>0
  <2> HIDE DEF N
  <2>2. flatten[1] = seqs[1]
    BY <1>5, <2>1
  <2>3. \A i \in 2 .. N : flatten[i] = flatten[i - 1] \o seqs[i]
    BY <1>5, <2>1
  <2> QED BY <2>2, <2>3
<1> QED BY <1>6, <1>7

\* One sequence alone is what it is.
LEMMA FlattenOne ==
    ASSUME NEW S, NEW s \in Seq(S)
    PROVE  FlattenSeq(<<s>>) = s
<1>1. /\ <<s>> \in Seq(Seq(S)) /\ Len(<<s>>) = 1 /\ <<s>>[1] = s /\ <<s>> # <<>>
  OBVIOUS
<1>2. PICK f : f[1] = <<s>>[1] /\ FlattenSeq(<<s>>) = f[Len(<<s>>)]
  BY <1>1, FlattenRecursion
<1> QED BY <1>1, <1>2

\* A further sequence comes after the others.
LEMMA FlattenAppend ==
    ASSUME NEW S, NEW seqs \in Seq(Seq(S)), seqs # <<>>, NEW s \in Seq(S)
    PROVE  FlattenSeq(Append(seqs, s)) = FlattenSeq(seqs) \o s
<1> DEFINE N == Len(seqs)
           more == Append(seqs, s)
<1>1. N \in Nat \ {0}
  <2>1. seqs # <<>> => Len(seqs) # 0
    OBVIOUS
  <2> QED BY <2>1
<1>2. /\ more \in Seq(Seq(S)) /\ Len(more) = N + 1 /\ more # <<>>
      /\ more[N + 1] = s /\ \A i \in 1 .. N : more[i] = seqs[i]
  <2>1. /\ Append(seqs, s) \in Seq(Seq(S)) /\ Len(Append(seqs, s)) = N + 1
        /\ \A i \in 1 .. N : Append(seqs, s)[i] = seqs[i]
        /\ Append(seqs, s)[N + 1] = s
    BY AppendProperties
  <2>2. Append(seqs, s) # <<>>
    BY <1>1, <2>1
  <2> QED BY <2>1, <2>2
<1>3. PICK f : /\ f[1] = seqs[1] /\ \A i \in 2 .. N : f[i] = f[i - 1] \o seqs[i]
               /\ FlattenSeq(seqs) = f[N]
  BY FlattenRecursion
<1> HIDE DEF more
<1>4. PICK g : /\ g[1] = more[1] /\ \A i \in 2 .. N + 1 : g[i] = g[i - 1] \o more[i]
               /\ FlattenSeq(more) = g[N + 1]
  <2>1. \E g : /\ g[1] = more[1] /\ \A i \in 2 .. Len(more) : g[i] = g[i - 1] \o more[i]
               /\ FlattenSeq(more) = g[Len(more)]
    BY <1>2, FlattenRecursion
  <2> QED BY <1>2, <2>1
<1> HIDE DEF N
<1> DEFINE T == {i \in 0 .. N : i > 0 => g[i] = f[i]}
<1>5. 0 \in T
  BY <1>1
<1>6. ASSUME NEW i \in 0 .. N - 1, i \in T
      PROVE  i + 1 \in T
  <2>1. CASE i = 0
    BY <1>1, <1>2, <1>3, <1>4, <2>1
  <2>2. CASE i # 0
    <3>1. i + 1 \in 2 .. N /\ i + 1 \in 2 .. N + 1 /\ (i + 1) - 1 = i /\ i > 0
      BY <1>1, <2>2
    <3>2. g[i + 1] = g[i] \o more[i + 1] /\ f[i + 1] = f[i] \o seqs[i + 1]
      BY <1>3, <1>4, <3>1
    <3>3. g[i] = f[i] /\ more[i + 1] = seqs[i + 1]
      BY <1>1, <1>2, <1>6, <3>1
    <3>4. g[i + 1] = f[i + 1]
      BY <3>2, <3>3
    <3> QED BY <1>1, <3>1, <3>4
  <2> QED BY <2>1, <2>2
<1>7. g[N] = f[N]
  <2>1. 0 .. N \subseteq T
    <3> HIDE DEF T
    <3> QED BY <1>1, <1>5, <1>6, NumberInduction
  <2> QED BY <1>1, <2>1
<1>8. g[N + 1] = g[N] \o more[N + 1]
  <2>1. N + 1 \in 2 .. N + 1 /\ (N + 1) - 1 = N
    BY <1>1
  <2> QED BY <1>4, <2>1
<1> QED BY <1>2, <1>3, <1>4, <1>7, <1>8 DEF more
=============================================================================
