------------------------------- MODULE Lemmas -------------------------------
(***************************************************************************)
(* Facts that several proofs need: induction over the natural numbers in a *)
(* form that the provers can use (about sets, where the library has it     *)
(* about predicates), and lists with an element put in or taken out.       *)
(***************************************************************************)
EXTENDS Integers, SequencesExt, TLAPS, WellFoundedInduction, SequenceTheorems

\* A set of natural numbers that is not empty has a least element.
LEMMA LeastNumber ==
  ASSUME NEW T, T \subseteq Nat, T # {}
  PROVE  \E x \in T : \A y \in T : x <= y
  <1> DEFINE R == OpToRel(<, Nat)
  <1>1. IsWellFoundedOn(R, Nat)
    BY NatLessThanWellFounded
  <1>2. \A x, y \in Nat : y < x => <<y, x>> \in R
    BY DEF OpToRel
  <1> HIDE DEF R
  <1>3. PICK x \in T : \A y \in T : ~(<<y, x>> \in R)
    BY <1>1, WFMin
  <1>4. ASSUME NEW y \in T PROVE x <= y
    <2>1. x \in Nat /\ y \in Nat
      OBVIOUS
    <2>2. ~(y < x)
      BY <1>2, <1>3, <2>1
    <2> QED
      BY <2>1, <2>2
  <1> QED
    BY <1>4

\* A set that has a and the successor of each of its numbers below b has all
\* of a..b.
LEMMA UpInduction ==
  ASSUME NEW a \in Int, NEW b \in Int, NEW S,
         a \in S, \A n \in a..(b - 1) : n \in S => n + 1 \in S
  PROVE  a..b \subseteq S
  <1> DEFINE T == {i \in Nat : a + i <= b /\ a + i \notin S}
  <1>1. SUFFICES ASSUME T # {} PROVE FALSE
    <2>1. ASSUME NEW n \in a..b PROVE n \in S
      <3>1. n - a \in Nat /\ a + (n - a) = n
        OBVIOUS
      <3>2. n - a \notin T
        BY <1>1
      <3> QED
        BY <3>1, <3>2
    <2> QED
      BY <2>1
  <1>2. PICK x \in T : \A y \in T : x <= y
    BY <1>1, LeastNumber
  <1>3. x # 0 /\ x - 1 \in Nat /\ a + (x - 1) \in a..(b - 1)
    OBVIOUS
  <1>4. a + (x - 1) \in S
    BY <1>2, <1>3
  <1>5. (a + (x - 1)) + 1 \in S
    BY <1>3, <1>4
  <1> QED
    BY <1>5

\* A recursive function on 0..n: each value follows from the one before.
HasChain(D, base, n, F) ==
  \E f \in [0..n -> D] : f[0] = base /\ \A i \in 1..n : f[i] = F[i][f[i - 1]]

\* It exists.
LEMMA ChainIn ==
  ASSUME NEW D, NEW base \in D, NEW n \in Nat, NEW F \in [1..n -> [D -> D]]
  PROVE  HasChain(D, base, n, F)
  <1> DEFINE Ok(f, m) == f \in [0..m -> D] /\ f[0] = base
                         /\ \A i \in 1..m : f[i] = F[i][f[i - 1]]
             S == {m \in 0..n : \E f : Ok(f, m)}
  <1>1. 0 \in S
    <2>1. Ok([i \in 0..0 |-> base], 0) /\ 0 \in 0..n
      OBVIOUS
    <2> QED
      BY <2>1
  <1>2. ASSUME NEW m \in 0..(n - 1), m \in S PROVE m + 1 \in S
    <2>1. PICK f : Ok(f, m)
      BY <1>2
    <2>2. m \in Nat /\ m + 1 \in 0..n /\ m + 1 \in 1..n /\ m \in 0..m
      OBVIOUS
    <2>3. PICK next : next = F[m + 1][f[m]]
      OBVIOUS
    <2>4. next \in D
      BY <2>1, <2>2, <2>3
    <2>5. PICK g : g = [i \in 0..(m + 1) |-> IF i <= m THEN f[i] ELSE next]
      OBVIOUS
    <2>6. g \in [0..(m + 1) -> D]
      <3>1. ASSUME NEW i \in 0..(m + 1) PROVE (IF i <= m THEN f[i] ELSE next) \in D
        BY <2>1, <2>2, <2>4
      <3> QED
        BY <2>5, <3>1
    <2>7. g[0] = base
      BY <2>1, <2>2, <2>5
    <2>8. ASSUME NEW i \in 1..(m + 1) PROVE g[i] = F[i][g[i - 1]]
      <3>1. CASE i <= m
        <4>1. i \in 1..m /\ i \in 0..(m + 1) /\ i - 1 \in 0..(m + 1) /\ i - 1 <= m
          BY <2>2, <3>1
        <4>2. g[i] = f[i] /\ g[i - 1] = f[i - 1]
          BY <2>5, <3>1, <4>1
        <4> QED
          BY <2>1, <4>1, <4>2
      <3>2. CASE i = m + 1
        <4>1. i \in 0..(m + 1) /\ i - 1 = m /\ m \in 0..(m + 1) /\ ~(i <= m)
          BY <2>2, <3>2
        <4>2. g[i] = next /\ g[i - 1] = f[m]
          BY <2>2, <2>5, <4>1
        <4> QED
          BY <2>3, <3>2, <4>2
      <3> QED
        BY <2>2, <3>1, <3>2
    <2>9. Ok(g, m + 1)
      BY <2>6, <2>7, <2>8
    <2> QED
      BY <2>2, <2>9
  <1>3. n \in S
    <2> HIDE DEF S
    <2>1. 0..n \subseteq S
      BY <1>1, <1>2, UpInduction
    <2> QED
      BY <2>1
  <1> QED
    BY <1>3 DEF HasChain

\* Two functions that begin alike and go on alike agree.
LEMMA ChainAgree ==
  ASSUME NEW n \in Nat, NEW f, NEW g, f[0] = g[0],
         \A i \in 1..n : f[i - 1] = g[i - 1] => f[i] = g[i]
  PROVE  \A i \in 0..n : f[i] = g[i]
  <1> DEFINE T == {i \in 0..n : f[i] = g[i]}
  <1>1. 0 \in T
    OBVIOUS
  <1>2. ASSUME NEW i \in 0..(n - 1), i \in T PROVE i + 1 \in T
    <2>1. i + 1 \in 1..n /\ (i + 1) - 1 = i /\ i + 1 \in 0..n
      OBVIOUS
    <2> QED
      BY <1>2, <2>1
  <1>3. 0..n \subseteq T
    <2>1. 0 \in Int /\ n \in Int /\ \A i \in 0..(n - 1) : i \in T => i + 1 \in T
      BY <1>2
    <2> HIDE DEF T
    <2> QED
      BY ONLY <1>1, <2>1, UpInduction
  <1> QED
    BY <1>3

\* What each step keeps holds of every value.
LEMMA ChainStays ==
  ASSUME NEW n \in Nat, NEW D, NEW g, g[0] \in D,
         \A i \in 1..n : g[i - 1] \in D => g[i] \in D
  PROVE  \A i \in 0..n : g[i] \in D
  <1> DEFINE T == {i \in 0..n : g[i] \in D}
  <1>1. 0 \in T
    OBVIOUS
  <1>2. ASSUME NEW i \in 0..(n - 1), i \in T PROVE i + 1 \in T
    <2>1. i + 1 \in 1..n /\ (i + 1) - 1 = i /\ i + 1 \in 0..n
      OBVIOUS
    <2> QED
      BY <1>2, <2>1
  <1>3. 0..n \subseteq T
    <2>1. 0 \in Int /\ n \in Int /\ \A i \in 0..(n - 1) : i \in T => i + 1 \in T
      BY <1>2
    <2> HIDE DEF T
    <2> QED
      BY ONLY <1>1, <2>1, UpInduction
  <1> QED
    BY <1>3

\* A set of integers with an upper bound, that is not empty, has a greatest
\* element.
LEMMA GreatestNumber ==
  ASSUME NEW b \in Int, NEW T, T \subseteq Int, T # {}, \A x \in T : x <= b
  PROVE  \E x \in T : \A y \in T : x >= y
  <1> DEFINE U == {u \in Nat : b - u \in T}
  <1>1. ASSUME NEW x \in T PROVE b - x \in U
    <2>1. x \in Int /\ b - x \in Nat /\ b - (b - x) = x
      OBVIOUS
    <2> QED
      BY <2>1
  <1>2. PICK u \in U : \A v \in U : u <= v
    BY <1>1, LeastNumber
  <1>3. ASSUME NEW y \in T PROVE b - u >= y
    BY <1>1, <1>2
  <1> QED
    BY <1>3

\* What Max gives for numbers that have a bound.
LEMMA MaxOfBounded ==
  ASSUME NEW b \in Int, NEW T, T \subseteq Int, T # {}, \A x \in T : x <= b
  PROVE  Max(T) \in T /\ \A y \in T : Max(T) >= y
  <1>1. \E x \in T : \A y \in T : x >= y
    BY GreatestNumber
  <1> QED
    BY <1>1 DEF Max

\* What Min gives for natural numbers.
LEMMA MinOfNumbers ==
  ASSUME NEW T, T \subseteq Nat, T # {}
  PROVE  Min(T) \in T /\ \A y \in T : Min(T) <= y
  <1>1. \E x \in T : \A y \in T : x <= y
    BY LeastNumber
  <1> QED
    BY <1>1 DEF Min

-----------------------------------------------------------------------------
(* Sequences: elements put in and taken out.                               *)

\* t is s with e put in at some place.
Placed(s, e, t) ==
  \E k \in 1..(Len(s) + 1) :
    t = [i \in 1..(Len(s) + 1) |-> IF i < k THEN s[i]
                                  ELSE IF i = k THEN e ELSE s[i - 1]]

LEMMA InsertIs ==
  ASSUME NEW S, NEW s \in Seq(S), NEW e \in S, NEW k \in 1..Len(s)
  PROVE  InsertAt(s, k, e) =
           [i \in 1..(Len(s) + 1) |-> IF i < k THEN s[i]
                                     ELSE IF i = k THEN e ELSE s[i - 1]]
  <1> DEFINE a == SubSeq(s, 1, k - 1)
             b == SubSeq(s, k, Len(s))
             c == a \o <<e>>
             t == [i \in 1..(Len(s) + 1) |-> IF i < k THEN s[i]
                                            ELSE IF i = k THEN e ELSE s[i - 1]]
  <1>1. Len(s) \in Nat /\ \A i \in 1..Len(s) : s[i] \in S
    BY ElementOfSeq, LenProperties
  <1>2. a \in Seq(S) /\ Len(a) = k - 1 /\ \A i \in 1..(k - 1) : a[i] = s[i]
    BY <1>1, SubSeqProperties
  <1>3. b \in Seq(S) /\ Len(b) = Len(s) - k + 1 /\ \A i \in 1..(Len(s) - k + 1) : b[i] = s[k + i - 1]
    BY <1>1, SubSeqProperties
  <1>4. <<e>> \in Seq(S) /\ Len(<<e>>) = 1 /\ <<e>>[1] = e
    OBVIOUS
  <1> HIDE DEF a, b
  <1>5. c \in Seq(S) /\ Len(c) = k /\ \A i \in 1..k : c[i] = IF i < k THEN s[i] ELSE e
    BY <1>1, <1>2, <1>4, ConcatProperties
  <1> HIDE DEF c
  <1>a. /\ c \o b \in Seq(S) /\ Len(c \o b) = Len(c) + Len(b)
        /\ \A i \in 1..(Len(c) + Len(b)) :
             (c \o b)[i] = IF i <= Len(c) THEN c[i] ELSE b[i - Len(c)]
    <2>1. c \in Seq(S) /\ b \in Seq(S)
      BY <1>3, <1>5
    <2> QED
      BY ONLY <2>1, ConcatProperties
  <1>6. Len(c) = k /\ Len(b) = Len(s) - k + 1 /\ Len(c) + Len(b) = Len(s) + 1
    BY <1>1, <1>3, <1>5
  <1>7. ASSUME NEW i \in 1..(Len(s) + 1) PROVE (c \o b)[i] = t[i]
    <2>1. CASE i <= k
      BY <1>1, <1>5, <1>6, <1>a, <2>1
    <2>2. CASE i > k
      <3>1. i - k \in 1..(Len(s) - k + 1) /\ k + (i - k) - 1 = i - 1
        BY <1>1, <2>2
      <3>2. (c \o b)[i] = b[i - k]
        BY <1>1, <1>6, <1>a, <2>2
      <3>3. t[i] = s[i - 1]
        BY <1>1, <2>2
      <3> HIDE DEF t
      <3> QED
        BY <1>3, <3>1, <3>2, <3>3
    <2>3. i <= k \/ i > k
      BY ONLY <1>1, i \in 1..(Len(s) + 1), k \in 1..Len(s)
    <2> HIDE DEF t
    <2> QED
      BY ONLY <2>1, <2>2, <2>3
  <1>8. t \in Seq(S) /\ Len(t) = Len(s) + 1
    <2>1. \A i \in 1..(Len(s) + 1) : t[i] \in S
      <3>1. \A i \in 1..(Len(s) + 1) : i > k => i - 1 \in 1..Len(s)
        BY <1>1
      <3>2. \A i \in 1..(Len(s) + 1) : i < k => i \in 1..Len(s)
        BY <1>1
      <3> QED
        BY <1>1, <3>1, <3>2
    <2> QED
      BY <1>1, <2>1, IsASeq
  <1> HIDE DEF t
  <1>9. c \o b = t
    BY <1>6, <1>7, <1>8, <1>a, SeqEqual
  <1> QED
    BY <1>9 DEF InsertAt, a, b, c, t

LEMMA PlacedIs ==
  ASSUME NEW S, NEW s \in Seq(S), NEW e \in S, NEW t, Placed(s, e, t)
  PROVE  /\ t \in Seq(S) /\ Len(t) = Len(s) + 1
         /\ ToSet(t) = ToSet(s) \cup {e}
  <1>1. Len(s) \in Nat /\ DOMAIN s = 1..Len(s) /\ \A i \in 1..Len(s) : s[i] \in S
    BY ElementOfSeq, LenProperties
  <1>2. PICK k \in 1..(Len(s) + 1) :
          t = [i \in 1..(Len(s) + 1) |-> IF i < k THEN s[i]
                                        ELSE IF i = k THEN e ELSE s[i - 1]]
    BY DEF Placed
  <1>3. \A i \in 1..(Len(s) + 1) : (i > k => i - 1 \in 1..Len(s)) /\ (i < k => i \in 1..Len(s))
    BY <1>1
  <1>4. \A i \in 1..(Len(s) + 1) : t[i] \in S
    BY <1>1, <1>2, <1>3
  <1>5. t \in Seq(S) /\ Len(t) = Len(s) + 1 /\ DOMAIN t = 1..(Len(s) + 1)
    BY <1>1, <1>2, <1>4, IsASeq
  <1>6. ASSUME NEW x \in ToSet(t) PROVE x \in ToSet(s) \cup {e}
    BY <1>1, <1>2, <1>3, <1>5 DEF ToSet
  <1>7. e \in ToSet(t)
    BY <1>1, <1>2, <1>5 DEF ToSet
  <1>8. ASSUME NEW j \in 1..Len(s) PROVE s[j] \in ToSet(t)
    <2>1. CASE j < k
      <3>1. j \in 1..(Len(s) + 1) /\ t[j] = s[j]
        BY <1>1, <1>2, <2>1
      <3> QED
        BY <1>5, <3>1 DEF ToSet
    <2>2. CASE j >= k
      <3>1. j + 1 \in 1..(Len(s) + 1) /\ j + 1 > k /\ (j + 1) - 1 = j
        BY <1>1, <2>2
      <3>2. t[j + 1] = s[j]
        BY <1>1, <1>2, <3>1
      <3> QED
        BY <1>5, <3>1, <3>2 DEF ToSet
    <2> QED
      BY <1>1, <2>1, <2>2
  <1> QED
    BY <1>1, <1>5, <1>6, <1>7, <1>8 DEF ToSet

\* A list in the order of its elements' keys, and the insertion of an element
\* behind those whose key is not larger.
InOrder(s, key) == \A i, j \in DOMAIN s : i < j => key[s[i]] <= key[s[j]]
LaterThan(s, key, e) == {i \in 1..Len(s) : key[s[i]] > key[e]}
PutInOrder(s, key, e) ==
  IF LaterThan(s, key, e) = {} THEN Append(s, e)
  ELSE InsertAt(s, Min(LaterThan(s, key, e)), e)

\* The place it is put at.
PutAt(s, key, e, k) ==
  /\ k \in 1..(Len(s) + 1)
  /\ PutInOrder(s, key, e) =
       [i \in 1..(Len(s) + 1) |-> IF i < k THEN s[i]
                                 ELSE IF i = k THEN e ELSE s[i - 1]]
  /\ \A i \in 1..Len(s) : i < k => key[s[i]] <= key[e]
  /\ \A i \in 1..Len(s) : i >= k => key[e] < key[s[i]]

LEMMA PutSomewhere ==
  ASSUME NEW S, NEW s \in Seq(S), NEW e \in S, NEW key \in [S -> Int],
         InOrder(s, key)
  PROVE  \E k : PutAt(s, key, e, k)
  <1> DEFINE I == LaterThan(s, key, e)
             t == PutInOrder(s, key, e)
  <1>1. /\ Len(s) \in Nat /\ DOMAIN s = 1..Len(s)
        /\ \A i \in 1..Len(s) : s[i] \in S /\ key[s[i]] \in Int
    BY ElementOfSeq, LenProperties
  <1>2. I \subseteq 1..Len(s) /\ \A i \in 1..Len(s) : i \in I <=> key[s[i]] > key[e]
    BY DEF LaterThan
  <1>3. t = IF I = {} THEN Append(s, e) ELSE InsertAt(s, Min(I), e)
    BY DEF PutInOrder
  <1>0. key[e] \in Int
    OBVIOUS
  <1> HIDE DEF I, t
  <1>4. CASE I = {}
    <2>1. t = Append(s, e)
      BY <1>3, <1>4
    <2>2. /\ t \in Seq(S) /\ Len(t) = Len(s) + 1 /\ t[Len(s) + 1] = e
          /\ \A i \in 1..Len(s) : t[i] = s[i]
      BY <2>1, AppendProperties
    <2> DEFINE k == Len(s) + 1
               u == [i \in 1..(Len(s) + 1) |-> IF i < k THEN s[i]
                                              ELSE IF i = k THEN e ELSE s[i - 1]]
    <2>3. \A i \in 1..(Len(s) + 1) : i = k \/ (i < k /\ i \in 1..Len(s))
      BY <1>1
    <2>4. \A i \in 1..(Len(s) + 1) : t[i] = u[i] /\ u[i] \in S
      BY <1>1, <2>2, <2>3
    <2>5. u \in Seq(S) /\ Len(u) = Len(s) + 1
      BY <1>1, <2>4, IsASeq
    <2>6. t = u
      <3> HIDE DEF u
      <3> QED
        BY <2>2, <2>4, <2>5, SeqEqual
    <2>7. \A i \in 1..Len(s) : key[s[i]] <= key[e]
      BY <1>0, <1>1, <1>2, <1>4
    <2>8. k \in 1..(Len(s) + 1) /\ \A i \in 1..Len(s) : ~(i >= k)
      BY <1>1
    <2>9. PutAt(s, key, e, k)
      BY <2>6, <2>7, <2>8 DEF PutAt, t
    <2> QED
      BY <2>9
  <1>5. CASE I # {}
    <2> DEFINE k == Min(I)
    <2>1. k \in I /\ \A i \in I : k <= i
      <3>1. I \subseteq Nat
        BY <1>1, <1>2
      <3> QED
        BY <1>5, <3>1, MinOfNumbers
    <2> HIDE DEF k
    <2>2. k \in 1..Len(s)
      BY <1>2, <2>1
    <2>3. t = InsertAt(s, k, e)
      BY <1>3, <1>5 DEF k
    <2>4. t = [i \in 1..(Len(s) + 1) |-> IF i < k THEN s[i]
                                        ELSE IF i = k THEN e ELSE s[i - 1]]
      BY <2>2, <2>3, InsertIs
    <2>5. \A i \in 1..Len(s) : i < k => i \notin I
      BY <1>1, <2>1, <2>2
    <2>6. \A i \in 1..Len(s) : i < k => key[s[i]] <= key[e]
      BY <1>0, <1>1, <1>2, <2>5
    <2>7. key[e] < key[s[k]]
      BY <1>0, <1>1, <1>2, <2>1, <2>2
    <2>8. ASSUME NEW i \in 1..Len(s), i >= k PROVE key[e] < key[s[i]]
      <3>1. i = k \/ key[s[k]] <= key[s[i]]
        BY <1>1, <2>2, <2>8 DEF InOrder
      <3> QED
        BY <1>0, <1>1, <2>2, <2>7, <3>1
    <2>9. k \in 1..(Len(s) + 1)
      BY <1>1, <2>2
    <2>10. PutAt(s, key, e, k)
      BY <2>4, <2>6, <2>8, <2>9 DEF PutAt, t
    <2> QED
      BY <2>10
  <1> QED
    BY <1>4, <1>5

\* Such an insertion keeps the list in order, and its head if the head has no
\* larger key.
LEMMA PutKeepsOrder ==
  ASSUME NEW S, NEW s \in Seq(S), NEW e \in S, NEW key \in [S -> Int],
         InOrder(s, key)
  PROVE  /\ Placed(s, e, PutInOrder(s, key, e))
         /\ InOrder(PutInOrder(s, key, e), key)
         /\ s # <<>> /\ key[s[1]] <= key[e] =>
              PutInOrder(s, key, e) # <<>> /\ PutInOrder(s, key, e)[1] = s[1]
  <1> DEFINE t == PutInOrder(s, key, e)
  <1>1. /\ Len(s) \in Nat /\ DOMAIN s = 1..Len(s)
        /\ \A i \in 1..Len(s) : s[i] \in S /\ key[s[i]] \in Int
    BY ElementOfSeq, LenProperties
  <1>0. key[e] \in Int
    OBVIOUS
  <1>2. PICK k : PutAt(s, key, e, k)
    BY PutSomewhere
  <1>3. /\ k \in 1..(Len(s) + 1)
        /\ \A i \in 1..Len(s) : i < k => key[s[i]] <= key[e]
        /\ \A i \in 1..Len(s) : i >= k => key[e] < key[s[i]]
    BY <1>2 DEF PutAt
  <1>4. t = [i \in 1..(Len(s) + 1) |-> IF i < k THEN s[i]
                                      ELSE IF i = k THEN e ELSE s[i - 1]]
    BY <1>2 DEF PutAt
  <1>5. Placed(s, e, t)
    BY <1>3, <1>4 DEF Placed
  <1> HIDE DEF t
  <1>6. /\ DOMAIN t = 1..(Len(s) + 1)
        /\ \A i \in 1..(Len(s) + 1) : /\ i < k => t[i] = s[i] /\ i \in 1..Len(s)
                                      /\ i = k => t[i] = e
                                      /\ i > k => t[i] = s[i - 1] /\ i - 1 \in 1..Len(s)
    BY <1>1, <1>3, <1>4
  <1>7. InOrder(t, key)
    <2> SUFFICES ASSUME NEW i \in 1..(Len(s) + 1), NEW j \in 1..(Len(s) + 1), i < j
                 PROVE  key[t[i]] <= key[t[j]]
      BY <1>6 DEF InOrder
    <2>1. \A m, n \in 1..Len(s) : m <= n => key[s[m]] <= key[s[n]]
      <3> SUFFICES ASSUME NEW m \in 1..Len(s), NEW n \in 1..Len(s), m <= n
                   PROVE  key[s[m]] <= key[s[n]]
        OBVIOUS
      <3>1. m = n \/ m < n
        BY <1>1
      <3> QED
        BY <1>1, <3>1 DEF InOrder
    <2>2. CASE j < k
      BY <1>1, <1>3, <1>6, <2>1, <2>2
    <2>3. CASE j = k
      BY <1>1, <1>3, <1>6, <2>3
    <2>4. CASE j > k /\ i < k
      BY <1>1, <1>3, <1>6, <2>1, <2>4
    <2>5. CASE j > k /\ i = k
      BY <1>1, <1>3, <1>6, <2>5
    <2>6. CASE j > k /\ i > k
      BY <1>1, <1>3, <1>6, <2>1, <2>6
    <2> QED
      BY <1>1, <1>3, <2>2, <2>3, <2>4, <2>5, <2>6
  <1>8. ASSUME s # <<>>, key[s[1]] <= key[e] PROVE t # <<>> /\ t[1] = s[1]
    <2>1. 1 \in 1..Len(s) /\ 1 \in 1..(Len(s) + 1)
      BY <1>1, <1>8, EmptySeq
    <2>2. t # <<>>
      BY <1>6, <2>1
    <2>3. CASE k # 1
      BY <1>1, <1>3, <1>6, <2>1, <2>2, <2>3
    <2>4. CASE k = 1
      <3>1. key[e] < key[s[1]]
        BY <1>1, <1>3, <2>1, <2>4
      <3> QED
        BY <1>0, <1>1, <1>8, <2>1, <3>1
    <2> QED
      BY <2>3, <2>4
  <1> QED
    BY <1>5, <1>7, <1>8 DEF t

\* What is left when the element at k is taken out.
LEMMA RemoveIs ==
  ASSUME NEW S, NEW s \in Seq(S), NEW k \in 1..Len(s)
  PROVE  /\ RemoveAt(s, k) \in Seq(S) /\ Len(RemoveAt(s, k)) = Len(s) - 1
         /\ \A i \in 1..(Len(s) - 1) :
              RemoveAt(s, k)[i] = IF i < k THEN s[i] ELSE s[i + 1]
         /\ ToSet(RemoveAt(s, k)) \subseteq ToSet(s)
  <1> DEFINE a == SubSeq(s, 1, k - 1)
             b == SubSeq(s, k + 1, Len(s))
             t == a \o b
  <1>1. Len(s) \in Nat /\ DOMAIN s = 1..Len(s) /\ \A i \in 1..Len(s) : s[i] \in S
    BY ElementOfSeq, LenProperties
  <1>2. a \in Seq(S) /\ Len(a) = k - 1 /\ \A i \in 1..(k - 1) : a[i] = s[i]
    BY <1>1, SubSeqProperties
  <1>3. b \in Seq(S) /\ Len(b) = Len(s) - k /\ \A i \in 1..(Len(s) - k) : b[i] = s[k + i]
    <2>1. b \in Seq(S)
      BY <1>1, SubSeqProperties
    <2>2. Len(b) = IF k + 1 <= Len(s) THEN Len(s) - (k + 1) + 1 ELSE 0
      BY <1>1, SubSeqProperties
    <2>3. \A i \in 1..(Len(s) - k) : b[i] = s[(k + 1) + i - 1]
      BY <1>1, SubSeqProperties
    <2> HIDE DEF b
    <2>4. Len(b) = Len(s) - k
      <3>1. Len(s) \in Int /\ k \in Int /\ k <= Len(s)
        BY <1>1
      <3>2. CASE k + 1 <= Len(s)
        BY ONLY <2>2, <3>1, <3>2
      <3>3. CASE ~(k + 1 <= Len(s))
        BY ONLY <2>2, <3>1, <3>3
      <3> QED
        BY <3>2, <3>3
    <2>5. ASSUME NEW i \in 1..(Len(s) - k) PROVE b[i] = s[k + i]
      <3>1. (k + 1) + i - 1 = k + i
        BY <1>1
      <3> QED
        BY <2>3, <3>1
    <2> QED
      BY ONLY <2>1, <2>4, <2>5
  <1> HIDE DEF a, b
  <1>4. /\ t \in Seq(S) /\ Len(t) = Len(a) + Len(b)
        /\ \A i \in 1..(Len(a) + Len(b)) :
             t[i] = IF i <= Len(a) THEN a[i] ELSE b[i - Len(a)]
    BY <1>2, <1>3, ConcatProperties
  <1> HIDE DEF t
  <1>5. Len(a) + Len(b) = Len(s) - 1
    BY <1>1, <1>2, <1>3
  <1>6. ASSUME NEW i \in 1..(Len(s) - 1)
        PROVE  /\ t[i] = IF i < k THEN s[i] ELSE s[i + 1]
               /\ t[i] \in ToSet(s)
    <2>1. CASE i < k
      <3>1. i <= Len(a) /\ i \in 1..(k - 1) /\ i \in 1..Len(s)
        BY <1>1, <1>2, <2>1
      <3> QED
        BY <1>1, <1>2, <1>4, <1>5, <2>1, <3>1 DEF ToSet
    <2>2. CASE i >= k
      <3>1. ~(i <= Len(a)) /\ i - Len(a) \in 1..(Len(s) - k) /\ i + 1 \in 1..Len(s)
            /\ k + (i - Len(a)) = i + 1
        BY <1>1, <1>2, <2>2
      <3>2. t[i] = s[i + 1]
        BY <1>3, <1>4, <1>5, <3>1
      <3> QED
        BY <1>1, <2>2, <3>1, <3>2 DEF ToSet
    <2>3. i < k \/ i >= k
      BY <1>1
    <2> QED
      BY ONLY <2>1, <2>2, <2>3
  <1>7. DOMAIN t = 1..(Len(s) - 1)
    BY <1>4, <1>5, LenProperties
  <1>8. ToSet(t) \subseteq ToSet(s)
    BY <1>6, <1>7 DEF ToSet
  <1> QED
    BY <1>4, <1>5, <1>6, <1>8 DEF RemoveAt, a, b, t
=============================================================================
