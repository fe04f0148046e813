------------------------- MODULE Connections_proofs -------------------------
(***************************************************************************)
(* Proofs about Connections, for any number of connections, listeners,     *)
(* users, tasks, faults and restarts, and any length of the timers.        *)
(* First, a network handle keeps what it promises, whatever is done with   *)
(* it: the client is told of every line of output that it does not get,    *)
(* and the server gets the lines of the client's input.                    *)
(***************************************************************************)
EXTENDS Connections, Lemmas, FiniteSetTheorems

-----------------------------------------------------------------------------
(* The lengths of blocks.                                                  *)

Blocks == [line : Nat, length : Nat]

LEMMA ListFacts ==
  ASSUME NEW S, NEW s \in Seq(S)
  PROVE  Len(s) \in Nat /\ DOMAIN s = 1..Len(s) /\ \A i \in 1..Len(s) : s[i] \in S
  BY LenProperties, ElementOfSeq

LEMMA AppendFacts ==
  ASSUME NEW S, NEW s \in Seq(S), NEW e \in S, NEW t, t = Append(s, e)
  PROVE  /\ t \in Seq(S) /\ Len(t) = Len(s) + 1 /\ Len(s) \in Nat /\ t[Len(s) + 1] = e
         /\ \A i \in 1..Len(s) : t[i] = s[i]
  BY AppendProperties, LenProperties

LEMMA BlockFacts ==
  ASSUME NEW s \in Seq(Blocks)
  PROVE  /\ Len(s) \in Nat /\ DOMAIN s = 1..Len(s)
         /\ \A i \in 1..Len(s) : s[i] \in Blocks /\ s[i].line \in Nat /\ s[i].length \in Nat
  <1>1. Len(s) \in Nat /\ DOMAIN s = 1..Len(s) /\ \A i \in 1..Len(s) : s[i] \in Blocks
    BY ListFacts
  <1>2. \A b \in Blocks : b.line \in Nat /\ b.length \in Nat
    BY DEF Blocks
  <1> QED
    BY <1>1, <1>2

LEMMA LengthsAre ==
  ASSUME NEW s \in Seq(Blocks)
  PROVE  /\ Lengths(s) \in [0..Len(s) -> Nat] /\ Lengths(s)[0] = 0
         /\ \A k \in 1..Len(s) : Lengths(s)[k] = Lengths(s)[k - 1] + s[k].length
  <1> DEFINE n == Len(s)
             F == [k \in 1..n |-> [x \in Nat |-> x + s[k].length]]
             G(f) == [k \in 0..n |-> IF k = 0 THEN 0 ELSE f[k - 1] + s[k].length]
  <1>1. n \in Nat /\ \A k \in 1..n : s[k].length \in Nat
    BY BlockFacts
  <1>2. F \in [1..n -> [Nat -> Nat]]
    BY <1>1
  <1>3. \E f \in [0..n -> Nat] : f[0] = 0 /\ \A i \in 1..n : f[i] = F[i][f[i - 1]]
    <2>1. PICK D, base, m, f : D = Nat /\ base = 0 /\ m = n /\ f = F
      OBVIOUS
    <2>2. base \in D /\ m \in Nat /\ f \in [1..m -> [D -> D]]
      BY <1>1, <1>2, <2>1
    <2> HIDE DEF F, n
    <2>3. HasChain(D, base, m, f)
      BY ONLY <2>2, ChainIn
    <2> QED
      BY <2>1, <2>3 DEF HasChain
  <1>4. PICK f \in [0..n -> Nat] : f[0] = 0 /\ \A i \in 1..n : f[i] = F[i][f[i - 1]]
    BY <1>3
  <1>5. \A k \in 1..n : k \in 0..n /\ k - 1 \in 0..n /\ k # 0
    BY <1>1
  <1>6. \A k \in 1..n : f[k] = f[k - 1] + s[k].length
    BY <1>4, <1>5
  <1>7. f = G(f)
    <2>1. \A k \in 0..n : k = 0 \/ k \in 1..n
      BY <1>1
    <2>2. \A k \in 0..n : f[k] = IF k = 0 THEN 0 ELSE f[k - 1] + s[k].length
      BY <1>4, <1>6, <2>1
    <2> QED
      BY <2>2
  <1>8. PICK g : g = Lengths(s)
    OBVIOUS
  <1>9. g = CHOOSE h : h = G(h)
    BY <1>8 DEF Lengths
  <1>10. g = G(g)
    <2> HIDE DEF G
    <2> QED
      BY <1>7, <1>9
  <1>11. g[0] = 0 /\ \A k \in 1..n : g[k] = g[k - 1] + s[k].length
    BY <1>1, <1>5, <1>10
  <1>12. \A k \in 0..n : g[k] \in Nat
    <2> DEFINE T == {k \in 0..n : g[k] \in Nat}
    <2>1. 0 \in T
      BY <1>1, <1>11
    <2>2. ASSUME NEW k \in 0..(n - 1), k \in T PROVE k + 1 \in T
      <3>1. k + 1 \in 1..n /\ k + 1 \in 0..n /\ (k + 1) - 1 = k
        BY <1>1
      <3>2. g[k + 1] = g[k] + s[k + 1].length
        BY <1>11, <3>1
      <3> QED
        BY <1>1, <2>2, <3>1, <3>2
    <2>3. 0..n \subseteq T
      <3>1. 0 \in Int /\ n \in Int /\ \A k \in 0..(n - 1) : k \in T => k + 1 \in T
        BY <1>1, <2>2
      <3> HIDE DEF T, n
      <3> QED
        BY ONLY <2>1, <3>1, UpInduction
    <2> QED
      BY <2>3
  <1>13. DOMAIN g = 0..n
    BY <1>10
  <1>14. g \in [0..n -> Nat]
    BY <1>10, <1>12, <1>13
  <1> QED
    BY <1>8, <1>11, <1>14

\* The blocks of t are those of s after the first k, the first of them shorter by d.
LEMMA LengthsOfRest ==
  ASSUME NEW s \in Seq(Blocks), NEW t \in Seq(Blocks), NEW k \in Nat, NEW d \in Nat,
         Len(t) + k <= Len(s), Len(t) > 0, t[1].length = s[k + 1].length - d,
         \A i \in 2..Len(t) : t[i].length = s[k + i].length
  PROVE  \A i \in 1..Len(t) : Lengths(t)[i] = Lengths(s)[k + i] - Lengths(s)[k] - d
  <1>1. /\ Len(s) \in Nat /\ Len(t) \in Nat
        /\ \A i \in 1..Len(t) : t[i].length \in Nat
        /\ \A i \in 1..Len(s) : s[i].length \in Nat
    BY BlockFacts
  <1>2. PICK a, b : a = Lengths(s) /\ b = Lengths(t)
    OBVIOUS
  <1>3. /\ a \in [0..Len(s) -> Nat] /\ \A i \in 1..Len(s) : a[i] = a[i - 1] + s[i].length
        /\ b \in [0..Len(t) -> Nat] /\ b[0] = 0
        /\ \A i \in 1..Len(t) : b[i] = b[i - 1] + t[i].length
    BY <1>2, LengthsAre
  <1> DEFINE T == {i \in 1..Len(t) : b[i] = a[k + i] - a[k] - d}
  <1>4. 1 \in T
    <2>1. k \in 0..Len(s) /\ k + 1 \in 1..Len(s) /\ (k + 1) - 1 = k /\ 1 \in 1..Len(t)
          /\ k + 1 \in 0..Len(s) /\ 1 - 1 = 0
      BY <1>1
    <2>2. a[k + 1] = a[k] + s[k + 1].length /\ b[1] = b[0] + t[1].length
      BY <1>3, <2>1
    <2>3. a[k] \in Nat /\ a[k + 1] \in Nat /\ s[k + 1].length \in Nat /\ t[1].length \in Nat
      BY <1>1, <1>3, <2>1
    <2>4. b[1] = a[k + 1] - a[k] - d
      BY <1>3, <2>2, <2>3
    <2> QED
      BY <2>1, <2>4
  <1>5. ASSUME NEW i \in 1..(Len(t) - 1), i \in T PROVE i + 1 \in T
    <2>1. /\ i + 1 \in 1..Len(t) /\ (i + 1) - 1 = i /\ i + 1 \in 2..Len(t)
          /\ k + (i + 1) \in 1..Len(s) /\ (k + (i + 1)) - 1 = k + i
          /\ k \in 0..Len(s) /\ k + i \in 0..Len(s) /\ k + (i + 1) \in 0..Len(s)
      <3>1. PICK x, y : x = Len(s) /\ y = Len(t)
        OBVIOUS
      <3>2. x \in Nat /\ y \in Nat /\ k \in Nat /\ y + k <= x /\ i \in 1..(y - 1)
        BY <1>1, <3>1
      <3>3. /\ i + 1 \in 1..y /\ (i + 1) - 1 = i /\ i + 1 \in 2..y
            /\ k + (i + 1) \in 1..x /\ (k + (i + 1)) - 1 = k + i
            /\ k \in 0..x /\ k + i \in 0..x /\ k + (i + 1) \in 0..x
        BY ONLY <3>2
      <3> QED
        BY ONLY <3>1, <3>3
    <2>2. b[i + 1] = b[i] + t[i + 1].length
      BY <1>3, <2>1
    <2>3. a[k + (i + 1)] = a[k + i] + s[k + (i + 1)].length
      BY <1>3, <2>1
    <2>4. t[i + 1].length = s[k + (i + 1)].length
      BY <2>1
    <2>5. b[i] = a[k + i] - a[k] - d
      BY <1>5
    <2>6. a[k] \in Nat /\ a[k + i] \in Nat /\ s[k + (i + 1)].length \in Nat
      BY <1>1, <1>3, <2>1
    <2>7. b[i + 1] = a[k + (i + 1)] - a[k] - d
      BY <2>2, <2>3, <2>4, <2>5, <2>6, SMTT(30)
    <2> QED
      BY <2>1, <2>7
  <1>6. 1..Len(t) \subseteq T
    <2>1. PICK n : n = Len(t)
      OBVIOUS
    <2>2. 1 \in Int /\ n \in Int /\ 1 \in T /\ \A i \in 1..(n - 1) : i \in T => i + 1 \in T
      BY <1>1, <1>4, <1>5, <2>1
    <2> HIDE DEF T
    <2>3. 1..n \subseteq T
      BY ONLY <2>2, UpInduction
    <2> QED
      BY <2>1, <2>3
  <1> QED
    BY <1>2, <1>6

LEMMA LengthsGrow ==
  ASSUME NEW s \in Seq(Blocks), NEW k \in 0..Len(s)
  PROVE  \A j \in k..Len(s) : Lengths(s)[k] <= Lengths(s)[j]
  <1>1. PICK a : a = Lengths(s)
    OBVIOUS
  <1>2. /\ Len(s) \in Nat /\ a \in [0..Len(s) -> Nat]
        /\ \A i \in 1..Len(s) : a[i] = a[i - 1] + s[i].length /\ s[i].length \in Nat
    BY <1>1, LengthsAre, BlockFacts
  <1> DEFINE T == {j \in k..Len(s) : a[k] <= a[j]}
  <1>3. k \in T
    BY <1>2
  <1>4. ASSUME NEW j \in k..(Len(s) - 1), j \in T PROVE j + 1 \in T
    <2>1. j + 1 \in 1..Len(s) /\ j + 1 \in k..Len(s) /\ (j + 1) - 1 = j
          /\ j \in 0..Len(s)
      BY <1>2
    <2>2. a[j + 1] = a[j] + s[j + 1].length /\ s[j + 1].length \in Nat
      BY <1>2, <2>1
    <2>3. a[k] \in Nat /\ a[j] \in Nat
      BY <1>2, <2>1
    <2> QED
      BY <1>4, <2>1, <2>2, <2>3
  <1>5. k..Len(s) \subseteq T
    <2>1. PICK n : n = Len(s)
      OBVIOUS
    <2>2. k \in Int /\ n \in Int /\ k \in T /\ \A i \in k..(n - 1) : i \in T => i + 1 \in T
      BY <1>2, <1>3, <1>4, <2>1
    <2> HIDE DEF T
    <2>3. k..n \subseteq T
      BY ONLY <2>2, UpInduction
    <2> QED
      BY <2>1, <2>3
  <1> QED
    BY <1>1, <1>5

-----------------------------------------------------------------------------
(* Output.                                                                 *)

NFields ==
  {"input", "last_input_was_CR", "input_suspended", "output", "output_lines_flushed",
   "binary", "sent", "wire", "hungup", "got", "lost", "read", "lines"}

\* The part of a handle that output does not touch.
SameInput(m, n) ==
  /\ DOMAIN m = NFields
  /\ m.input = n.input /\ m.last_input_was_CR = n.last_input_was_CR /\ m.read = n.read
  /\ m.lines = n.lines /\ m.wire = n.wire /\ m.binary = n.binary

\* LossTold, with what it takes for it to stay so: the lines of the queue are in order
\* and none is beyond the last one sent.
OutOk(n) ==
  /\ DOMAIN n = NFields
  /\ n.output \in Seq(Blocks) /\ n.got \in Seq(Nat)
  /\ n.sent \in Nat /\ n.lost \in Nat /\ n.output_lines_flushed \in Nat
  /\ \A i \in DOMAIN n.output : n.output[i].line \in 1..n.sent
  /\ \A i, j \in DOMAIN n.output : i < j => n.output[i].line < n.output[j].line
  /\ \A g \in ToSet(n.got) : g \in 1..n.sent
  /\ LossTold(n)

\* m is n after its first k blocks went out and a part of the next.
WentOut(m, n, k) ==
  /\ SameInput(m, n)
  /\ m.sent = n.sent /\ m.lost = n.lost /\ m.output_lines_flushed = n.output_lines_flushed
  /\ m.got = n.got \o [i \in 1..k |-> n.output[i].line]
  /\ m.output \in Seq(Blocks) /\ Len(m.output) = Len(n.output) - k
  /\ \A i \in 1..(Len(n.output) - k) : m.output[i].line = n.output[k + i].line
  /\ m.output # <<>> => output_length(m) <= output_length(n)

LEMMA RestIs ==
  ASSUME NEW s \in Seq(Blocks), NEW k \in 0..(Len(s) - 1)
  PROVE  LET rest == SubSeq(s, k + 1, Len(s))
         IN  /\ rest \in Seq(Blocks) /\ Len(rest) = Len(s) - k /\ rest # <<>>
             /\ \A i \in 1..(Len(s) - k) : rest[i] = s[k + i]
  <1> DEFINE rest == SubSeq(s, k + 1, Len(s))
  <1>1. Len(s) \in Nat /\ \A i \in 1..Len(s) : s[i] \in Blocks
    BY BlockFacts
  <1>2. \A i \in (k + 1)..Len(s) : s[i] \in Blocks
    BY <1>1
  <1>3. PICK a, b : a = k + 1 /\ b = Len(s)
    OBVIOUS
  <1>4. /\ SubSeq(s, a, b) \in Seq(Blocks)
        /\ Len(SubSeq(s, a, b)) = IF a <= b THEN b - a + 1 ELSE 0
        /\ \A i \in 1..(b - a + 1) : SubSeq(s, a, b)[i] = s[a + i - 1]
    <2>1. a \in Int /\ b \in Int /\ \A i \in a..b : s[i] \in Blocks
      BY <1>1, <1>2, <1>3
    <2> QED
      BY ONLY <2>1, SubSeqProperties
  <1>5. a <= b /\ b - a + 1 = Len(s) - k /\ \A i \in 1..(Len(s) - k) : a + i - 1 = k + i
    BY <1>1, <1>3
  <1>6. rest \in Seq(Blocks) /\ Len(rest) = Len(s) - k
        /\ \A i \in 1..(Len(s) - k) : rest[i] = s[k + i]
    BY <1>3, <1>4, <1>5
  <1>7. rest # <<>>
    <2> HIDE DEF rest
    <2>1. Len(rest) # 0
      BY <1>1, <1>6
    <2> QED
      BY <2>1
  <1> QED
    BY <1>6, <1>7

\* The queue r after d units of its first block were written.
Shortened(r, d) == <<[r[1] EXCEPT !.length = @ - d]>> \o Tail(r)

LEMMA ShorterFirst ==
  ASSUME NEW r \in Seq(Blocks), r # <<>>, NEW d \in Nat, d <= r[1].length,
         NEW t, t = Shortened(r, d)
  PROVE  /\ t \in Seq(Blocks) /\ Len(t) = Len(r) /\ t # <<>>
         /\ t[1].length = r[1].length - d /\ t[1].line = r[1].line
         /\ \A i \in 2..Len(r) : t[i] = r[i]
  <1>1. Len(r) \in Nat /\ Len(r) > 0 /\ \A i \in 1..Len(r) : r[i] \in Blocks
    BY BlockFacts, EmptySeq
  <1>2. PICK b, one : b = [r[1] EXCEPT !.length = r[1].length - d] /\ one = <<b>>
    OBVIOUS
  <1>3. r[1] \in Blocks
    BY <1>1
  <1>4. b \in Blocks /\ b.length = r[1].length - d /\ b.line = r[1].line
    <2>1. PICK x, y : x = r[1] /\ y = x.length - d
      OBVIOUS
    <2>2. x \in [line : Nat, length : Nat] /\ y \in Nat
      BY <1>3, <2>1 DEF Blocks
    <2>3. b = [x EXCEPT !.length = y]
      BY <1>2, <2>1
    <2>4. b \in [line : Nat, length : Nat] /\ b.length = y /\ b.line = x.line
      BY ONLY <2>2, <2>3
    <2> QED
      BY <2>1, <2>4 DEF Blocks
  <1>5. one \in Seq(Blocks) /\ Len(one) = 1 /\ one[1] = b
    BY <1>2, <1>4
  <1>6. PICK u : u = Tail(r)
    OBVIOUS
  <1>7. u \in Seq(Blocks) /\ Len(u) = Len(r) - 1 /\ \A i \in 1..Len(u) : u[i] = r[i + 1]
    BY <1>6, HeadTailProperties
  <1>8. /\ one \o u \in Seq(Blocks) /\ Len(one \o u) = Len(one) + Len(u)
        /\ \A i \in 1..(Len(one) + Len(u)) :
             (one \o u)[i] = IF i <= Len(one) THEN one[i] ELSE u[i - Len(one)]
    BY ONLY <1>5, <1>7, ConcatProperties, SMTT(30)
  <1>9. t = one \o u
    BY <1>2, <1>6 DEF Shortened
  <1>10. t \in Seq(Blocks) /\ Len(t) = Len(r)
         /\ \A i \in 1..Len(r) : t[i] = IF i <= 1 THEN one[i] ELSE u[i - 1]
    <2>1. Len(one) = 1 /\ Len(u) = Len(r) - 1 /\ 1 + (Len(r) - 1) = Len(r)
      BY <1>1, <1>5, <1>7
    <2> QED
      BY <1>8, <1>9, <2>1
  <1>11. t[1] = b
    BY <1>1, <1>5, <1>10
  <1>12. ASSUME NEW i \in 2..Len(r) PROVE t[i] = r[i]
    <2>1. i \in 1..Len(r) /\ ~(i <= 1) /\ i - 1 \in 1..Len(u) /\ (i - 1) + 1 = i
      BY <1>1, <1>7
    <2> QED
      BY <1>7, <1>10, <2>1
  <1> QED
    BY <1>1, <1>4, <1>10, <1>11, <1>12, EmptySeq

\* write() of the blocks that fit.
LEMMA WriteIs ==
  ASSUME NEW n, OutOk(n), NEW room \in Nat, NEW m, m = WriteBlocks(n, room)
  PROVE  \E k \in 0..Len(n.output) : WentOut(m, n, k)
  <1>1. PICK s, a : s = n.output /\ a = Lengths(s)
    OBVIOUS
  <1>2. s \in Seq(Blocks) /\ DOMAIN n = NFields
    BY <1>1 DEF OutOk
  <1>3. /\ Len(s) \in Nat /\ a \in [0..Len(s) -> Nat] /\ a[0] = 0
        /\ \A i \in 1..Len(s) : a[i] = a[i - 1] + s[i].length /\ s[i].length \in Nat
    BY <1>1, <1>2, LengthsAre, BlockFacts
  <1> DEFINE fits == {i \in 0..Len(s) : a[i] <= room}
             k == CHOOSE i \in fits : \A j \in fits : j <= i
             rest == SubSeq(s, k + 1, Len(s))
             over == room - a[k]
             t == IF rest = <<>> THEN rest
                  ELSE <<[rest[1] EXCEPT !.length = @ - over]>> \o Tail(rest)
  <1>4. m = [n EXCEPT !.got = @ \o [i \in 1..k |-> s[i].line], !.output = t]
    BY <1>1 DEF WriteBlocks
  <1>5. k \in 0..Len(s) /\ a[k] <= room /\ \A j \in fits : j <= k
    <2>1. 0 \in fits
      BY <1>3
    <2>2. \E x \in fits : \A y \in fits : x >= y
      <3>1. PICK b : b = Len(s)
        OBVIOUS
      <3>2. b \in Int /\ fits \subseteq Int /\ fits # {} /\ \A x \in fits : x <= b
        BY <1>3, <2>1, <3>1
      <3> HIDE DEF fits
      <3> QED
        BY ONLY <3>2, GreatestNumber
    <2>3. \E x \in fits : \A y \in fits : y <= x
      <3>1. fits \subseteq Int
        BY <1>3
      <3> HIDE DEF fits
      <3> QED
        BY <2>2, <3>1
    <2>4. k \in fits /\ \A j \in fits : j <= k
      <3> HIDE DEF fits
      <3> QED
        BY <2>3
    <2> QED
      BY <2>4
  <1> HIDE DEF k
  <1>6. over \in Nat
    BY <1>3, <1>5
  <1>7. t \in Seq(Blocks) /\ Len(t) = Len(s) - k
        /\ (\A i \in 1..(Len(s) - k) : t[i].line = s[k + i].line)
        /\ (t # <<>> => Lengths(t)[Len(t)] <= a[Len(s)])
    <2>1. CASE k = Len(s)
      <3>1. rest = <<>>
        <4>1. PICK x, y : x = k + 1 /\ y = Len(s)
          OBVIOUS
        <4>2. x \in Int /\ y \in Int /\ y < x
          BY <1>3, <2>1, <4>1
        <4>3. SubSeq(s, x, y) = <<>>
          BY ONLY <4>2, SubSeqEmpty
        <4> QED
          BY <4>1, <4>3
      <3>2. t = <<>>
        BY <3>1
      <3>3. 1..(Len(s) - k) = {} /\ Len(s) - k = 0
        BY <1>3, <2>1
      <3> QED
        BY <3>2, <3>3, EmptySeq
    <2>2. CASE k # Len(s)
      <3>1. k \in 0..(Len(s) - 1) /\ k + 1 \in 1..Len(s) /\ k + 1 \in 0..Len(s)
            /\ (k + 1) - 1 = k /\ k \in Nat
        BY <1>3, <1>5, <2>2
      <3>2. /\ rest \in Seq(Blocks) /\ Len(rest) = Len(s) - k /\ rest # <<>>
            /\ \A i \in 1..(Len(s) - k) : rest[i] = s[k + i]
        BY <1>2, <3>1, RestIs
      <3>3. rest[1] = s[k + 1] /\ 1 \in 1..(Len(s) - k)
        BY <1>3, <3>1, <3>2
      <3>4. ~(a[k + 1] <= room)
        BY <1>3, <1>5, <3>1
      <3>5. over <= rest[1].length
        <4>1. a[k + 1] = a[k] + s[k + 1].length /\ s[k + 1].length \in Nat
              /\ a[k] \in Nat /\ a[k + 1] \in Nat
          BY <1>3, <3>1
        <4>2. room - a[k] <= s[k + 1].length
          BY <3>4, <4>1
        <4> HIDE DEF rest
        <4> QED
          BY <3>3, <4>2
      <3>6. PICK r, d : r = rest /\ d = over
        OBVIOUS
      <3>7. t = <<[r[1] EXCEPT !.length = @ - d]>> \o Tail(r)
        BY <3>2, <3>6
      <3>8. r \in Seq(Blocks) /\ r # <<>> /\ d \in Nat /\ d <= r[1].length
        BY <1>6, <3>2, <3>5, <3>6
      <3>9. PICK u : u = t
        OBVIOUS
      <3>10. /\ u \in Seq(Blocks) /\ Len(u) = Len(r) /\ u # <<>>
             /\ u[1].length = r[1].length - d /\ u[1].line = r[1].line
             /\ \A i \in 2..Len(r) : u[i] = r[i]
        <4>1. u = Shortened(r, d)
          BY <3>7, <3>9 DEF Shortened
        <4> QED
          BY ONLY <3>8, <4>1, ShorterFirst
      <3>11. Len(u) = Len(s) - k /\ \A i \in 1..Len(u) : r[i] = s[k + i]
        BY <3>2, <3>6, <3>10
      <3>12. \A i \in 1..Len(u) : i = 1 \/ i \in 2..Len(u)
        BY <1>3, <3>1, <3>11
      <3>13. \A i \in 1..Len(u) : u[i].line = s[k + i].line
        BY <3>10, <3>11, <3>12
      <3>14. /\ Len(u) + k <= Len(s) /\ Len(u) > 0 /\ u[1].length = s[k + 1].length - d
             /\ \A i \in 2..Len(u) : u[i].length = s[k + i].length
        <4>1. \A i \in 2..Len(u) : i \in 1..Len(u)
          OBVIOUS
        <4> QED
          BY <1>3, <3>1, <3>3, <3>6, <3>10, <3>11, <4>1
      <3>15. \A i \in 1..Len(u) : Lengths(u)[i] = Lengths(s)[k + i] - Lengths(s)[k] - d
        BY ONLY <1>2, <3>1, <3>8, <3>10, <3>14, LengthsOfRest, ZenonT(60)
      <3>16. Lengths(u)[Len(u)] = a[Len(s)] - a[k] - d
        <4>1. Len(u) \in 1..Len(u) /\ k + Len(u) = Len(s)
          BY <1>3, <3>1, <3>11
        <4> QED
          BY <1>1, <3>15, <4>1
      <3>17. Lengths(u)[Len(u)] <= a[Len(s)]
        <4>1. a[Len(s)] \in Nat /\ a[k] \in Nat
          BY <1>3, <1>5
        <4> QED
          BY <3>8, <3>16, <4>1
      <3> QED
        BY <3>9, <3>10, <3>11, <3>13, <3>17
    <2> QED
      BY <2>1, <2>2
  <1> HIDE DEF t
  <1>8. /\ DOMAIN m = NFields /\ m.output = t /\ m.got = n.got \o [i \in 1..k |-> s[i].line]
        /\ m.input = n.input /\ m.last_input_was_CR = n.last_input_was_CR /\ m.read = n.read
        /\ m.lines = n.lines /\ m.wire = n.wire /\ m.binary = n.binary
        /\ m.sent = n.sent /\ m.lost = n.lost /\ m.output_lines_flushed = n.output_lines_flushed
    BY <1>2, <1>4 DEF NFields
  <1>9. WentOut(m, n, k)
    BY <1>1, <1>7, <1>8 DEF WentOut, SameInput, output_length
  <1> QED
    BY <1>1, <1>5, <1>9

Queued(n) == {n.output[i].line : i \in DOMAIN n.output}
Missing(n) == (1..n.sent) \ (ToSet(n.got) \cup Queued(n))

LEMMA MissingFinite ==
  ASSUME NEW n, n.sent \in Nat
  PROVE  /\ IsFiniteSet(Missing(n)) /\ Cardinality(Missing(n)) \in Nat
         /\ \A S : S \subseteq Missing(n) =>
              IsFiniteSet(S) /\ Cardinality(S) <= Cardinality(Missing(n))
  <1>1. IsFiniteSet(1..n.sent)
    BY FS_Interval
  <1>2. IsFiniteSet(Missing(n))
    BY <1>1, FS_Subset DEF Missing
  <1>3. Cardinality(Missing(n)) \in Nat
    BY <1>2, FS_CardinalityType
  <1> QED
    BY <1>2, <1>3, FS_Subset

\* LossTold in terms of these.
LEMMA LossIs ==
  ASSUME NEW n
  PROVE  LossTold(n) <=>
           /\ \A i, j \in DOMAIN n.got : i < j => n.got[i] < n.got[j]
           /\ \A g \in ToSet(n.got), q \in Queued(n) : g < q
           /\ Cardinality(Missing(n)) = n.lost + n.output_lines_flushed
           /\ \A g \in ToSet(n.got) : Cardinality((1..g) \ ToSet(n.got)) <= n.lost
           /\ Len(n.output) > 1 => output_length(n) <= MAX_QUEUED_OUTPUT
  BY DEF LossTold, Missing, Queued

\* Lines are written only when the client knows of those that were lost.
LEMMA SentOut ==
  ASSUME NEW n, NEW m, OutOk(n), n.output_lines_flushed = 0,
         NEW k \in 0..Len(n.output), WentOut(m, n, k)
  PROVE  OutOk(m)
  <1>1. PICK s, t, old, L, G :
          s = n.output /\ t = m.output /\ old = n.got /\ L = Len(s) /\ G = Len(old)
    OBVIOUS
  <1>2. /\ DOMAIN n = NFields /\ s \in Seq(Blocks) /\ old \in Seq(Nat)
        /\ n.sent \in Nat /\ n.lost \in Nat
        /\ \A i \in DOMAIN s : s[i].line \in 1..n.sent
        /\ \A i, j \in DOMAIN s : i < j => s[i].line < s[j].line
        /\ \A g \in ToSet(old) : g \in 1..n.sent
        /\ \A i, j \in DOMAIN old : i < j => old[i] < old[j]
        /\ \A g \in ToSet(old), q \in Queued(n) : g < q
        /\ Cardinality(Missing(n)) = n.lost
        /\ \A g \in ToSet(old) : Cardinality((1..g) \ ToSet(old)) <= n.lost
        /\ L > 1 => output_length(n) <= MAX_QUEUED_OUTPUT
    <2>1. /\ DOMAIN n = NFields /\ n.output \in Seq(Blocks) /\ n.got \in Seq(Nat)
          /\ n.sent \in Nat /\ n.lost \in Nat /\ n.output_lines_flushed = 0
          /\ \A i \in DOMAIN n.output : n.output[i].line \in 1..n.sent
          /\ \A i, j \in DOMAIN n.output : i < j => n.output[i].line < n.output[j].line
          /\ \A g \in ToSet(n.got) : g \in 1..n.sent
          /\ LossTold(n)
      BY DEF OutOk
    <2>2. /\ \A i, j \in DOMAIN n.got : i < j => n.got[i] < n.got[j]
          /\ \A g \in ToSet(n.got), q \in Queued(n) : g < q
          /\ Cardinality(Missing(n)) = n.lost + n.output_lines_flushed
          /\ \A g \in ToSet(n.got) : Cardinality((1..g) \ ToSet(n.got)) <= n.lost
          /\ Len(n.output) > 1 => output_length(n) <= MAX_QUEUED_OUTPUT
      BY ONLY <2>1, LossIs
    <2>3. Cardinality(Missing(n)) = n.lost
      BY <2>1, <2>2
    <2> QED
      BY <1>1, <2>1, <2>2, <2>3
  <1>3. /\ L \in Nat /\ DOMAIN s = 1..L /\ k \in 0..L
        /\ \A i \in 1..L : s[i].line \in Nat
        /\ G \in Nat /\ DOMAIN old = 1..G
        /\ \A i \in 1..G : old[i] \in Nat /\ old[i] \in ToSet(old)
        /\ \A x : x \in ToSet(old) => \E i \in 1..G : old[i] = x
    <2>1. L \in Nat /\ DOMAIN s = 1..L /\ \A i \in 1..L : s[i].line \in Nat
      BY <1>1, <1>2, BlockFacts
    <2>2. G \in Nat /\ DOMAIN old = 1..G /\ \A i \in 1..G : old[i] \in Nat
      BY <1>1, <1>2, ListFacts
    <2> QED
      BY <1>1, <2>1, <2>2 DEF ToSet
  <1>4. /\ DOMAIN m = NFields /\ m.sent = n.sent /\ m.lost = n.lost /\ m.output_lines_flushed = 0
        /\ m.got = old \o [i \in 1..k |-> s[i].line]
        /\ t \in Seq(Blocks) /\ Len(t) = L - k /\ DOMAIN t = 1..(L - k)
        /\ \A i \in 1..(L - k) : t[i].line = s[k + i].line
        /\ t # <<>> => output_length(m) <= output_length(n)
    BY <1>1, BlockFacts DEF WentOut, SameInput
  <1>5. PICK new, got : new = [i \in 1..k |-> s[i].line] /\ got = old \o new
    OBVIOUS
  <1>6. new \in Seq(Nat) /\ Len(new) = k /\ \A i \in 1..k : new[i] = s[i].line
    <2>1. k \in Nat /\ \A i \in 1..k : i \in 1..L
      BY <1>3
    <2> QED
      BY <1>3, <1>5, <2>1
  <1>7. /\ got \in Seq(Nat) /\ Len(got) = G + k /\ DOMAIN got = 1..(G + k)
        /\ \A i \in 1..(G + k) : got[i] = IF i <= G THEN old[i] ELSE new[i - G]
    <2>1. /\ old \o new \in Seq(Nat) /\ Len(old \o new) = Len(old) + Len(new)
          /\ \A i \in 1..(Len(old) + Len(new)) :
               (old \o new)[i] = IF i <= Len(old) THEN old[i] ELSE new[i - Len(old)]
      BY ONLY <1>2, <1>6, ConcatProperties
    <2>2. got \in Seq(Nat) /\ Len(got) = G + k
          /\ \A i \in 1..(G + k) : got[i] = IF i <= G THEN old[i] ELSE new[i - G]
      BY <1>1, <1>5, <1>6, <2>1
    <2> QED
      BY <2>2, ListFacts
  <1>8. /\ \A i \in 1..G : i \in 1..(G + k) /\ got[i] = old[i]
        /\ \A i \in 1..k : G + i \in 1..(G + k) /\ got[G + i] = s[i].line
        /\ \A i \in 1..(G + k) : i \in 1..G \/ (i - G \in 1..k /\ G + (i - G) = i)
    <2>1. k \in Nat /\ G \in Nat
      BY <1>3
    <2>2. \A i \in 1..G : i \in 1..(G + k) /\ i <= G
      BY <2>1
    <2>3. \A i \in 1..k : G + i \in 1..(G + k) /\ ~(G + i <= G) /\ (G + i) - G = i
      BY <2>1
    <2>4. \A i \in 1..(G + k) : i \in 1..G \/ (i - G \in 1..k /\ G + (i - G) = i)
      BY <2>1
    <2> QED
      BY <1>6, <1>7, <2>2, <2>3, <2>4
  <1>9. \A x : x \in ToSet(got) <=> x \in ToSet(old) \/ \E i \in 1..k : x = s[i].line
    <2>1. ASSUME NEW x \in ToSet(got) PROVE x \in ToSet(old) \/ \E i \in 1..k : x = s[i].line
      <3>1. PICK j \in 1..(G + k) : got[j] = x
        BY <1>7 DEF ToSet
      <3>2. CASE j \in 1..G
        BY <1>3, <1>8, <3>1, <3>2
      <3>3. CASE j - G \in 1..k /\ G + (j - G) = j
        BY <1>8, <3>1, <3>3
      <3> QED
        BY <1>8, <3>2, <3>3
    <2>2. ASSUME NEW x \in ToSet(old) PROVE x \in ToSet(got)
      BY <1>3, <1>7, <1>8 DEF ToSet
    <2>3. ASSUME NEW i \in 1..k PROVE s[i].line \in ToSet(got)
      BY <1>7, <1>8 DEF ToSet
    <2> QED
      BY <2>1, <2>2, <2>3
  <1>10. /\ \A i \in 1..k : i \in 1..L
         /\ \A i \in 1..(L - k) : k + i \in 1..L /\ \A j \in 1..k : j < k + i
         /\ \A i \in 1..L : i \in 1..k \/ (i - k \in 1..(L - k) /\ k + (i - k) = i)
    BY <1>3
  <1>11. \A x : x \in Queued(m) <=> \E i \in 1..(L - k) : x = s[k + i].line
    BY <1>1, <1>4, ZenonT(60) DEF Queued
  <1>12. \A x : x \in Queued(n) <=> \E i \in 1..L : x = s[i].line
    BY <1>1, <1>3 DEF Queued
  <1>13. ToSet(got) \cup Queued(m) = ToSet(old) \cup Queued(n)
    <2>1. ASSUME NEW x, \E i \in 1..L : x = s[i].line
          PROVE  (\E i \in 1..k : x = s[i].line) \/ (\E i \in 1..(L - k) : x = s[k + i].line)
      <3>1. PICK i \in 1..L : x = s[i].line
        BY <2>1
      <3> QED
        BY <1>10, <3>1
    <2> QED
      BY <1>9, <1>10, <1>11, <1>12, <2>1
  <1>14. Missing(m) = Missing(n)
    BY <1>1, <1>4, <1>5, <1>13 DEF Missing
  <1>15. ASSUME NEW g \in ToSet(got), NEW q \in Queued(m) PROVE g < q
    <2>1. PICK i \in 1..(L - k) : q = s[k + i].line
      BY <1>11
    <2>2. CASE g \in ToSet(old)
      BY <1>2, <1>10, <1>12, <2>1, <2>2
    <2>3. CASE \E j \in 1..k : g = s[j].line
      <3>1. PICK j \in 1..k : g = s[j].line
        BY <2>3
      <3>2. j \in 1..L /\ k + i \in 1..L /\ j < k + i
        BY <1>10
      <3> QED
        BY <1>2, <1>3, <2>1, <3>1, <3>2
    <2> QED
      BY <1>9, <2>2, <2>3
  <1>16. ASSUME NEW i \in 1..(G + k), NEW j \in 1..(G + k), i < j PROVE got[i] < got[j]
    <2>1. CASE i \in 1..G /\ j \in 1..G
      BY <1>2, <1>3, <1>8, <1>16, <2>1
    <2>2. CASE i \in 1..G /\ j \notin 1..G
      <3>1. j - G \in 1..k /\ G + (j - G) = j
        BY <1>8, <2>2
      <3>2. got[j] = s[j - G].line /\ got[j] \in Queued(n)
        BY <1>8, <1>10, <1>12, <3>1
      <3> QED
        BY <1>2, <1>3, <1>8, <2>2, <3>2
    <2>3. CASE i \notin 1..G
      <3>1. j \notin 1..G
        BY <1>3, <1>16, <2>3
      <3>2. i - G \in 1..k /\ G + (i - G) = i /\ j - G \in 1..k /\ G + (j - G) = j
        BY <1>8, <2>3, <3>1
      <3>3. i - G < j - G
        BY <1>3, <1>16
      <3>4. s[i - G].line < s[j - G].line
        BY <1>2, <1>3, <1>10, <3>2, <3>3
      <3> QED
        BY <1>8, <3>2, <3>4
    <2> QED
      BY <2>1, <2>2, <2>3
  <1>17. ASSUME NEW g \in ToSet(got) PROVE Cardinality((1..g) \ ToSet(got)) <= n.lost
    <2>1. CASE g \in ToSet(old)
      <3>1. ASSUME NEW i \in 1..k PROVE g < s[i].line
        BY <1>2, <1>10, <1>12, <2>1
      <3>2. g \in Nat
        BY <1>2, <2>1
      <3>3. (1..g) \ ToSet(got) = (1..g) \ ToSet(old)
        <4>1. ASSUME NEW x \in 1..g, x \in ToSet(got) PROVE x \in ToSet(old)
          <5>1. \A i \in 1..k : x # s[i].line
            BY <1>3, <1>10, <3>1, <3>2
          <5> QED
            BY <1>9, <4>1, <5>1
        <4> QED
          BY <1>9, <4>1
      <3> QED
        BY <1>2, <2>1, <3>3
    <2>2. CASE \E j \in 1..k : g = s[j].line
      <3>1. PICK j \in 1..k : g = s[j].line
        BY <2>2
      <3>2. g \in 1..n.sent
        BY <1>2, <1>3, <1>10, <3>1
      <3>3. ASSUME NEW x \in (1..g) \ ToSet(got) PROVE x \in Missing(m)
        <4>1. x \in 1..n.sent
          BY <1>2, <3>2
        <4>2. x \notin Queued(m)
          <5>1. ASSUME NEW i \in 1..(L - k) PROVE x # s[k + i].line
            <6>1. s[j].line < s[k + i].line /\ s[k + i].line \in Nat
              BY <1>2, <1>3, <1>10
            <6> QED
              BY <1>2, <3>1, <3>2, <6>1
          <5> QED
            BY <1>11, <5>1
        <4> QED
          BY <1>4, <1>5, <4>1, <4>2 DEF Missing
      <3>4. Cardinality((1..g) \ ToSet(got)) <= Cardinality(Missing(m))
        <4>1. (1..g) \ ToSet(got) \subseteq Missing(m)
          BY <3>3
        <4> QED
          BY <1>2, <1>4, <4>1, MissingFinite
      <3> QED
        BY <1>2, <1>14, <3>4
    <2> QED
      BY <1>9, <2>1, <2>2
  <1>18. LossTold(m)
    <2>1. Cardinality(Missing(m)) = m.lost + m.output_lines_flushed
      BY <1>2, <1>4, <1>14
    <2>2. Len(m.output) > 1 => output_length(m) <= MAX_QUEUED_OUTPUT
      <3> SUFFICES ASSUME Len(t) > 1 PROVE output_length(m) <= MAX_QUEUED_OUTPUT
        BY <1>1
      <3>1. L > 1 /\ t # <<>>
        <4>1. Len(t) # 0
          OBVIOUS
        <4>2. t # <<>>
          BY <4>1
        <4> QED
          BY <1>3, <1>4, <4>2
      <3>2. output_length(m) <= output_length(n) /\ output_length(n) <= MAX_QUEUED_OUTPUT
        BY <1>2, <1>4, <3>1
      <3>3. output_length(m) \in Nat /\ output_length(n) \in Nat /\ MAX_QUEUED_OUTPUT \in Nat
        <4>1. \A x \in Seq(Blocks) : Len(x) \in 0..Len(x) /\ Lengths(x)[Len(x)] \in Nat
          <5>1. TAKE x \in Seq(Blocks)
          <5>2. Len(x) \in 0..Len(x)
            BY BlockFacts
          <5> QED
            BY <5>2, LengthsAre
        <4> QED
          BY <1>1, <1>2, <1>4, <4>1, NetworkAssumption DEF output_length
      <3> QED
        BY <3>2, <3>3
    <2>3. \A i, j \in DOMAIN m.got : i < j => m.got[i] < m.got[j]
      BY <1>4, <1>5, <1>7, <1>16
    <2> QED
      BY <1>4, <1>5, <1>15, <1>17, <2>1, <2>2, <2>3, LossIs
  <1>19. /\ \A i \in DOMAIN t : t[i].line \in 1..m.sent
         /\ \A i, j \in DOMAIN t : i < j => t[i].line < t[j].line
    <2>1. \A i, j \in 1..(L - k) : i < j => k + i < k + j
      BY <1>3
    <2>2. \A i \in 1..L : s[i].line \in 1..n.sent
      BY <1>2, <1>3
    <2>3. \A i, j \in 1..(L - k) : i < j => s[k + i].line < s[k + j].line
      BY <1>2, <1>3, <1>10, <2>1
    <2>4. DOMAIN t = 1..(L - k) /\ m.sent = n.sent
          /\ \A i \in 1..(L - k) : t[i].line = s[k + i].line /\ k + i \in 1..L
      BY <1>4, <1>10
    <2>5. \A i \in 1..(L - k) : t[i].line \in 1..m.sent
      BY ONLY <2>2, <2>4
    <2>6. \A i, j \in 1..(L - k) : i < j => t[i].line < t[j].line
      BY ONLY <2>3, <2>4
    <2> QED
      BY ONLY <2>4, <2>5, <2>6
  <1>20. ASSUME NEW g \in ToSet(got) PROVE g \in 1..m.sent
    <2>1. \A i \in 1..k : s[i].line \in 1..n.sent
      BY <1>2, <1>3, <1>10
    <2>2. (\A x \in ToSet(old) : x \in 1..n.sent) /\ m.sent = n.sent
      BY <1>2, <1>4
    <2>3. g \in ToSet(old) \/ \E i \in 1..k : g = s[i].line
      BY <1>9, <1>20
    <2> QED
      BY ONLY <2>1, <2>2, <2>3
  <1> QED
    BY <1>1, <1>2, <1>4, <1>5, <1>7, <1>18, <1>19, <1>20 DEF OutOk

\* The count of lost lines goes into the notice.
LEMMA NoticeKeeps ==
  ASSUME NEW n, OutOk(n), NEW m,
         m = [n EXCEPT !.output_lines_flushed = 0, !.lost = @ + n.output_lines_flushed]
  PROVE  OutOk(m) /\ SameInput(m, n) /\ m.output_lines_flushed = 0 /\ m.sent = n.sent
  <1>1. /\ DOMAIN n = NFields /\ n.output \in Seq(Blocks) /\ n.got \in Seq(Nat)
        /\ n.sent \in Nat /\ n.lost \in Nat /\ n.output_lines_flushed \in Nat
        /\ \A i \in DOMAIN n.output : n.output[i].line \in 1..n.sent
        /\ \A i, j \in DOMAIN n.output : i < j => n.output[i].line < n.output[j].line
        /\ \A g \in ToSet(n.got) : g \in 1..n.sent
        /\ LossTold(n)
    BY DEF OutOk
  <1>2. /\ \A i, j \in DOMAIN n.got : i < j => n.got[i] < n.got[j]
        /\ \A g \in ToSet(n.got), q \in Queued(n) : g < q
        /\ Cardinality(Missing(n)) = n.lost + n.output_lines_flushed
        /\ \A g \in ToSet(n.got) : Cardinality((1..g) \ ToSet(n.got)) <= n.lost
        /\ Len(n.output) > 1 => output_length(n) <= MAX_QUEUED_OUTPUT
    BY ONLY <1>1, LossIs
  <1>3. /\ DOMAIN m = NFields /\ m.output = n.output /\ m.got = n.got /\ m.sent = n.sent
        /\ m.lost = n.lost + n.output_lines_flushed /\ m.output_lines_flushed = 0
        /\ m.input = n.input /\ m.last_input_was_CR = n.last_input_was_CR /\ m.read = n.read
        /\ m.lines = n.lines /\ m.wire = n.wire /\ m.binary = n.binary
    BY <1>1 DEF NFields
  <1>4. Missing(m) = Missing(n) /\ Queued(m) = Queued(n) /\ output_length(m) = output_length(n)
    BY <1>3 DEF Missing, Queued, output_length
  <1>5. m.lost \in Nat /\ n.lost <= m.lost /\ m.lost + m.output_lines_flushed = n.lost + n.output_lines_flushed
    BY <1>1, <1>3
  <1>6. \A g \in ToSet(m.got) : Cardinality((1..g) \ ToSet(m.got)) <= m.lost
    <2>1. TAKE g \in ToSet(m.got)
    <2>2. g \in Nat
      BY <1>1, <1>3
    <2>3. Cardinality((1..g) \ ToSet(n.got)) \in Nat
      <3>1. IsFiniteSet(1..g)
        BY <2>2, FS_Interval
      <3>2. IsFiniteSet((1..g) \ ToSet(n.got))
        BY <3>1, FS_Subset
      <3> QED
        BY <3>2, FS_CardinalityType
    <2> QED
      BY <1>1, <1>2, <1>3, <1>5, <2>3
  <1>7. LossTold(m)
    BY <1>2, <1>3, <1>4, <1>5, <1>6, LossIs
  <1> QED
    BY <1>1, <1>3, <1>5, <1>7 DEF OutOk, SameInput

LEMMA PushKeeps ==
  ASSUME NEW n, OutOk(n), NEW room \in Nat, NEW m, m = push_output(n, room).n
  PROVE  OutOk(m) /\ m.sent = n.sent /\ (m = n \/ SameInput(m, n))
  <1>1. CASE n.hungup /\ (n.output_lines_flushed > 0 \/ n.output # <<>>)
    BY <1>1 DEF push_output
  <1>2. CASE ~(n.hungup /\ (n.output_lines_flushed > 0 \/ n.output # <<>>))
    <2>1. CASE n.output_lines_flushed = 0
      <3>1. m = WriteBlocks(n, room)
        BY <1>2, <2>1 DEF push_output
      <3>2. PICK k \in 0..Len(n.output) : WentOut(m, n, k)
        BY ONLY <3>1, OutOk(n), room \in Nat, WriteIs
      <3>3. OutOk(m)
        BY ONLY <2>1, <3>2, OutOk(n), SentOut
      <3> QED
        BY <3>2, <3>3 DEF WentOut
    <2>2. CASE n.output_lines_flushed # 0 /\ room < NoticeLength
      BY <1>2, <2>2 DEF push_output
    <2>3. CASE n.output_lines_flushed # 0 /\ ~(room < NoticeLength)
      <3>1. PICK o, left : /\ o = [n EXCEPT !.output_lines_flushed = 0,
                                            !.lost = @ + n.output_lines_flushed]
                           /\ left = room - NoticeLength
        OBVIOUS
      <3>2. OutOk(o) /\ SameInput(o, n) /\ o.output_lines_flushed = 0 /\ o.sent = n.sent
        BY ONLY <3>1, OutOk(n), NoticeKeeps
      <3>3. m = WriteBlocks(o, left)
        BY <1>2, <2>3, <3>1 DEF push_output
      <3>4. left \in Nat
        BY <2>3, <3>1, NetworkAssumption
      <3>5. PICK k \in 0..Len(o.output) : WentOut(m, o, k)
        BY ONLY <3>2, <3>3, <3>4, WriteIs
      <3>6. OutOk(m)
        BY ONLY <3>2, <3>5, SentOut
      <3> QED
        BY <3>2, <3>5, <3>6 DEF WentOut, SameInput
    <2> QED
      BY <2>1, <2>2, <2>3
  <1> QED
    BY <1>1, <1>2

\* As many lines as were dropped are missing that were not.
LEMMA DroppedCount ==
  ASSUME NEW s \in Seq(Blocks), NEW k \in 0..Len(s),
         \A i, j \in 1..Len(s) : i < j => s[i].line < s[j].line
  PROVE  LET D == {s[i].line : i \in 1..k} IN IsFiniteSet(D) /\ Cardinality(D) = k
  <1> DEFINE D(j) == {s[i].line : i \in 1..j}
             T == {j \in 0..k : IsFiniteSet(D(j)) /\ Cardinality(D(j)) = j}
  <1>1. Len(s) \in Nat /\ \A i \in 1..Len(s) : s[i].line \in Nat
    BY BlockFacts
  <1>2. 0 \in T
    <2>1. D(0) = {}
      OBVIOUS
    <2> HIDE DEF D
    <2>2. IsFiniteSet(D(0)) /\ Cardinality(D(0)) = 0
      BY ONLY <2>1, FS_EmptySet
    <2>3. 0 \in 0..k
      BY <1>1
    <2> QED
      BY <2>2, <2>3
  <1>3. ASSUME NEW j \in 0..(k - 1), j \in T PROVE j + 1 \in T
    <2>1. j + 1 \in 0..k /\ j + 1 \in 1..Len(s) /\ j \in Nat
      BY <1>1
    <2>2. \A i : i \in 1..(j + 1) <=> i \in 1..j \/ i = j + 1
      BY <2>1
    <2>3. D(j + 1) = D(j) \cup {s[j + 1].line}
      BY <2>2
    <2>4. ASSUME NEW i \in 1..j PROVE s[i].line # s[j + 1].line
      <3>1. i \in 1..Len(s) /\ i < j + 1
        BY <1>1, <2>1
      <3> QED
        BY <1>1, <2>1, <3>1
    <2>5. s[j + 1].line \notin D(j)
      BY <2>4
    <2>6. IsFiniteSet(D(j)) /\ Cardinality(D(j)) = j
      BY <1>3
    <2>7. PICK X, x : X = D(j) /\ x = s[j + 1].line
      OBVIOUS
    <2> HIDE DEF D
    <2>8. IsFiniteSet(X) /\ x \notin X /\ Cardinality(X) = j
      BY <2>5, <2>6, <2>7
    <2>9. IsFiniteSet(X \cup {x}) /\ Cardinality(X \cup {x}) = j + 1
      BY ONLY <2>8, FS_AddElement
    <2> QED
      BY <2>1, <2>3, <2>7, <2>9
  <1>4. k \in T
    <2>1. PICK b : b = k
      OBVIOUS
    <2> HIDE DEF T
    <2>2. 0 \in Int /\ b \in Int /\ 0 \in T /\ \A j \in 0..(b - 1) : j \in T => j + 1 \in T
      BY <1>1, <1>2, <1>3, <2>1
    <2>3. 0..b \subseteq T
      BY ONLY <2>2, UpInduction
    <2>4. k \in 0..b
      BY <1>1, <2>1
    <2> QED
      BY <2>3, <2>4
  <1> QED
    BY <1>4

\* m is n with its first k lines dropped and the next line queued.
Enqueued(m, n, k) ==
  /\ SameInput(m, n)
  /\ m.sent = n.sent + 1 /\ m.lost = n.lost /\ m.got = n.got
  /\ m.output_lines_flushed = n.output_lines_flushed + k
  /\ m.output = Append(SubSeq(n.output, k + 1, Len(n.output)), Block(n.sent + 1))

\* t is what is left of s after its first k blocks, and a block with the line.
Rest(s, k, line, t) ==
  /\ s \in Seq(Blocks) /\ k \in 0..Len(s) /\ line \in Nat
  /\ t = Append(SubSeq(s, k + 1, Len(s)), Block(line))

LEMMA AppendedIs ==
  ASSUME NEW s, NEW k, NEW line, NEW t, Rest(s, k, line, t)
  PROVE  /\ t \in Seq(Blocks) /\ Len(t) = Len(s) - k + 1
         /\ \A i \in 1..(Len(s) - k) : t[i] = s[k + i]
         /\ t[Len(s) - k + 1] = Block(line)
  <1>0. /\ s \in Seq(Blocks) /\ k \in 0..Len(s) /\ line \in Nat
        /\ t = Append(SubSeq(s, k + 1, Len(s)), Block(line))
    BY DEF Rest
  <1> USE <1>0
  <1>1. Len(s) \in Nat /\ \A i \in 1..Len(s) : s[i] \in Blocks
    BY BlockFacts
  <1>2. PICK r, e : r = SubSeq(s, k + 1, Len(s)) /\ e = Block(line)
    OBVIOUS
  <1>3. e \in Blocks
    BY <1>2, NetworkAssumption DEF Block, Blocks
  <1>4. r \in Seq(Blocks) /\ Len(r) = Len(s) - k /\ \A i \in 1..(Len(s) - k) : r[i] = s[k + i]
    <2>1. CASE k = Len(s)
      <3>1. PICK x, y : x = k + 1 /\ y = Len(s)
        OBVIOUS
      <3>2. x \in Int /\ y \in Int /\ y < x
        BY <1>1, <2>1, <3>1
      <3>3. SubSeq(s, x, y) = <<>>
        BY ONLY <3>2, SubSeqEmpty
      <3>4. r = <<>> /\ 1..(Len(s) - k) = {} /\ Len(s) - k = 0
        BY <1>1, <1>2, <2>1, <3>1, <3>3
      <3> QED
        BY <3>4
    <2>2. CASE k # Len(s)
      <3>1. k \in 0..(Len(s) - 1)
        BY <1>1, <2>2
      <3> QED
        BY <1>2, <3>1, RestIs
    <2> QED
      BY <2>1, <2>2
  <1>5. /\ Append(r, e) \in Seq(Blocks) /\ Len(Append(r, e)) = Len(r) + 1
        /\ \A i \in 1..Len(r) : Append(r, e)[i] = r[i]
        /\ Append(r, e)[Len(r) + 1] = e
    BY ONLY <1>3, <1>4, AppendProperties
  <1> QED
    BY <1>2, <1>4, <1>5

LEMMA EnqueuedLength ==
  ASSUME NEW s \in Seq(Blocks), NEW k \in 0..Len(s), NEW line \in Nat, NEW t,
         t = Append(SubSeq(s, k + 1, Len(s)), Block(line)), k # Len(s)
  PROVE  Lengths(t)[Len(t)] = Lengths(s)[Len(s)] - Lengths(s)[k] + LineLength
  <1>1. /\ Len(s) \in Nat /\ t \in Seq(Blocks) /\ Len(t) = Len(s) - k + 1
        /\ \A i \in 1..(Len(s) - k) : t[i] = s[k + i]
        /\ t[Len(s) - k + 1] = Block(line)
    <2>1. Len(s) \in Nat
      BY BlockFacts
    <2>2. Rest(s, k, line, t)
      BY DEF Rest
    <2>3. /\ t \in Seq(Blocks) /\ Len(t) = Len(s) - k + 1
          /\ \A i \in 1..(Len(s) - k) : t[i] = s[k + i]
          /\ t[Len(s) - k + 1] = Block(line)
      BY ONLY <2>2, AppendedIs
    <2> QED
      BY <2>1, <2>3
  <1>2. PICK r : r = SubSeq(s, k + 1, Len(s))
    OBVIOUS
  <1>3. k \in 0..(Len(s) - 1) /\ k \in Nat
    BY <1>1
  <1>4. r \in Seq(Blocks) /\ Len(r) = Len(s) - k /\ \A i \in 1..(Len(s) - k) : r[i] = s[k + i]
    BY <1>2, <1>3, RestIs
  <1>5. PICK R : R = Len(r)
    OBVIOUS
  <1>6. R \in Nat /\ R > 0 /\ R + k = Len(s) /\ Len(t) = R + 1 /\ Len(r) = R
    BY <1>1, <1>3, <1>4, <1>5
  <1>7. /\ \A i \in 1..R : r[i] = s[k + i] /\ t[i] = r[i] /\ i \in 1..Len(s)
        /\ t[R + 1] = Block(line)
    <2>1. R = Len(s) - k
      BY <1>4, <1>5
    <2> QED
      BY <1>1, <1>4, <2>1
  <1>8. \A x \in Blocks : x.length \in Nat
    BY DEF Blocks
  <1>9. \A i \in 1..R : Lengths(r)[i] = Lengths(s)[k + i] - Lengths(s)[k]
    <2>1. PICK d : d = 0
      OBVIOUS
    <2>2. s[k + 1] \in Blocks /\ 1 \in 1..R
      BY <1>1, <1>3, <1>6, BlockFacts
    <2>3. /\ d \in Nat /\ Len(r) + k <= Len(s) /\ Len(r) > 0
          /\ r[1].length = s[k + 1].length - d
          /\ \A i \in 2..Len(r) : r[i].length = s[k + i].length
      BY <1>1, <1>6, <1>7, <1>8, <2>1, <2>2, SMTT(30)
    <2>4. \A i \in 1..Len(r) : Lengths(r)[i] = Lengths(s)[k + i] - Lengths(s)[k] - d
      BY ONLY s \in Seq(Blocks), <1>3, <1>4, <2>3, LengthsOfRest, ZenonT(60)
    <2>5. PICK l, a, N : l = Lengths(r) /\ a = Lengths(s) /\ N = Len(s)
      OBVIOUS
    <2>6. k \in Nat /\ R \in Nat /\ N \in Nat /\ R + k = N
      BY <1>1, <1>3, <1>6, <2>5
    <2>7. k \in 0..N /\ \A i \in 1..R : k + i \in 0..N
      BY ONLY <2>6
    <2>8. a \in [0..N -> Nat]
      BY <2>5, LengthsAre
    <2>9. a[k] \in Nat /\ \A i \in 1..R : a[k + i] \in Nat
      BY ONLY <2>7, <2>8
    <2>10. d = 0 /\ \A i \in 1..R : l[i] = a[k + i] - a[k] - d
      BY <1>6, <2>1, <2>4, <2>5
    <2>11. \A i \in 1..R : l[i] = a[k + i] - a[k]
      BY ONLY <2>9, <2>10
    <2> QED
      BY <2>5, <2>11
  <1>10. \A i \in 1..R : Lengths(r)[i] = Lengths(t)[i]
    <2>1. PICK d, z : d = 0 /\ z = 0
      OBVIOUS
    <2>2. /\ d \in Nat /\ z \in Nat /\ Len(r) + z <= Len(t) /\ Len(r) > 0
          /\ r[1].length = t[z + 1].length - d
          /\ \A i \in 2..Len(r) : r[i].length = t[z + i].length
      <3>1. 1 \in 1..R /\ r[1] \in Blocks /\ r[1] = t[1]
        BY <1>4, <1>6, <1>7, BlockFacts
      <3>2. \A i \in 2..R : z + i = i /\ i \in 1..R
        BY <1>6, <2>1
      <3>3. z + 1 = 1 /\ r[1].length \in Nat
        BY <1>8, <2>1, <3>1
      <3> QED
        BY <1>6, <1>7, <2>1, <3>1, <3>2, <3>3
    <2>3. \A i \in 1..Len(r) : Lengths(r)[i] = Lengths(t)[z + i] - Lengths(t)[z] - d
      BY ONLY <1>1, <1>4, <2>2, LengthsOfRest, ZenonT(60)
    <2>4. Lengths(t)[0] = 0 /\ Lengths(t) \in [0..Len(t) -> Nat]
      BY <1>1, LengthsAre
    <2>5. PICK l, b : l = Lengths(r) /\ b = Lengths(t)
      OBVIOUS
    <2>6. R \in Nat /\ d = 0 /\ z = 0 /\ b[0] = 0 /\ b \in [0..(R + 1) -> Nat]
          /\ \A i \in 1..R : l[i] = b[z + i] - b[z] - d
      BY <1>6, <2>1, <2>3, <2>4, <2>5
    <2>7. \A i \in 1..R : i \in 0..(R + 1) /\ z + i = i
      BY <2>6
    <2>8. \A i \in 1..R : b[i] \in Nat
      BY ONLY <2>6, <2>7
    <2>9. \A i \in 1..R : l[i] = b[i]
      BY ONLY <2>6, <2>7, <2>8
    <2> QED
      BY <2>5, <2>9
  <1>11. Lengths(t)[R + 1] = Lengths(t)[R] + LineLength
    <2>1. R + 1 \in 1..Len(t) /\ (R + 1) - 1 = R
      BY <1>6
    <2>2. t[R + 1].length = LineLength
      <3>1. PICK b : b = t[R + 1]
        OBVIOUS
      <3>2. b = [line |-> line, length |-> LineLength]
        BY <1>7, <3>1 DEF Block
      <3>3. b.length = LineLength
        BY ONLY <3>2
      <3> QED
        BY <3>1, <3>3
    <2> QED
      BY <1>1, <2>1, <2>2, LengthsAre
  <1>12. R \in 1..R /\ k + R = Len(s)
    BY <1>3, <1>6
  <1> QED
    BY <1>6, <1>9, <1>10, <1>11, <1>12

\* Lines that make room are counted, and the queue keeps within its bound.
LEMMA EnqueuedKeeps ==
  ASSUME NEW n, NEW m, OutOk(n), NEW k \in 0..Len(n.output), Enqueued(m, n, k),
         \/ k = Len(n.output)
         \/ output_length(n) - Lengths(n.output)[k] + LineLength <= MAX_QUEUED_OUTPUT
  PROVE  OutOk(m)
  <1>1. PICK s, t, L, top : s = n.output /\ t = m.output /\ L = Len(s) /\ top = n.sent + 1
    OBVIOUS
  <1>2. /\ DOMAIN n = NFields /\ s \in Seq(Blocks) /\ n.got \in Seq(Nat)
        /\ n.sent \in Nat /\ n.lost \in Nat /\ n.output_lines_flushed \in Nat
        /\ \A i \in DOMAIN s : s[i].line \in 1..n.sent
        /\ \A i, j \in DOMAIN s : i < j => s[i].line < s[j].line
        /\ \A g \in ToSet(n.got) : g \in 1..n.sent
        /\ LossTold(n)
    BY <1>1 DEF OutOk
  <1>3. /\ \A i, j \in DOMAIN n.got : i < j => n.got[i] < n.got[j]
        /\ \A g \in ToSet(n.got), q \in Queued(n) : g < q
        /\ Cardinality(Missing(n)) = n.lost + n.output_lines_flushed
        /\ \A g \in ToSet(n.got) : Cardinality((1..g) \ ToSet(n.got)) <= n.lost
    BY ONLY <1>2, LossIs
  <1>4. /\ L \in Nat /\ k \in 0..L /\ k \in Nat /\ DOMAIN s = 1..L /\ top \in Nat /\ top = n.sent + 1
        /\ \A i \in 1..L : s[i].line \in Nat /\ s[i].line \in 1..n.sent
        /\ \A i, j \in 1..L : i < j => s[i].line < s[j].line
    <2>1. L \in Nat /\ DOMAIN s = 1..L /\ \A i \in 1..L : s[i].line \in Nat
      BY <1>1, <1>2, BlockFacts
    <2>2. k \in 0..L
      BY <1>1
    <2>3. k \in Nat /\ top \in Nat /\ top = n.sent + 1
      BY <1>1, <1>2, <2>1, <2>2
    <2>4. /\ \A i \in 1..L : s[i].line \in 1..n.sent
          /\ \A i, j \in 1..L : i < j => s[i].line < s[j].line
      BY <1>2, <2>1
    <2> QED
      BY <2>1, <2>2, <2>3, <2>4
  <1>5. /\ DOMAIN m = NFields /\ m.sent = top /\ m.lost = n.lost /\ m.got = n.got
        /\ m.output_lines_flushed = n.output_lines_flushed + k
        /\ t = Append(SubSeq(s, k + 1, L), Block(top))
    BY <1>1 DEF Enqueued, SameInput
  <1>6. /\ t \in Seq(Blocks) /\ Len(t) = L - k + 1
        /\ \A i \in 1..(L - k) : t[i] = s[k + i]
        /\ t[L - k + 1] = Block(top)
    <2>1. Rest(s, k, top, t)
      BY <1>1, <1>2, <1>4, <1>5 DEF Rest
    <2>2. /\ t \in Seq(Blocks) /\ Len(t) = Len(s) - k + 1
          /\ \A i \in 1..(Len(s) - k) : t[i] = s[k + i]
          /\ t[Len(s) - k + 1] = Block(top)
      BY ONLY <2>1, AppendedIs
    <2> QED
      BY <1>1, <2>2
  <1>7. PICK R : R = L - k
    OBVIOUS
  <1>8. /\ R \in Nat /\ Len(t) = R + 1 /\ DOMAIN t = 1..(R + 1)
        /\ \A i \in 1..R : t[i].line = s[k + i].line /\ k + i \in 1..L
        /\ t[R + 1].line = top
    <2>1. R \in Nat /\ Len(t) = R + 1 /\ \A i \in 1..R : k + i \in 1..L
      BY <1>4, <1>6, <1>7
    <2>2. DOMAIN t = 1..Len(t)
      BY <1>6, BlockFacts
    <2>3. t[R + 1].line = top
      <3>1. PICK b : b = t[R + 1]
        OBVIOUS
      <3>2. b = [line |-> top, length |-> LineLength]
        BY <1>6, <1>7, <3>1 DEF Block
      <3>3. b.line = top
        BY ONLY <3>2
      <3> QED
        BY <3>1, <3>3
    <2> QED
      BY <1>6, <1>7, <2>1, <2>2, <2>3
  <1>9. \A i : i \in 1..(R + 1) <=> i \in 1..R \/ i = R + 1
    BY <1>8
  <1>10. \A x : x \in Queued(m) <=> x = top \/ \E i \in 1..R : x = s[k + i].line
    <2>1. \A x : x \in Queued(m) <=> \E i \in 1..(R + 1) : x = t[i].line
      BY <1>1, <1>8 DEF Queued
    <2>2. ASSUME NEW x, x \in Queued(m) PROVE x = top \/ \E i \in 1..R : x = s[k + i].line
      <3>1. PICK i \in 1..(R + 1) : x = t[i].line
        BY <2>1, <2>2
      <3> QED
        BY <1>8, <1>9, <3>1
    <2>3. ASSUME NEW x, x = top PROVE x \in Queued(m)
      BY <1>8, <1>9, <2>1, <2>3
    <2>4. ASSUME NEW i \in 1..R PROVE s[k + i].line \in Queued(m)
      BY <1>8, <1>9, <2>1
    <2> QED
      BY <2>2, <2>3, <2>4
  <1>11. \A x : x \in Queued(n) <=> \E i \in 1..L : x = s[i].line
    BY <1>1, <1>4 DEF Queued
  <1> DEFINE D == {s[i].line : i \in 1..k}
  <1>12. IsFiniteSet(D) /\ Cardinality(D) = k
    <2>1. k \in 0..Len(s) /\ \A i, j \in 1..Len(s) : i < j => s[i].line < s[j].line
      BY <1>1, <1>4
    <2> QED
      BY ONLY <1>2, <2>1, DroppedCount
  <1>13. /\ \A i \in 1..k : i \in 1..L /\ \A j \in 1..R : i < k + j
         /\ \A i \in 1..L : i \in 1..k \/ (i - k \in 1..R /\ k + (i - k) = i)
    BY <1>4, <1>7
  <1>14. ASSUME NEW x PROVE x \in D <=> x \in Queued(n) /\ x \notin Queued(m)
    <2>1. ASSUME x \in D PROVE x \in Queued(n) /\ x \notin Queued(m)
      <3>1. PICK i \in 1..k : x = s[i].line
        BY <2>1
      <3>2. i \in 1..L /\ x \in Queued(n) /\ x \in 1..n.sent
        BY <1>4, <1>11, <1>13, <3>1
      <3>3. x # top
        BY <1>2, <1>4, <3>2
      <3>4. ASSUME NEW j \in 1..R PROVE x # s[k + j].line
        <4>1. i < k + j /\ i \in 1..L /\ k + j \in 1..L
          BY <1>8, <1>13
        <4> QED
          BY <1>4, <3>1, <4>1
      <3> QED
        BY <1>10, <3>2, <3>3, <3>4
    <2>2. ASSUME x \in Queued(n), x \notin Queued(m) PROVE x \in D
      <3>1. PICK i \in 1..L : x = s[i].line
        BY <1>11, <2>2
      <3>2. CASE i - k \in 1..R /\ k + (i - k) = i
        BY <1>10, <2>2, <3>1, <3>2
      <3> QED
        BY <1>13, <3>1, <3>2
    <2> QED
      BY <2>1, <2>2
  <1>15. \A x \in Queued(n) : x \in 1..n.sent /\ x \notin ToSet(n.got)
    <2>1. TAKE x \in Queued(n)
    <2>2. x \in 1..n.sent
      BY <1>4, <1>11
    <2> QED
      BY <1>2, <1>3, <2>2
  <1>16. Missing(m) = Missing(n) \cup D /\ Missing(n) \cap D = {}
    <2>1. \A x : x \in 1..top <=> x \in 1..n.sent \/ x = top
      BY <1>2, <1>4
    <2>2. top \in Queued(m)
      BY <1>10
    <2>3. ASSUME NEW x PROVE x \in Missing(m) <=> x \in 1..n.sent /\ x \notin ToSet(n.got) /\ x \notin Queued(m)
      <3>1. x \in Missing(m) <=> x \in 1..top /\ x \notin ToSet(n.got) /\ x \notin Queued(m)
        BY <1>5 DEF Missing
      <3> QED
        BY <2>1, <2>2, <3>1
    <2>4. ASSUME NEW x \in Queued(m) PROVE x = top \/ x \in Queued(n)
      BY <1>8, <1>10, <1>11, ZenonT(60)
    <2>5. top \notin 1..n.sent
      BY <1>2, <1>4
    <2>6. ASSUME NEW x PROVE x \in Missing(n) <=> x \in 1..n.sent /\ x \notin ToSet(n.got) /\ x \notin Queued(n)
      BY DEF Missing
    <2> HIDE DEF D
    <2>7. ASSUME NEW x PROVE x \in Missing(m) <=> x \in Missing(n) \/ x \in D
      BY <1>14, <1>15, <2>3, <2>4, <2>5, <2>6
    <2>8. ASSUME NEW x PROVE ~(x \in Missing(n) /\ x \in D)
      BY <1>14, <2>6
    <2> QED
      BY <2>7, <2>8
  <1>17. Cardinality(Missing(m)) = m.lost + m.output_lines_flushed
    <2>1. PICK A, B : A = Missing(n) /\ B = D
      OBVIOUS
    <2>2. IsFiniteSet(A) /\ Cardinality(A) \in Nat
      BY <1>2, <2>1, MissingFinite
    <2>3. IsFiniteSet(B) /\ Cardinality(B) = k /\ A \cap B = {}
      BY <1>12, <1>16, <2>1
    <2>4. Cardinality(A \cup B) = Cardinality(A) + Cardinality(B) - Cardinality(A \cap B)
      BY ONLY <2>2, <2>3, FS_Union
    <2>5. Cardinality(A \cap B) = 0
      BY <2>3, FS_EmptySet
    <2>6. Cardinality(A \cup B) = Cardinality(A) + k
      BY <1>4, <2>2, <2>3, <2>4, <2>5
    <2> QED
      BY <1>2, <1>3, <1>4, <1>5, <1>16, <2>1, <2>6
  <1>18. ASSUME NEW g \in ToSet(n.got), NEW q \in Queued(m) PROVE g < q
    <2>1. g \in 1..n.sent
      BY <1>2
    <2>2. CASE q = top
      BY <1>2, <1>4, <2>1, <2>2
    <2>3. CASE q # top
      <3>1. PICK i \in 1..R : q = s[k + i].line
        BY <1>10, <2>3
      <3>2. k + i \in 1..L
        BY <1>8
      <3>3. q \in Queued(n)
        BY <1>11, <3>1, <3>2
      <3> QED
        BY <1>3, <3>3
    <2> QED
      BY <2>2, <2>3
  <1>19. Len(m.output) > 1 => output_length(m) <= MAX_QUEUED_OUTPUT
    <2> SUFFICES ASSUME Len(t) > 1 PROVE output_length(m) <= MAX_QUEUED_OUTPUT
      BY <1>1
    <2>1. k # L
      BY <1>4, <1>6
    <2>2. /\ k \in 0..Len(s) /\ t = Append(SubSeq(s, k + 1, Len(s)), Block(top)) /\ k # Len(s)
      BY <1>1, <1>4, <1>5, <2>1
    <2>3. Lengths(t)[Len(t)] = Lengths(s)[Len(s)] - Lengths(s)[k] + LineLength
      BY ONLY <1>2, <1>4, <2>2, EnqueuedLength
    <2> QED
      BY <1>1, <2>1, <2>3 DEF output_length
  <1>20. LossTold(m)
    BY <1>3, <1>5, <1>17, <1>18, <1>19, LossIs
  <1>21. \A i \in 1..(R + 1) : t[i].line \in 1..top
    <2>1. \A x \in 1..n.sent : x \in 1..top
      BY <1>2, <1>4
    <2>2. top \in 1..top
      BY <1>2, <1>4
    <2> QED
      BY <1>4, <1>8, <1>9, <2>1, <2>2
  <1>22. ASSUME NEW i \in 1..(R + 1), NEW j \in 1..(R + 1), i < j PROVE t[i].line < t[j].line
    <2>1. i \in 1..R
      BY <1>8, <1>22
    <2>2. CASE j \in 1..R
      <3>1. k + i < k + j /\ k + i \in 1..L /\ k + j \in 1..L
        <4>1. k + i < k + j
          BY <1>4, <1>8, <1>22
        <4> QED
          BY <1>8, <2>1, <2>2, <4>1
      <3> QED
        BY <1>4, <1>8, <2>1, <2>2, <3>1
    <2>3. CASE j = R + 1
      <3>1. t[i].line \in 1..n.sent
        BY <1>4, <1>8, <2>1
      <3> QED
        BY <1>2, <1>4, <1>8, <2>3, <3>1
    <2> QED
      BY <1>9, <2>2, <2>3
  <1>23. \A g \in ToSet(m.got) : g \in 1..m.sent
    <2>1. \A x \in 1..n.sent : x \in 1..top
      BY <1>2, <1>4
    <2> QED
      BY <1>2, <1>5, <2>1
  <1> QED
    <2>1. /\ m.output \in Seq(Blocks) /\ m.got \in Seq(Nat) /\ m.sent \in Nat
          /\ m.lost \in Nat /\ m.output_lines_flushed \in Nat
      BY <1>1, <1>2, <1>4, <1>5, <1>6, SMTT(30)
    <2>2. /\ \A i \in DOMAIN m.output : m.output[i].line \in 1..m.sent
          /\ \A i, j \in DOMAIN m.output : i < j => m.output[i].line < m.output[j].line
      BY <1>1, <1>5, <1>8, <1>21, <1>22
    <2> QED
      BY <1>5, <1>20, <1>23, <2>1, <2>2 DEF OutOk

LEMMA EnqueueKeeps ==
  ASSUME NEW n, OutOk(n), NEW room \in Nat, NEW flush_ok \in BOOLEAN, NEW m,
         m = enqueue_output(n, flush_ok, room).n
  PROVE  OutOk(m) /\ (m = n \/ SameInput(m, n))
  <1> DEFINE full(x) == output_length(x) + LineLength > MAX_QUEUED_OUTPUT
  <1>1. PICK p : p = IF n.output # <<>> /\ full(n) THEN push_output(n, room).n ELSE n
    OBVIOUS
  <1>2. OutOk(p) /\ p.sent = n.sent /\ (p = n \/ SameInput(p, n))
    <2>1. CASE n.output # <<>> /\ full(n)
      <3>1. p = push_output(n, room).n
        BY <1>1, <2>1
      <3> QED
        BY ONLY <3>1, OutOk(n), room \in Nat, PushKeeps
    <2>2. CASE ~(n.output # <<>> /\ full(n))
      BY <1>1, <2>2
    <2> QED
      BY <2>1, <2>2
  <1>3. PICK must : must = (n.output # <<>> /\ full(n) /\ full(p))
    OBVIOUS
  <1>4. PICK f : f = IF must THEN Flushed(p) ELSE p
    OBVIOUS
  <1>5. PICK new : new = [f EXCEPT !.output = Append(@, Block(n.sent + 1)), !.sent = @ + 1]
    OBVIOUS
  <1>6. m = IF must /\ ~flush_ok THEN p ELSE new
    BY <1>1, <1>3, <1>4, <1>5 DEF enqueue_output
  <1>7. PICK s : s = p.output
    OBVIOUS
  <1>8. /\ s \in Seq(Blocks) /\ Len(s) \in Nat /\ DOMAIN p = NFields
        /\ p.output_lines_flushed \in Nat
        /\ Lengths(s) \in [0..Len(s) -> Nat] /\ Lengths(s)[0] = 0
        /\ {MAX_QUEUED_OUTPUT, LineLength} \subseteq Nat
    <2>1. s \in Seq(Blocks) /\ DOMAIN p = NFields /\ p.output_lines_flushed \in Nat
      BY <1>2, <1>7 DEF OutOk
    <2> QED
      BY <2>1, BlockFacts, LengthsAre, NetworkAssumption
  <1> DEFINE Drops(k) ==
               /\ DOMAIN f = NFields /\ f.output = SubSeq(s, k + 1, Len(s))
               /\ f.output_lines_flushed = p.output_lines_flushed + k
               /\ f.input = p.input /\ f.last_input_was_CR = p.last_input_was_CR /\ f.read = p.read
               /\ f.lines = p.lines /\ f.wire = p.wire /\ f.binary = p.binary
               /\ f.sent = p.sent /\ f.lost = p.lost /\ f.got = p.got
  <1>9. \E k \in 0..Len(s) :
          /\ Drops(k)
          /\ k = Len(s) \/ output_length(p) - Lengths(s)[k] + LineLength <= MAX_QUEUED_OUTPUT
    <2>1. CASE must
      <3> DEFINE enough == {i \in 0..Len(s) :
                              output_length(p) - Lengths(s)[i] + LineLength <= MAX_QUEUED_OUTPUT
                              \/ i = Len(s)}
                 k == CHOOSE i \in enough : \A j \in enough : i <= j
      <3>1. f = [p EXCEPT !.output = SubSeq(@, k + 1, Len(@)), !.output_lines_flushed = @ + k]
        BY <1>4, <1>7, <2>1 DEF Flushed
      <3>2. Len(s) \in enough /\ enough \subseteq Nat
        BY <1>8
      <3>3. \E i \in enough : \A j \in enough : i <= j
        <4>1. PICK T : T = enough
          OBVIOUS
        <4>2. T \subseteq Nat /\ T # {}
          BY <3>2, <4>1
        <4>3. \E i \in T : \A j \in T : i <= j
          BY ONLY <4>2, LeastNumber
        <4> QED
          BY <4>1, <4>3
      <3>4. k \in enough
        <4> HIDE DEF enough
        <4> QED
          BY <3>3
      <3> HIDE DEF k
      <3>5. Drops(k)
        BY <1>7, <1>8, <3>1 DEF NFields
      <3> QED
        BY <3>4, <3>5
    <2>2. CASE ~must
      <3>1. f = p
        BY <1>4, <2>2
      <3>2. Drops(0)
        <4>1. SubSeq(s, 0 + 1, Len(s)) = s
          BY <1>8, SubSeqFull
        <4>2. p.output_lines_flushed + 0 = p.output_lines_flushed
          BY <1>8
        <4> QED
          BY <1>7, <1>8, <3>1, <4>1, <4>2
      <3>3. CASE n.output # <<>>
        <4>1. ~full(p)
          <5>1. CASE full(n)
            BY <1>3, <2>2, <3>3, <5>1
          <5>2. CASE ~full(n)
            BY <1>1, <5>2
          <5> QED
            BY <5>1, <5>2
        <4>2. output_length(p) \in Nat /\ Lengths(s)[0] = 0 /\ 0 \in 0..Len(s)
          <5>1. Len(s) \in 0..Len(s)
            BY <1>8
          <5> QED
            BY <1>7, <1>8, <5>1 DEF output_length
        <4>3. output_length(p) - Lengths(s)[0] + LineLength <= MAX_QUEUED_OUTPUT
          BY <1>8, <4>1, <4>2
        <4> QED
          BY <3>1, <3>2, <4>2, <4>3
      <3>4. CASE n.output = <<>>
        <4>1. s = <<>> /\ Len(s) = 0 /\ 0 \in 0..Len(s)
          BY <1>1, <1>7, <3>4
        <4> QED
          BY <3>1, <3>2, <4>1
      <3> QED
        BY <3>3, <3>4
    <2> QED
      BY <2>1, <2>2
  <1>10. PICK k \in 0..Len(s) :
          /\ Drops(k)
          /\ k = Len(s) \/ output_length(p) - Lengths(s)[k] + LineLength <= MAX_QUEUED_OUTPUT
    BY <1>9
  <1>11. Enqueued(new, p, k)
    <2>1. Drops(k)
      BY <1>10
    <2>2. /\ DOMAIN new = NFields /\ new.output = Append(f.output, Block(n.sent + 1))
          /\ new.output_lines_flushed = f.output_lines_flushed
          /\ new.input = f.input /\ new.last_input_was_CR = f.last_input_was_CR /\ new.read = f.read
          /\ new.lines = f.lines /\ new.wire = f.wire /\ new.binary = f.binary
          /\ new.sent = f.sent + 1 /\ new.lost = f.lost /\ new.got = f.got
      BY <1>5, <2>1 DEF NFields
    <2> QED
      BY <1>2, <1>7, <2>1, <2>2 DEF Enqueued, SameInput
  <1>12. OutOk(new)
    <2>1. /\ k \in 0..Len(p.output)
          /\ k = Len(p.output) \/ output_length(p) - Lengths(p.output)[k] + LineLength <= MAX_QUEUED_OUTPUT
      BY <1>7, <1>10
    <2> QED
      BY ONLY <1>2, <1>11, <2>1, EnqueuedKeeps
  <1>13. SameInput(new, n)
    BY <1>2, <1>11 DEF Enqueued, SameInput
  <1> QED
    BY <1>2, <1>6, <1>12, <1>13

-----------------------------------------------------------------------------
(* Input.                                                                  *)

Chars == {"x", "CR", "LF", "BS", "ctl"}
Texts == Seq(Chars)
Entry == [c : Chars \cup {"END"}, binary : BOOLEAN]

LEMMA KeptIn ==
  ASSUME NEW text \in Texts, NEW c \in {"x", "BS"}
  PROVE  Kept(text, c) \in Texts
  <1>1. CASE c = "BS"
    <2>1. PICK s, a, b : s = text /\ a = 1 /\ b = Len(text) - 1
      OBVIOUS
    <2>2. a \in Int /\ b \in Int /\ \A i \in a..b : s[i] \in Chars
      <3>1. Len(text) \in Nat /\ \A i \in 1..Len(text) : text[i] \in Chars
        BY ListFacts DEF Texts
      <3> QED
        BY <2>1, <3>1
    <2>3. SubSeq(s, a, b) \in Seq(Chars)
      BY ONLY <2>2, SubSeqProperties
    <2> QED
      BY <1>1, <2>1, <2>3 DEF Kept, Texts
  <1>2. CASE c # "BS"
    <2>1. c \in Chars
      BY <1>2 DEF Chars
    <2>2. Append(text, c) \in Texts
      BY <2>1, AppendProperties DEF Texts
    <2> QED
      BY <1>2, <2>2 DEF Kept
  <1> QED
    BY <1>1, <1>2

LEMMA WithByteIn ==
  ASSUME NEW text \in Texts, NEW e \in Entry
  PROVE  WithByte(text, e) \in Texts
  <1>1. e.c \in Chars \cup {"END"}
    BY DEF Entry
  <1>2. CASE e.binary /\ e.c # "END"
    <2>1. e.c \in Chars
      BY <1>1, <1>2
    <2>2. Append(text, e.c) \in Texts
      BY <2>1, AppendProperties DEF Texts
    <2> QED
      BY <1>2, <2>2 DEF WithByte
  <1>3. CASE ~(e.binary /\ e.c # "END") /\ ~e.binary /\ e.c \in {"x", "BS"}
    BY <1>3, KeptIn DEF WithByte
  <1>4. CASE ~(e.binary /\ e.c # "END") /\ ~(~e.binary /\ e.c \in {"x", "BS"})
    BY <1>4 DEF WithByte
  <1> QED
    BY <1>2, <1>3, <1>4

ContentBy(g, r, a, b) ==
  /\ \A i \in 0..b : g[i] \in Texts
  /\ \A i \in 0..b : g[i] = IF i <= a THEN <<>> ELSE WithByte(g[i - 1], r[i])
  /\ Content(r, a, b) = g[b]

LEMMA ContentIs ==
  ASSUME NEW r \in Seq(Entry), NEW a \in Nat, NEW b \in 0..Len(r)
  PROVE  \E g : ContentBy(g, r, a, b)
  <1> DEFINE F == [i \in 1..b |-> [x \in Texts |-> IF i <= a THEN <<>> ELSE WithByte(x, r[i])]]
             G(f) == [i \in 0..b |-> IF i <= a THEN <<>> ELSE WithByte(f[i - 1], r[i])]
  <1>1. b \in Nat /\ \A i \in 1..b : r[i] \in Entry
    <2>1. Len(r) \in Nat /\ \A i \in 1..Len(r) : r[i] \in Entry
      BY ListFacts
    <2> QED
      BY <2>1
  <1>2. <<>> \in Texts
    BY DEF Texts
  <1>3. F \in [1..b -> [Texts -> Texts]]
    BY <1>1, <1>2, WithByteIn
  <1>4. \E f \in [0..b -> Texts] : f[0] = <<>> /\ \A i \in 1..b : f[i] = F[i][f[i - 1]]
    <2>1. PICK D, base, m, f : D = Texts /\ base = <<>> /\ m = b /\ f = F
      OBVIOUS
    <2>2. base \in D /\ m \in Nat /\ f \in [1..m -> [D -> D]]
      BY <1>1, <1>2, <1>3, <2>1
    <2> HIDE DEF F, G
    <2>3. HasChain(D, base, m, f)
      BY ONLY <2>2, ChainIn
    <2> QED
      BY <2>1, <2>3 DEF HasChain
  <1>5. PICK f \in [0..b -> Texts] : f[0] = <<>> /\ \A i \in 1..b : f[i] = F[i][f[i - 1]]
    BY <1>4
  <1>6. \A i \in 1..b : i \in 0..b /\ i - 1 \in 0..b
    BY <1>1
  <1>7. \A i \in 1..b : f[i] = IF i <= a THEN <<>> ELSE WithByte(f[i - 1], r[i])
    BY <1>5, <1>6
  <1>8. f = G(f)
    <2>1. \A k \in 0..b : k = 0 \/ k \in 1..b
      BY <1>1
    <2>2. \A i \in 0..b : f[i] = IF i <= a THEN <<>> ELSE WithByte(f[i - 1], r[i])
      BY <1>5, <1>7, <2>1
    <2> QED
      BY <2>2
  <1>9. PICK g : g = CHOOSE h : h = G(h)
    OBVIOUS
  <1>10. Content(r, a, b) = g[b]
    BY <1>9 DEF Content
  <1>11. g = G(g)
    <2> HIDE DEF G
    <2> QED
      BY <1>8, <1>9
  <1>12. \A i \in 0..b : g[i] = IF i <= a THEN <<>> ELSE WithByte(g[i - 1], r[i])
    BY <1>11
  <1>13. \A i \in 0..b : g[i] \in Texts
    <2>1. PICK D, n : D = Texts /\ n = b
      OBVIOUS
    <2>2. n \in Nat /\ g[0] \in D
      BY <1>1, <1>2, <1>12, <2>1
    <2>3. \A i \in 1..n : g[i - 1] \in D => g[i] \in D
      BY <1>1, <1>2, <1>6, <1>12, <2>1, WithByteIn
    <2>4. \A i \in 0..n : g[i] \in D
      BY ONLY <2>2, <2>3, ChainStays
    <2> QED
      BY <2>1, <2>4
  <1> QED
    BY <1>10, <1>12, <1>13 DEF ContentBy

\* What the bytes that are read later do not change.
LEMMA ContentSame ==
  ASSUME NEW r \in Seq(Entry), NEW e \in Entry, NEW a \in Nat, NEW b \in 0..Len(r)
  PROVE  Content(Append(r, e), a, b) = Content(r, a, b)
  <1>1. PICK q : q = Append(r, e)
    OBVIOUS
  <1>2. /\ q \in Seq(Entry) /\ Len(q) = Len(r) + 1 /\ Len(r) \in Nat
        /\ \A i \in 1..Len(r) : q[i] = r[i]
    BY <1>1, AppendProperties, ListFacts
  <1>3. b \in Nat /\ b \in 0..Len(q) /\ \A i \in 1..b : i \in 0..b /\ i \in 1..Len(r)
    BY <1>2
  <1>4. PICK f : ContentBy(f, r, a, b)
    BY ContentIs
  <1>5. PICK g : ContentBy(g, q, a, b)
    BY <1>2, <1>3, ContentIs
  <1>6. f[0] = g[0]
    BY <1>3, <1>4, <1>5 DEF ContentBy
  <1>7. \A i \in 1..b : f[i - 1] = g[i - 1] => f[i] = g[i]
    BY <1>2, <1>3, <1>4, <1>5 DEF ContentBy
  <1>8. \A i \in 0..b : f[i] = g[i]
    <2>1. PICK k : k = b
      OBVIOUS
    <2>2. k \in Nat /\ \A i \in 1..k : f[i - 1] = g[i - 1] => f[i] = g[i]
      BY <1>3, <1>7, <2>1
    <2>3. \A i \in 0..k : f[i] = g[i]
      BY ONLY <1>6, <2>2, ChainAgree, SMTT(30)
    <2> QED
      BY <2>1, <2>3
  <1>9. b \in 0..b
    BY <1>3
  <1> QED
    BY <1>1, <1>4, <1>5, <1>8, <1>9 DEF ContentBy

LEMMA ContentStep ==
  ASSUME NEW r \in Seq(Entry), NEW e \in Entry, NEW a \in 0..Len(r)
  PROVE  /\ Content(r, a, Len(r)) \in Texts
         /\ Content(Append(r, e), a, Len(r) + 1) = WithByte(Content(r, a, Len(r)), e)
         /\ Content(r, Len(r), Len(r)) = <<>>
  <1>1. PICK q, L : q = Append(r, e) /\ L = Len(r)
    OBVIOUS
  <1>2. /\ q \in Seq(Entry) /\ Len(q) = L + 1 /\ L \in Nat /\ q[L + 1] = e
        /\ \A i \in 1..L : q[i] = r[i]
    BY <1>1, AppendProperties, ListFacts
  <1>3. /\ a \in Nat /\ L \in 0..Len(r) /\ L + 1 \in 0..Len(q) /\ L \in 0..L /\ L + 1 \in 0..(L + 1)
        /\ \A i \in 1..L : i \in 0..L /\ i \in 0..(L + 1)
        /\ 0 \in 0..L /\ 0 \in 0..(L + 1) /\ 0 <= a /\ ~(L + 1 <= a) /\ (L + 1) - 1 = L
    BY <1>1, <1>2
  <1>4. PICK f : ContentBy(f, r, a, L)
    BY <1>3, ContentIs
  <1>5. PICK g, K : K = L + 1 /\ ContentBy(g, q, a, K)
    <2>1. PICK K : K = L + 1
      OBVIOUS
    <2>2. K \in 0..Len(q)
      BY <1>3, <2>1
    <2>3. \E g : ContentBy(g, q, a, K)
      BY <1>2, <1>3, <2>2, ContentIs
    <2> QED
      BY <2>1, <2>3
  <1>6. f[0] = g[0]
    BY <1>3, <1>4, <1>5 DEF ContentBy
  <1>7. \A i \in 1..L : f[i - 1] = g[i - 1] => f[i] = g[i]
    BY <1>2, <1>3, <1>4, <1>5 DEF ContentBy
  <1>8. \A i \in 0..L : f[i] = g[i]
    <2>1. L \in Nat
      BY <1>2
    <2> QED
      BY ONLY <2>1, <1>6, <1>7, ChainAgree, ZenonT(60)
  <1>9. g[L + 1] = WithByte(g[L], e)
    BY <1>2, <1>3, <1>5 DEF ContentBy
  <1>10. Content(q, a, L + 1) = WithByte(Content(r, a, L), e)
    BY <1>3, <1>4, <1>5, <1>8, <1>9 DEF ContentBy
  <1>11. Content(r, L, L) = <<>>
    <2>1. PICK h : ContentBy(h, r, L, L)
      BY <1>2, <1>3, ContentIs
    <2> QED
      BY <1>2, <1>3, <2>1 DEF ContentBy
  <1>12. Content(r, a, L) \in Texts
    BY <1>3, <1>4 DEF ContentBy
  <1> QED
    BY <1>1, <1>10, <1>11, <1>12

LEMMA LineEndsIs ==
  ASSUME NEW r \in Seq(Entry)
  PROVE  \E g : /\ \A i \in 0..Len(r) : g[i] \in Seq(1..Len(r))
                /\ g[0] = <<>> /\ LineEnds(r) = g[Len(r)]
                /\ \A i \in 1..Len(r) :
                     g[i] = IF EndsLine(r, i) THEN Append(g[i - 1], i) ELSE g[i - 1]
  <1>1. PICK b, S : b = Len(r) /\ S = Seq(1..b)
    OBVIOUS
  <1> DEFINE F == [i \in 1..b |-> [x \in S |-> IF EndsLine(r, i) THEN Append(x, i) ELSE x]]
             G(f) == [i \in 0..b |-> IF i = 0 THEN <<>>
                                     ELSE IF EndsLine(r, i) THEN Append(f[i - 1], i) ELSE f[i - 1]]
  <1>2. b \in Nat
    BY <1>1, ListFacts
  <1>3. <<>> \in S /\ \A x \in S, i \in 1..b : Append(x, i) \in S
    BY <1>1, AppendProperties
  <1>4. F \in [1..b -> [S -> S]]
    BY <1>3
  <1>5. PICK f \in [0..b -> S] : f[0] = <<>> /\ \A i \in 1..b : f[i] = F[i][f[i - 1]]
    <2>1. PICK D, base, m, h : D = S /\ base = <<>> /\ m = b /\ h = F
      OBVIOUS
    <2>2. base \in D /\ m \in Nat /\ h \in [1..m -> [D -> D]]
      BY <1>2, <1>3, <1>4, <2>1
    <2> HIDE DEF F, G
    <2>3. HasChain(D, base, m, h)
      BY ONLY <2>2, ChainIn
    <2> QED
      BY <2>1, <2>3 DEF HasChain
  <1>6. \A i \in 1..b : i \in 0..b /\ i - 1 \in 0..b /\ i # 0
    BY <1>2
  <1>7. \A i \in 1..b : f[i] = IF EndsLine(r, i) THEN Append(f[i - 1], i) ELSE f[i - 1]
    BY <1>5, <1>6
  <1>8. f = G(f)
    <2>1. \A k \in 0..b : k = 0 \/ k \in 1..b
      BY <1>2
    <2>2. \A i \in 0..b : f[i] = IF i = 0 THEN <<>>
                                 ELSE IF EndsLine(r, i) THEN Append(f[i - 1], i) ELSE f[i - 1]
      BY <1>5, <1>7, <2>1
    <2> QED
      BY <2>2
  <1>9. PICK g : g = CHOOSE h : h = G(h)
    OBVIOUS
  <1>10. LineEnds(r) = g[b]
    BY <1>1, <1>9 DEF LineEnds
  <1>11. g = G(g)
    <2> HIDE DEF G
    <2> QED
      BY <1>8, <1>9
  <1>12. g[0] = <<>> /\ \A i \in 1..b : g[i] = IF EndsLine(r, i) THEN Append(g[i - 1], i) ELSE g[i - 1]
    <2>1. 0 \in 0..b
      BY <1>2
    <2>2. \A i \in 0..b : g[i] = IF i = 0 THEN <<>>
                                 ELSE IF EndsLine(r, i) THEN Append(g[i - 1], i) ELSE g[i - 1]
      BY <1>11
    <2> QED
      BY <1>6, <2>1, <2>2
  <1>13. \A i \in 0..b : g[i] \in S
    <2>1. g[0] \in S
      BY <1>3, <1>12
    <2>2. \A i \in 1..b : g[i - 1] \in S => g[i] \in S
      BY <1>3, <1>12
    <2> QED
      BY ONLY <1>2, <2>1, <2>2, ChainStays
  <1> QED
    BY <1>1, <1>10, <1>12, <1>13

LEMMA LineEndsStep ==
  ASSUME NEW r \in Seq(Entry), NEW e \in Entry
  PROVE  /\ LineEnds(r) \in Seq(1..Len(r))
         /\ LineEnds(Append(r, e)) = IF EndsLine(Append(r, e), Len(r) + 1)
                                     THEN Append(LineEnds(r), Len(r) + 1) ELSE LineEnds(r)
  <1>1. PICK q, L : q = Append(r, e) /\ L = Len(r)
    OBVIOUS
  <1>2. /\ q \in Seq(Entry) /\ Len(q) = L + 1 /\ L \in Nat /\ q[L + 1] = e
        /\ \A i \in 1..L : q[i] = r[i]
    BY <1>1, AppendProperties, ListFacts
  <1>3. /\ L \in 0..L /\ L + 1 \in 1..(L + 1) /\ (L + 1) - 1 = L
        /\ \A i \in 1..L : i \in 1..(L + 1) /\ (i > 1 => i - 1 \in 1..L)
    BY <1>2
  <1>4. PICK f : /\ \A i \in 0..L : f[i] \in Seq(1..L)
                 /\ f[0] = <<>> /\ LineEnds(r) = f[L]
                 /\ \A i \in 1..L : f[i] = IF EndsLine(r, i) THEN Append(f[i - 1], i) ELSE f[i - 1]
    BY <1>1, LineEndsIs
  <1>5. PICK g : /\ g[0] = <<>> /\ LineEnds(q) = g[L + 1]
                 /\ \A i \in 1..(L + 1) :
                      g[i] = IF EndsLine(q, i) THEN Append(g[i - 1], i) ELSE g[i - 1]
    BY <1>2, LineEndsIs
  <1>6. \A i \in 1..L : EndsLine(q, i) <=> EndsLine(r, i)
    BY <1>2, <1>3 DEF EndsLine
  <1>7. \A i \in 1..L : f[i - 1] = g[i - 1] => f[i] = g[i]
    BY <1>3, <1>4, <1>5, <1>6
  <1>8. \A i \in 0..L : f[i] = g[i]
    <2>1. f[0] = g[0] /\ L \in Nat
      BY <1>2, <1>4, <1>5
    <2> QED
      BY ONLY <1>7, <2>1, ChainAgree, SMTT(30)
  <1>9. LineEnds(r) = f[L] /\ LineEnds(r) \in Seq(1..L) /\ f[L] = g[L]
    BY <1>3, <1>4, <1>8
  <1>10. LineEnds(q) = IF EndsLine(q, L + 1) THEN Append(g[L], L + 1) ELSE g[L]
    BY <1>3, <1>5
  <1> QED
    BY <1>1, <1>9, <1>10

Before(ends, i) == IF i = 1 THEN 0 ELSE ends[i - 1]

\* The lines and the text that is not yet a line are those of the bytes r.
FrameOf(r, lines, input) ==
  LET ends == LineEnds(r)
  IN  /\ lines = [i \in DOMAIN ends |-> Content(r, Before(ends, i), ends[i])]
      /\ input = Content(r, Before(ends, Len(ends) + 1), Len(r))

LEMMA FrameIn ==
  ASSUME NEW r \in Seq(Entry), NEW lines, NEW input, FrameOf(r, lines, input)
  PROVE  /\ lines \in Seq(Texts) /\ Len(lines) = Len(LineEnds(r)) /\ input \in Texts
         /\ Len(r) \in Nat /\ LineEnds(r) \in Seq(1..Len(r)) /\ Len(LineEnds(r)) \in Nat
         /\ \A i \in 1..(Len(LineEnds(r)) + 1) : Before(LineEnds(r), i) \in 0..Len(r)
         /\ \A i \in 1..Len(LineEnds(r)) : LineEnds(r)[i] \in 0..Len(r)
  <1>1. PICK ends, L : ends = LineEnds(r) /\ L = Len(r)
    OBVIOUS
  <1>2. PICK e : e \in Entry
    <2>1. [c |-> "x", binary |-> FALSE] \in Entry
      BY DEF Entry, Chars
    <2> QED
      BY <2>1
  <1>3. L \in Nat /\ ends \in Seq(1..L)
    BY <1>1, <1>2, LineEndsStep, ListFacts
  <1>4. Len(ends) \in Nat /\ DOMAIN ends = 1..Len(ends) /\ \A i \in 1..Len(ends) : ends[i] \in 1..L
    <2>1. PICK S : S = 1..L
      OBVIOUS
    <2>2. Len(ends) \in Nat /\ DOMAIN ends = 1..Len(ends) /\ \A i \in 1..Len(ends) : ends[i] \in S
      BY <1>3, <2>1, ListFacts
    <2> QED
      BY <2>1, <2>2
  <1>5. \A i \in 1..Len(ends) : ends[i] \in 0..L /\ ends[i] \in Nat
    BY <1>3, <1>4
  <1>6. \A i \in 1..(Len(ends) + 1) : Before(ends, i) \in 0..L /\ Before(ends, i) \in Nat
    <2>1. TAKE i \in 1..(Len(ends) + 1)
    <2>2. CASE i = 1
      BY <1>3, <2>2 DEF Before
    <2>3. CASE i # 1
      <3>1. i - 1 \in 1..Len(ends)
        BY <1>4, <2>3
      <3> QED
        BY <1>5, <2>3, <3>1 DEF Before
    <2> QED
      BY <2>2, <2>3
  <1>7. ASSUME NEW a \in 0..L, NEW b \in 0..L PROVE Content(r, a, b) \in Texts
    <2>1. a \in Nat /\ b \in 0..Len(r)
      BY <1>1, <1>3
    <2>2. PICK g : ContentBy(g, r, a, b)
      BY <2>1, ContentIs
    <2>3. b \in 0..b
      BY <1>3
    <2> QED
      BY <2>2, <2>3 DEF ContentBy
  <1>8. lines = [i \in 1..Len(ends) |-> Content(r, Before(ends, i), ends[i])]
        /\ input = Content(r, Before(ends, Len(ends) + 1), L)
    BY <1>1, <1>4 DEF FrameOf
  <1>9. \A i \in 1..Len(ends) : Content(r, Before(ends, i), ends[i]) \in Texts
    <2>1. \A i \in 1..Len(ends) : i \in 1..(Len(ends) + 1)
      BY <1>4
    <2> QED
      BY <1>5, <1>6, <1>7, <2>1
  <1>10. lines \in Seq(Texts) /\ Len(lines) = Len(ends)
    BY <1>4, <1>8, <1>9
  <1>11. input \in Texts
    <2>1. Len(ends) + 1 \in 1..(Len(ends) + 1) /\ L \in 0..L
      BY <1>3, <1>4
    <2> QED
      BY <1>6, <1>7, <1>8, <2>1
  <1> QED
    BY <1>1, <1>3, <1>4, <1>5, <1>6, <1>10, <1>11

\* One byte more: it ends the line, or goes into it.
LEMMA FrameStep ==
  ASSUME NEW r \in Seq(Entry), NEW e \in Entry, NEW lines, NEW input, FrameOf(r, lines, input),
         NEW q, q = Append(r, e)
  PROVE  /\ EndsLine(q, Len(r) + 1) => FrameOf(q, Append(lines, WithByte(input, e)), <<>>)
         /\ ~EndsLine(q, Len(r) + 1) => FrameOf(q, lines, WithByte(input, e))
  <1>1. PICK ends, L, K : ends = LineEnds(r) /\ L = Len(r) /\ K = Len(ends)
    OBVIOUS
  <1>2. /\ lines \in Seq(Texts) /\ Len(lines) = K /\ input \in Texts
        /\ L \in Nat /\ ends \in Seq(1..L) /\ K \in Nat
        /\ \A i \in 1..(K + 1) : Before(ends, i) \in 0..L
        /\ \A i \in 1..K : ends[i] \in 0..L
    BY <1>1, FrameIn
  <1>3. DOMAIN ends = 1..K
    BY <1>1, <1>2, LenProperties
  <1>4. /\ lines = [i \in 1..K |-> Content(r, Before(ends, i), ends[i])]
        /\ input = Content(r, Before(ends, K + 1), L)
    BY <1>1, <1>3 DEF FrameOf
  <1>5. ASSUME NEW a \in 0..L, NEW b \in 0..L PROVE Content(q, a, b) = Content(r, a, b)
    <2>1. a \in Nat /\ b \in 0..Len(r)
      BY <1>1, <1>2
    <2> QED
      BY <2>1, ContentSame
  <1>6. PICK a : a = Before(ends, K + 1)
    OBVIOUS
  <1>7. a \in 0..L /\ input = Content(r, a, L)
    <2>1. K + 1 \in 1..(K + 1)
      BY <1>2
    <2> QED
      BY <1>2, <1>4, <1>6, <2>1
  <1>8. Content(q, a, L + 1) = WithByte(input, e)
    BY <1>1, <1>7, ContentStep
  <1>9. q \in Seq(Entry) /\ Len(q) = L + 1
    BY <1>1, AppendProperties
  <1>10. \A i \in 1..K : i \in 1..(K + 1) /\ lines[i] = Content(q, Before(ends, i), ends[i])
    <2>1. \A i \in 1..K : i \in 1..(K + 1)
      BY <1>2
    <2> QED
      BY <1>2, <1>4, <1>5, <2>1
  <1>11. CASE ~EndsLine(q, L + 1)
    <2>1. LineEnds(q) = ends
      BY <1>1, <1>11, LineEndsStep
    <2>2. lines = [i \in 1..K |-> Content(q, Before(ends, i), ends[i])]
      BY <1>4, <1>10
    <2> QED
      BY <1>1, <1>3, <1>6, <1>8, <1>9, <1>11, <2>1, <2>2 DEF FrameOf
  <1>12. CASE EndsLine(q, L + 1)
    <2>1. PICK all, new, text : /\ all = LineEnds(q) /\ text = WithByte(input, e)
                                /\ new = Append(lines, text)
      OBVIOUS
    <2>2. all = Append(ends, L + 1)
      BY <1>1, <1>12, <2>1, LineEndsStep
    <2>3. /\ Len(all) = K + 1 /\ DOMAIN all = 1..(K + 1)
          /\ \A i \in 1..K : all[i] = ends[i]
          /\ all[K + 1] = L + 1
      <3>1. ends \in Seq(Nat) /\ L + 1 \in Nat
        <4>1. 1..L \subseteq Nat
          BY <1>2
        <4>2. DOMAIN ends = 1..Len(ends) /\ \A i \in 1..Len(ends) : ends[i] \in 1..L
          BY <1>2, ListFacts
        <4> QED
          BY <1>1, <1>2, <4>1, <4>2
      <3>2. /\ Append(ends, L + 1) \in Seq(Nat) /\ Len(Append(ends, L + 1)) = Len(ends) + 1
            /\ \A i \in 1..Len(ends) : Append(ends, L + 1)[i] = ends[i]
            /\ Append(ends, L + 1)[Len(ends) + 1] = L + 1
        <4>1. PICK x : x = L + 1
          OBVIOUS
        <4>2. x \in Nat /\ ends \in Seq(Nat)
          BY <3>1, <4>1
        <4>3. /\ Append(ends, x) \in Seq(Nat) /\ Len(Append(ends, x)) = Len(ends) + 1
              /\ \A i \in 1..Len(ends) : Append(ends, x)[i] = ends[i]
              /\ Append(ends, x)[Len(ends) + 1] = x
          BY ONLY <4>2, AppendProperties
        <4> QED
          BY <4>1, <4>3
      <3>3. DOMAIN all = 1..Len(all)
        BY <2>2, <3>2, LenProperties
      <3> QED
        BY <1>1, <2>2, <3>2, <3>3
    <2>4. \A i \in 1..(K + 1) : Before(all, i) = Before(ends, i)
      <3>1. TAKE i \in 1..(K + 1)
      <3>2. i = 1 \/ i - 1 \in 1..K
        BY <1>2
      <3> QED
        BY <2>3, <3>2 DEF Before
    <2>5. text \in Texts
      BY <1>2, <2>1, WithByteIn
    <2>6. /\ new \in Seq(Texts) /\ Len(new) = K + 1 /\ new[K + 1] = text
          /\ \A i \in 1..K : new[i] = lines[i]
      <3>1. /\ Append(lines, text) \in Seq(Texts) /\ Len(Append(lines, text)) = Len(lines) + 1
            /\ \A i \in 1..Len(lines) : Append(lines, text)[i] = lines[i]
            /\ Append(lines, text)[Len(lines) + 1] = text
        <4>1. PICK S : S = Texts
          OBVIOUS
        <4>2. lines \in Seq(S) /\ text \in S
          BY <1>2, <2>5, <4>1
        <4>3. /\ Append(lines, text) \in Seq(S) /\ Len(Append(lines, text)) = Len(lines) + 1
              /\ \A i \in 1..Len(lines) : Append(lines, text)[i] = lines[i]
              /\ Append(lines, text)[Len(lines) + 1] = text
          BY ONLY <4>2, AppendProperties
        <4> QED
          BY <4>1, <4>3
      <3> QED
        BY <1>2, <2>1, <3>1
    <2>7. ASSUME NEW i \in 1..(K + 1) PROVE new[i] = Content(q, Before(all, i), all[i])
      <3>1. i \in 1..K \/ i = K + 1
        BY <1>2
      <3>2. CASE i \in 1..K
        BY <1>10, <2>3, <2>4, <2>6, <3>2
      <3>3. CASE i = K + 1
        BY <1>6, <1>8, <2>1, <2>3, <2>4, <2>6, <3>3
      <3> QED
        BY <3>1, <3>2, <3>3
    <2>8. new = [i \in 1..(K + 1) |-> Content(q, Before(all, i), all[i])]
      <3>1. DOMAIN new = 1..(K + 1) /\ new = [i \in DOMAIN new |-> new[i]]
        BY <2>6, LenProperties
      <3> QED
        BY <2>7, <3>1
    <2>9. Before(all, (K + 1) + 1) = L + 1
      <3>1. (K + 1) + 1 # 1 /\ ((K + 1) + 1) - 1 = K + 1
        BY <1>2
      <3> QED
        BY <2>3, <3>1 DEF Before
    <2>10. Content(q, L + 1, L + 1) = <<>>
      <3>1. Len(q) \in 0..Len(q)
        BY <1>2, <1>9
      <3>2. Content(q, Len(q), Len(q)) = <<>>
        BY <1>9, <3>1, ContentStep
      <3> QED
        BY <1>9, <3>2
    <2>11. FrameOf(q, new, <<>>)
      BY <1>9, <2>1, <2>3, <2>8, <2>9, <2>10 DEF FrameOf
    <2> QED
      BY <1>1, <1>12, <2>1, <2>11
  <1> QED
    BY <1>1, <1>11, <1>12

\* The input of m is that of the bytes r, and m knows whether the last was a CR of a line.
Reads(m, r) ==
  /\ FrameOf(r, m.lines, m.input)
  /\ m.last_input_was_CR \in BOOLEAN
  /\ m.last_input_was_CR = TRUE <=> Len(r) > 0 /\ r[Len(r)] = Seen("CR", FALSE)

\* The part of a handle that input does not touch.
SameOutput(m, n) ==
  /\ DOMAIN m = NFields /\ m.output = n.output /\ m.output_lines_flushed = n.output_lines_flushed
  /\ m.sent = n.sent /\ m.got = n.got /\ m.lost = n.lost /\ m.wire = n.wire
  /\ m.binary = n.binary /\ m.read = n.read

LEMMA OutOkKept ==
  ASSUME NEW n, NEW m, OutOk(n), DOMAIN m = NFields, m.output = n.output,
         m.output_lines_flushed = n.output_lines_flushed,
         m.sent = n.sent, m.got = n.got, m.lost = n.lost
  PROVE  OutOk(m)
  BY DEF OutOk, LossTold, output_length

\* A byte in line mode.
LEMMA ByteTaken ==
  ASSUME NEW n, DOMAIN n = NFields, NEW r \in Seq(Entry), Reads(n, r), NEW c \in Chars,
         NEW m, m = TakeByte(n, c), NEW q, q = Append(r, Seen(c, FALSE))
  PROVE  Reads(m, q) /\ SameOutput(m, n)
  <1>1. PICK e, L, text : e = Seen(c, FALSE) /\ L = Len(r) /\ text = WithByte(n.input, e)
    OBVIOUS
  <1>2. e \in Entry /\ e.c = c /\ e.binary = FALSE
    BY <1>1 DEF Seen, Entry
  <1>3. q = Append(r, e)
    BY <1>1
  <1>4. L \in Nat /\ Len(q) = L + 1 /\ q[L + 1] = e /\ \A i \in 1..L : q[i] = r[i]
    <2>1. /\ Len(q) = Len(r) + 1 /\ Len(r) \in Nat /\ q[Len(r) + 1] = e
          /\ \A i \in 1..Len(r) : q[i] = r[i]
      <3>1. r \in Seq(Entry) /\ e \in Entry
        BY <1>2
      <3> QED
        BY ONLY <1>3, <3>1, AppendFacts
    <2> QED
      BY <1>1, <2>1
  <1>5. /\ EndsLine(q, L + 1) => FrameOf(q, Append(n.lines, text), <<>>)
        /\ ~EndsLine(q, L + 1) => FrameOf(q, n.lines, text)
    <2>1. PICK lines, input : lines = n.lines /\ input = n.input
      OBVIOUS
    <2>2. FrameOf(r, lines, input)
      BY <2>1 DEF Reads
    <2>3. /\ EndsLine(q, Len(r) + 1) => FrameOf(q, Append(lines, WithByte(input, e)), <<>>)
          /\ ~EndsLine(q, Len(r) + 1) => FrameOf(q, lines, WithByte(input, e))
      BY <1>2, <1>3, <2>2, FrameStep
    <2> QED
      BY <1>1, <2>1, <2>3
  <1>6. n.last_input_was_CR \in BOOLEAN
        /\ (n.last_input_was_CR = TRUE <=> L > 0 /\ r[L] = Seen("CR", FALSE))
    BY <1>1 DEF Reads
  <1>7. EndsLine(q, L + 1) <=> c = "CR" \/ (c = "LF" /\ ~n.last_input_was_CR)
    <2>1. EndsLine(q, L + 1) <=> \/ c = "CR"
                                 \/ c = "LF" /\ ~(L + 1 > 1 /\ q[(L + 1) - 1] = Seen("CR", FALSE))
      <3>1. c # "END"
        BY DEF Chars
      <3> QED
        BY <1>2, <1>4, <3>1 DEF EndsLine
    <2>2. (L + 1) - 1 = L /\ (L + 1 > 1 <=> L > 0) /\ (L > 0 => q[L] = r[L])
      <3>1. L > 0 => L \in 1..L
        BY <1>4
      <3>2. (L + 1) - 1 = L /\ (L + 1 > 1 <=> L > 0)
        BY <1>4
      <3> QED
        BY <1>4, <3>1, <3>2
    <2> QED
      BY <1>6, <2>1, <2>2
  <1>8. text = IF c \in {"x", "BS"} THEN Kept(n.input, c) ELSE n.input
    <2>1. ~e.binary /\ e.c = c
      BY <1>2
    <2> QED
      BY <1>1, <2>1 DEF WithByte
  <1>9. PICK kept : kept = IF c \in {"x", "BS"} THEN [n EXCEPT !.input = Kept(@, c)]
                           ELSE IF c = "CR" \/ (c = "LF" /\ ~n.last_input_was_CR)
                                THEN [n EXCEPT !.lines = Append(@, n.input), !.input = <<>>]
                                ELSE n
    OBVIOUS
  <1>10. m = [kept EXCEPT !.last_input_was_CR = (c = "CR")]
    BY <1>9 DEF TakeByte
  <1>11. SameOutput(kept, n) /\ DOMAIN kept = NFields
    <2>1. CASE c \in {"x", "BS"}
      BY <1>9, <2>1 DEF SameOutput, NFields
    <2>2. CASE c \notin {"x", "BS"} /\ (c = "CR" \/ (c = "LF" /\ ~n.last_input_was_CR))
      BY <1>9, <2>2 DEF SameOutput, NFields
    <2>3. CASE c \notin {"x", "BS"} /\ ~(c = "CR" \/ (c = "LF" /\ ~n.last_input_was_CR))
      <3>1. kept = n
        BY <1>9, <2>3
      <3> QED
        BY <3>1 DEF SameOutput
    <2> QED
      BY <2>1, <2>2, <2>3
  <1>12. FrameOf(q, kept.lines, kept.input)
    <2>1. CASE c \in {"x", "BS"}
      <3>1. ~EndsLine(q, L + 1)
        BY <1>7, <2>1
      <3>2. kept.lines = n.lines /\ kept.input = text
        BY <1>8, <1>9, <2>1 DEF NFields
      <3> QED
        BY <1>5, <3>1, <3>2
    <2>2. CASE c \notin {"x", "BS"} /\ (c = "CR" \/ (c = "LF" /\ ~n.last_input_was_CR))
      <3>1. EndsLine(q, L + 1)
        BY <1>7, <2>2 DEF Chars
      <3>2. kept.lines = Append(n.lines, n.input) /\ kept.input = <<>>
        BY <1>9, <2>2 DEF NFields
      <3> QED
        BY <1>5, <1>8, <2>2, <3>1, <3>2
    <2>3. CASE c \notin {"x", "BS"} /\ ~(c = "CR" \/ (c = "LF" /\ ~n.last_input_was_CR))
      <3>1. ~EndsLine(q, L + 1) /\ kept = n /\ text = n.input
        BY <1>7, <1>8, <1>9, <2>3
      <3> QED
        BY <1>5, <3>1
    <2> QED
      BY <2>1, <2>2, <2>3
  <1>13. PICK cr : cr = (c = "CR")
    OBVIOUS
  <1>14. m = [kept EXCEPT !.last_input_was_CR = cr]
    BY <1>10, <1>13
  <1>15. /\ m.lines = kept.lines /\ m.input = kept.input /\ m.last_input_was_CR = cr
         /\ SameOutput(m, n)
    BY <1>11, <1>14 DEF SameOutput, NFields
  <1>16. cr \in BOOLEAN /\ (cr = TRUE <=> c = "CR")
    BY <1>13
  <1>17. Len(q) > 0 /\ (q[Len(q)] = Seen("CR", FALSE) <=> c = "CR")
    <2>1. Len(q) > 0 /\ q[Len(q)] = e
      <3>1. Len(q) > 0
        BY <1>4
      <3> QED
        BY <1>4, <3>1
    <2>2. e = Seen("CR", FALSE) <=> c = "CR"
      BY <1>1, <1>2 DEF Seen
    <2> QED
      BY <2>1, <2>2
  <1> QED
    BY <1>12, <1>15, <1>16, <1>17 DEF Reads

\* A byte in binary mode, and the end of a read().
LEMMA BinaryByte ==
  ASSUME NEW r \in Seq(Entry), NEW c \in Chars, NEW lines, NEW input, FrameOf(r, lines, input),
         NEW q, q = Append(r, Seen(c, TRUE))
  PROVE  FrameOf(q, lines, Append(input, c))
  <1>1. PICK e : e = Seen(c, TRUE)
    OBVIOUS
  <1>2. e \in Entry /\ e.c = c /\ e.binary = TRUE /\ q = Append(r, e) /\ c # "END"
    BY <1>1 DEF Seen, Entry, Chars
  <1>3. Len(r) \in Nat /\ q[Len(r) + 1] = e
    <2>1. r \in Seq(Entry) /\ e \in Entry /\ q = Append(r, e)
      BY <1>2
    <2> QED
      BY ONLY <2>1, AppendFacts
  <1>4. ~EndsLine(q, Len(r) + 1)
    BY <1>2, <1>3 DEF EndsLine
  <1>5. WithByte(input, e) = Append(input, c)
    BY <1>2 DEF WithByte
  <1> QED
    BY <1>2, <1>4, <1>5, FrameStep

LEMMA BinaryEnd ==
  ASSUME NEW r \in Seq(Entry), NEW lines, NEW input, FrameOf(r, lines, input),
         NEW q, q = Append(r, Seen("END", TRUE))
  PROVE  FrameOf(q, Append(lines, input), <<>>)
  <1>1. PICK e : e = Seen("END", TRUE)
    OBVIOUS
  <1>2. e \in Entry /\ e.c = "END" /\ e.binary = TRUE /\ q = Append(r, e)
    BY <1>1 DEF Seen, Entry
  <1>3. Len(r) \in Nat /\ q[Len(r) + 1] = e
    <2>1. r \in Seq(Entry) /\ e \in Entry /\ q = Append(r, e)
      BY <1>2
    <2> QED
      BY ONLY <2>1, AppendFacts
  <1>4. EndsLine(q, Len(r) + 1)
    BY <1>2, <1>3 DEF EndsLine
  <1>5. WithByte(input, e) = input
    BY <1>2 DEF WithByte
  <1> QED
    BY <1>2, <1>4, <1>5, FrameStep

\* r and the first i members of a.
Prefix(r, a, i) ==
  [j \in 1..(Len(r) + i) |-> IF j <= Len(r) THEN r[j] ELSE a[j - Len(r)]]

LEMMA PrefixIn ==
  ASSUME NEW S, NEW r \in Seq(S), NEW a \in Seq(S), NEW i \in 0..Len(a)
  PROVE  Prefix(r, a, i) \in Seq(S) /\ Len(Prefix(r, a, i)) = Len(r) + i
  <1>1. Len(r) \in Nat /\ \A j \in 1..Len(r) : r[j] \in S
    BY ListFacts
  <1>2. Len(a) \in Nat /\ \A j \in 1..Len(a) : a[j] \in S
    BY ListFacts
  <1>3. Len(r) + i \in Nat
    BY <1>1, <1>2
  <1>4. ASSUME NEW j \in 1..(Len(r) + i) PROVE (IF j <= Len(r) THEN r[j] ELSE a[j - Len(r)]) \in S
    <2>1. CASE j <= Len(r)
      BY <1>1, <1>2, <2>1
    <2>2. CASE ~(j <= Len(r))
      <3>1. j - Len(r) \in 1..Len(a)
        BY <1>1, <1>2, <2>2
      <3> QED
        BY <1>2, <2>2, <3>1
    <2> QED
      BY <2>1, <2>2
  <1> QED
    BY <1>3, <1>4 DEF Prefix

GrowsTo(r, a) ==
  /\ Prefix(r, a, 0) = r /\ Prefix(r, a, Len(a)) = r \o a
  /\ \A i \in 0..(Len(a) - 1) : Prefix(r, a, i + 1) = Append(Prefix(r, a, i), a[i + 1])

LEMMA PrefixSteps ==
  ASSUME NEW S, NEW r \in Seq(S), NEW a \in Seq(S)
  PROVE  GrowsTo(r, a)
  <1>1. /\ Len(r) \in Nat /\ DOMAIN r = 1..Len(r) /\ r = [j \in DOMAIN r |-> r[j]]
        /\ \A j \in 1..Len(r) : r[j] \in S
    BY ListFacts
  <1>2. Len(a) \in Nat /\ \A j \in 1..Len(a) : a[j] \in S
    BY ListFacts
  <1>3. Prefix(r, a, 0) = r
    <2>1. Len(r) + 0 = Len(r) /\ \A j \in 1..Len(r) : j <= Len(r)
      BY <1>1
    <2> QED
      BY <1>1, <2>1 DEF Prefix
  <1>4. Prefix(r, a, Len(a)) = r \o a
    <2>1. PICK p, q : p = Prefix(r, a, Len(a)) /\ q = r \o a
      OBVIOUS
    <2>2. /\ q \in Seq(S) /\ Len(q) = Len(r) + Len(a)
          /\ \A j \in 1..(Len(r) + Len(a)) : q[j] = IF j <= Len(r) THEN r[j] ELSE a[j - Len(r)]
      BY <2>1, ConcatProperties
    <2>3. p \in Seq(S) /\ Len(p) = Len(r) + Len(a)
      <3>1. Len(a) \in 0..Len(a)
        BY <1>2
      <3> QED
        BY <2>1, <3>1, PrefixIn
    <2>4. \A j \in 1..(Len(r) + Len(a)) : p[j] = q[j]
      BY <2>1, <2>2 DEF Prefix
    <2>5. p = q
      <3>1. Len(p) = Len(q) /\ \A j \in 1..Len(p) : p[j] = q[j]
        BY <2>2, <2>3, <2>4
      <3> QED
        BY ONLY <2>2, <2>3, <3>1, SeqEqual
    <2> QED
      BY <2>1, <2>5
  <1>5. ASSUME NEW i \in 0..(Len(a) - 1) PROVE Prefix(r, a, i + 1) = Append(Prefix(r, a, i), a[i + 1])
    <2>1. PICK p, k, e, q, R : /\ p = Prefix(r, a, i) /\ k = i + 1 /\ e = a[k] /\ q = Prefix(r, a, k)
                               /\ R = Len(r)
      OBVIOUS
    <2>2. i \in 0..Len(a) /\ k \in 0..Len(a) /\ k \in 1..Len(a) /\ e \in S /\ R \in Nat /\ i \in Nat
      BY <1>1, <1>2, <2>1
    <2>3. p \in Seq(S) /\ Len(p) = R + i
      BY <2>1, <2>2, PrefixIn
    <2>4. q \in Seq(S) /\ Len(q) = R + k
      BY <2>1, <2>2, PrefixIn
    <2>5. PICK t : t = Append(p, e)
      OBVIOUS
    <2>6. /\ t \in Seq(S) /\ Len(t) = Len(p) + 1 /\ t[Len(p) + 1] = e
          /\ \A j \in 1..Len(p) : t[j] = p[j]
      <3>1. e \in S /\ p \in Seq(S)
        BY <2>2, <2>3
      <3> QED
        BY ONLY <2>5, <3>1, AppendFacts
    <2>7. /\ \A j \in 1..(R + i) : p[j] = IF j <= R THEN r[j] ELSE a[j - R]
          /\ \A j \in 1..(R + k) : q[j] = IF j <= R THEN r[j] ELSE a[j - R]
      BY <2>1 DEF Prefix
    <2>8. Len(t) = R + k /\ \A j \in 1..(R + k) : t[j] = q[j]
      <3>1. R + k = (R + i) + 1 /\ ~(R + k <= R) /\ (R + k) - R = k
        BY <2>1, <2>2
      <3>2. \A j \in 1..(R + k) : j \in 1..(R + i) \/ j = R + k
        BY <2>2, <3>1
      <3>3. R + k \in 1..(R + k)
        BY <2>1, <2>2
      <3>4. q[R + k] = e
        BY <2>1, <2>7, <3>1, <3>3
      <3>5. t[R + k] = e
        BY <2>3, <2>6, <3>1
      <3>6. \A j \in 1..(R + i) : t[j] = p[j] /\ j \in 1..(R + k)
        BY <2>2, <2>3, <2>6, <3>1
      <3>7. \A j \in 1..(R + i) : t[j] = q[j]
        BY <2>7, <3>6
      <3> QED
        BY <2>3, <2>6, <3>1, <3>2, <3>4, <3>5, <3>7
    <2>9. t = q
      <3>1. Len(t) = Len(q) /\ \A j \in 1..Len(t) : t[j] = q[j]
        BY <2>4, <2>8
      <3> QED
        BY ONLY <2>4, <2>6, <3>1, SeqEqual
    <2> QED
      BY <2>1, <2>5, <2>9
  <1> QED
    BY <1>3, <1>4, <1>5 DEF GrowsTo

InputOk(n) ==
  /\ n.wire \in Texts /\ n.binary \in BOOLEAN /\ n.read \in Seq(Entry)
  /\ Reads(n, n.read)

\* The recursive function of pull_input goes from byte to byte.
LEMMA TakenIs ==
  ASSUME NEW seen, DOMAIN seen = NFields, seen = [f \in NFields |-> seen[f]],
         seen.input \in Texts, seen.last_input_was_CR \in BOOLEAN, seen.lines \in Seq(Texts),
         NEW w \in Texts, NEW g,
         g = CHOOSE h : h = [i \in 0..Len(w) |-> IF i = 0 THEN seen ELSE TakeByte(h[i - 1], w[i])]
  PROVE  g[0] = seen /\ \A i \in 1..Len(w) : g[i] = TakeByte(g[i - 1], w[i])
  <1> DEFINE V == Texts \cup BOOLEAN \cup Seq(Texts) \cup {seen[f] : f \in NFields}
             D == {m \in [NFields -> V] : /\ m.input \in Texts /\ m.lines \in Seq(Texts)
                                          /\ m.last_input_was_CR \in BOOLEAN}
             F == [i \in 1..Len(w) |-> [m \in D |-> TakeByte(m, w[i])]]
             G(f) == [i \in 0..Len(w) |-> IF i = 0 THEN seen ELSE TakeByte(f[i - 1], w[i])]
  <1>1. Len(w) \in Nat /\ \A i \in 1..Len(w) : w[i] \in Chars
    BY ListFacts DEF Texts
  <1>2. seen \in D
    BY DEF NFields
  <1>3. ASSUME NEW m \in D, NEW c \in Chars PROVE TakeByte(m, c) \in D
    <2>1. PICK kept, cr : /\ kept = IF c \in {"x", "BS"} THEN [m EXCEPT !.input = Kept(@, c)]
                                    ELSE IF c = "CR" \/ (c = "LF" /\ ~m.last_input_was_CR)
                                    THEN [m EXCEPT !.lines = Append(@, m.input), !.input = <<>>]
                                    ELSE m
                          /\ cr = (c = "CR")
      OBVIOUS
    <2>2. TakeByte(m, c) = [kept EXCEPT !.last_input_was_CR = cr]
      BY <2>1 DEF TakeByte
    <2>3. PICK U : U = V
      OBVIOUS
    <2>4. Texts \subseteq U /\ BOOLEAN \subseteq U /\ Seq(Texts) \subseteq U
      BY <2>3
    <2>5. m \in [NFields -> U] /\ m.input \in Texts /\ m.lines \in Seq(Texts)
          /\ m.last_input_was_CR \in BOOLEAN
      BY <2>3
    <2> HIDE DEF V
    <2>6. kept \in [NFields -> U] /\ kept.input \in Texts /\ kept.lines \in Seq(Texts)
      <3>1. CASE c \in {"x", "BS"}
        <4>1. PICK k : k = Kept(m.input, c)
          OBVIOUS
        <4>2. k \in Texts
          BY <2>5, <3>1, <4>1, KeptIn
        <4>3. kept = [m EXCEPT !.input = k]
          BY <2>1, <3>1, <4>1
        <4> QED
          BY <2>4, <2>5, <4>2, <4>3 DEF NFields
      <3>2. CASE c \notin {"x", "BS"} /\ (c = "CR" \/ (c = "LF" /\ ~m.last_input_was_CR))
        <4>1. PICK l, t : l = Append(m.lines, m.input) /\ t = <<>>
          OBVIOUS
        <4>2. l \in Seq(Texts) /\ t \in Texts
          <5>1. PICK a, b, S : a = m.lines /\ b = m.input /\ S = Texts
            OBVIOUS
          <5>2. a \in Seq(S) /\ b \in S
            BY <2>5, <5>1
          <5>3. Append(a, b) \in Seq(S)
            BY ONLY <5>2, AppendProperties
          <5> QED
            BY <4>1, <5>1, <5>3 DEF Texts
        <4>3. kept = [m EXCEPT !.lines = l, !.input = t]
          BY <2>1, <3>2, <4>1
        <4> QED
          BY <2>4, <2>5, <4>2, <4>3 DEF NFields
      <3>3. CASE c \notin {"x", "BS"} /\ ~(c = "CR" \/ (c = "LF" /\ ~m.last_input_was_CR))
        BY <2>1, <2>5, <3>3
      <3> QED
        BY <3>1, <3>2, <3>3
    <2>7. cr \in BOOLEAN
      BY <2>1
    <2>8. PICK z : z = [kept EXCEPT !.last_input_was_CR = cr]
      OBVIOUS
    <2>9. z \in [NFields -> U] /\ z.input \in Texts /\ z.lines \in Seq(Texts)
          /\ z.last_input_was_CR \in BOOLEAN
      BY <2>4, <2>6, <2>7, <2>8 DEF NFields
    <2> QED
      BY <2>2, <2>3, <2>8, <2>9
  <1> HIDE DEF D
  <1>4. F \in [1..Len(w) -> [D -> D]]
    BY <1>1, <1>3
  <1>5. PICK f \in [0..Len(w) -> D] : f[0] = seen /\ \A i \in 1..Len(w) : f[i] = F[i][f[i - 1]]
    <2>1. PICK E, base, m, h : E = D /\ base = seen /\ m = Len(w) /\ h = F
      OBVIOUS
    <2>2. base \in E /\ m \in Nat /\ h \in [1..m -> [E -> E]]
      BY <1>1, <1>2, <1>4, <2>1
    <2> HIDE DEF F, G
    <2>3. HasChain(E, base, m, h)
      BY ONLY <2>2, ChainIn
    <2> QED
      BY <2>1, <2>3 DEF HasChain
  <1>6. \A i \in 1..Len(w) : i \in 0..Len(w) /\ i - 1 \in 0..Len(w) /\ i # 0
    BY <1>1
  <1>7. \A i \in 1..Len(w) : f[i] = TakeByte(f[i - 1], w[i])
    BY <1>5, <1>6
  <1>8. f = G(f)
    <2>1. \A i \in 0..Len(w) : i = 0 \/ i \in 1..Len(w)
      BY <1>1
    <2>2. \A i \in 0..Len(w) : f[i] = IF i = 0 THEN seen ELSE TakeByte(f[i - 1], w[i])
      BY <1>5, <1>7, <2>1
    <2> QED
      BY <2>2
  <1>9. g = CHOOSE h : h = G(h)
    OBVIOUS
  <1>10. g = G(g)
    <2> HIDE DEF G
    <2> QED
      BY <1>8, <1>9
  <1>11. \A i \in 0..Len(w) : g[i] = IF i = 0 THEN seen ELSE TakeByte(g[i - 1], w[i])
    BY <1>10
  <1>12. 0 \in 0..Len(w)
    BY <1>1
  <1> QED
    BY <1>6, <1>11, <1>12

\* What a read() of the bytes w adds to the history r.
BytesSeen(r, w, b, add) ==
  /\ Prefix(r, add, 0) = r /\ Prefix(r, add, Len(w)) = r \o add /\ r \o add \in Seq(Entry)
  /\ \A i \in 0..(Len(w) - 1) :
       /\ Prefix(r, add, i) \in Seq(Entry)
       /\ Prefix(r, add, i + 1) = Append(Prefix(r, add, i), Seen(w[i + 1], b))

LEMMA SeenBytes ==
  ASSUME NEW r \in Seq(Entry), NEW w \in Texts, NEW b \in BOOLEAN,
         NEW add, add = [i \in DOMAIN w |-> Seen(w[i], b)]
  PROVE  BytesSeen(r, w, b, add)
  <1>1. Len(w) \in Nat /\ DOMAIN w = 1..Len(w) /\ \A i \in 1..Len(w) : w[i] \in Chars
    BY ListFacts DEF Texts
  <1>2. add \in Seq(Entry) /\ Len(add) = Len(w) /\ \A i \in 1..Len(w) : add[i] = Seen(w[i], b)
    <2>1. \A c \in Chars : Seen(c, b) \in Entry
      BY DEF Seen, Entry
    <2>2. add = [i \in 1..Len(w) |-> Seen(w[i], b)] /\ \A i \in 1..Len(w) : Seen(w[i], b) \in Entry
      BY <1>1, <2>1
    <2>3. PICK L : L = Len(w)
      OBVIOUS
    <2>4. add \in [1..L -> Entry] /\ L \in Nat /\ \A i \in 1..L : add[i] = Seen(w[i], b)
      BY <1>1, <2>2, <2>3
    <2>5. add \in Seq(Entry) /\ Len(add) = L
      BY ONLY <2>4
    <2> QED
      BY <2>3, <2>4, <2>5
  <1>3. GrowsTo(r, add)
    <2>1. r \in Seq(Entry) /\ add \in Seq(Entry)
      BY <1>2
    <2> QED
      BY ONLY <2>1, PrefixSteps
  <1>4. \A i \in 0..Len(add) : Prefix(r, add, i) \in Seq(Entry)
    <2>1. r \in Seq(Entry) /\ add \in Seq(Entry)
      BY <1>2
    <2> QED
      BY ONLY <2>1, PrefixIn
  <1>5. \A i \in 0..(Len(w) - 1) : i \in 0..Len(add) /\ i + 1 \in 1..Len(w)
    BY <1>1, <1>2
  <1>6. r \o add \in Seq(Entry)
    BY <1>2, ConcatProperties
  <1> QED
    BY <1>2, <1>3, <1>4, <1>5, <1>6 DEF BytesSeen, GrowsTo

\* All the bytes of a read() in line mode.
LEMMA LineRead ==
  ASSUME NEW r \in Seq(Entry), NEW w \in Texts, NEW seen, DOMAIN seen = NFields, Reads(seen, r),
         NEW add, add = [i \in DOMAIN w |-> Seen(w[i], FALSE)],
         NEW g, g[0] = seen, \A i \in 1..Len(w) : g[i] = TakeByte(g[i - 1], w[i])
  PROVE  Reads(g[Len(w)], r \o add) /\ SameOutput(g[Len(w)], seen)
  <1>1. Len(w) \in Nat /\ \A i \in 1..Len(w) : w[i] \in Chars
    BY ListFacts DEF Texts
  <1>3. /\ Prefix(r, add, 0) = r /\ Prefix(r, add, Len(w)) = r \o add /\ r \o add \in Seq(Entry)
        /\ \A i \in 0..(Len(w) - 1) :
             /\ Prefix(r, add, i) \in Seq(Entry)
             /\ Prefix(r, add, i + 1) = Append(Prefix(r, add, i), Seen(w[i + 1], FALSE))
    <2>1. PICK b : b = FALSE
      OBVIOUS
    <2>2. b \in BOOLEAN /\ add = [i \in DOMAIN w |-> Seen(w[i], b)]
      BY <2>1
    <2>3. BytesSeen(r, w, b, add)
      BY <2>2, SeenBytes
    <2> QED
      BY <2>1, <2>3 DEF BytesSeen
  <1> DEFINE T == {i \in 0..Len(w) : Reads(g[i], Prefix(r, add, i)) /\ SameOutput(g[i], seen)}
  <1>4. 0 \in T
    BY <1>1, <1>3 DEF SameOutput
  <1>5. ASSUME NEW i \in 0..(Len(w) - 1), i \in T PROVE i + 1 \in T
    <2>1. i + 1 \in 1..Len(w) /\ i + 1 \in 0..Len(w) /\ (i + 1) - 1 = i
      BY <1>1
    <2>2. PICK n, m, c, p, q : /\ n = g[i] /\ m = g[i + 1] /\ c = w[i + 1]
                               /\ p = Prefix(r, add, i) /\ q = Prefix(r, add, i + 1)
      OBVIOUS
    <2>3. Reads(n, p) /\ SameOutput(n, seen) /\ DOMAIN n = NFields
      BY <1>5, <2>2 DEF SameOutput
    <2>4. p \in Seq(Entry) /\ c \in Chars /\ q = Append(p, Seen(c, FALSE)) /\ m = TakeByte(n, c)
      BY <1>1, <1>3, <2>1, <2>2
    <2>5. Reads(m, q) /\ SameOutput(m, n)
      BY ONLY <2>3, <2>4, ByteTaken
    <2>6. SameOutput(m, seen)
      BY <2>3, <2>5 DEF SameOutput
    <2> QED
      BY <2>1, <2>2, <2>5, <2>6
  <1>6. Len(w) \in T
    <2>1. PICK b : b = Len(w)
      OBVIOUS
    <2> HIDE DEF T
    <2>2. 0 \in Int /\ b \in Int /\ 0 \in T /\ \A i \in 0..(b - 1) : i \in T => i + 1 \in T
      BY <1>1, <1>4, <1>5, <2>1
    <2>3. 0..b \subseteq T
      BY ONLY <2>2, UpInduction
    <2>4. Len(w) \in 0..b
      BY <1>1, <2>1
    <2> QED
      BY <2>3, <2>4
  <1> QED
    BY <1>3, <1>6

\* All the bytes of a read() in binary mode.
LEMMA BinaryRead ==
  ASSUME NEW r \in Seq(Entry), NEW w \in Texts, NEW lines, NEW input, FrameOf(r, lines, input),
         NEW add, add = [i \in DOMAIN w |-> Seen(w[i], TRUE)]
  PROVE  /\ r \o add \in Seq(Entry)
         /\ FrameOf(r \o add, lines, input \o w)
  <1>1. Len(w) \in Nat /\ \A i \in 1..Len(w) : w[i] \in Chars
    BY ListFacts DEF Texts
  <1>3. /\ Prefix(r, add, 0) = r /\ Prefix(r, add, Len(w)) = r \o add /\ r \o add \in Seq(Entry)
        /\ \A i \in 0..(Len(w) - 1) :
             /\ Prefix(r, add, i) \in Seq(Entry)
             /\ Prefix(r, add, i + 1) = Append(Prefix(r, add, i), Seen(w[i + 1], TRUE))
    <2>1. PICK b : b = TRUE
      OBVIOUS
    <2>2. b \in BOOLEAN /\ add = [i \in DOMAIN w |-> Seen(w[i], b)]
      BY <2>1
    <2>3. BytesSeen(r, w, b, add)
      BY <2>2, SeenBytes
    <2> QED
      BY <2>1, <2>3 DEF BytesSeen
  <1>4. /\ Prefix(input, w, 0) = input /\ Prefix(input, w, Len(w)) = input \o w
        /\ \A i \in 0..(Len(w) - 1) : Prefix(input, w, i + 1) = Append(Prefix(input, w, i), w[i + 1])
    <2>1. input \in Seq(Chars) /\ w \in Seq(Chars)
      BY FrameIn DEF Texts
    <2>2. GrowsTo(input, w)
      BY ONLY <2>1, PrefixSteps
    <2> QED
      BY <2>2 DEF GrowsTo
  <1> DEFINE T == {i \in 0..Len(w) : FrameOf(Prefix(r, add, i), lines, Prefix(input, w, i))}
  <1>5. 0 \in T
    BY <1>1, <1>3, <1>4
  <1>6. ASSUME NEW i \in 0..(Len(w) - 1), i \in T PROVE i + 1 \in T
    <2>1. i + 1 \in 1..Len(w) /\ i + 1 \in 0..Len(w)
      BY <1>1
    <2>2. PICK c, p, q, t : /\ c = w[i + 1] /\ t = Prefix(input, w, i)
                            /\ p = Prefix(r, add, i) /\ q = Prefix(r, add, i + 1)
      OBVIOUS
    <2>3. p \in Seq(Entry) /\ c \in Chars /\ q = Append(p, Seen(c, TRUE)) /\ FrameOf(p, lines, t)
      BY <1>1, <1>3, <1>6, <2>1, <2>2
    <2>4. FrameOf(q, lines, Append(t, c))
      BY ONLY <2>3, BinaryByte
    <2> QED
      BY <1>4, <2>1, <2>2, <2>4
  <1>7. Len(w) \in T
    <2>1. PICK b : b = Len(w)
      OBVIOUS
    <2> HIDE DEF T
    <2>2. 0 \in Int /\ b \in Int /\ 0 \in T /\ \A i \in 0..(b - 1) : i \in T => i + 1 \in T
      BY <1>1, <1>5, <1>6, <2>1
    <2>3. 0..b \subseteq T
      BY ONLY <2>2, UpInduction
    <2>4. Len(w) \in 0..b
      BY <1>1, <2>1
    <2> QED
      BY <2>3, <2>4
  <1> QED
    BY <1>3, <1>4, <1>7

LEMMA PullKeeps ==
  ASSUME NEW n, OutOk(n), InputOk(n), NEW m, m = pull_input(n).n
  PROVE  OutOk(m) /\ InputOk(m)
  <1>1. CASE n.wire = <<>>
    BY <1>1 DEF pull_input
  <1>2. CASE n.wire # <<>>
    <2>1. /\ DOMAIN n = NFields /\ n.wire \in Texts /\ n.binary \in BOOLEAN /\ n.read \in Seq(Entry)
          /\ Reads(n, n.read)
      BY DEF OutOk, InputOk
    <2> DEFINE w == n.wire
               seen == [n EXCEPT !.wire = <<>>,
                                 !.read = @ \o [i \in DOMAIN n.wire |-> Seen(n.wire[i], n.binary)]
                                            \o IF n.binary THEN <<Seen("END", TRUE)>> ELSE <<>>]
               g == CHOOSE h : h = [i \in 0..Len(w) |-> IF i = 0 THEN seen
                                                        ELSE TakeByte(h[i - 1], w[i])]
    <2>2. m = IF n.binary THEN [seen EXCEPT !.lines = Append(@, n.input \o n.wire), !.input = <<>>,
                                            !.last_input_was_CR = FALSE]
              ELSE g[Len(w)]
      BY <1>2 DEF pull_input
    <2>3. PICK r, add, none, end, all :
            /\ r = n.read /\ add = [i \in DOMAIN w |-> Seen(w[i], n.binary)]
            /\ none = <<>> /\ end = IF n.binary THEN <<Seen("END", TRUE)>> ELSE <<>>
            /\ all = r \o add \o end
      OBVIOUS
    <2>4. seen = [n EXCEPT !.wire = none, !.read = all]
      BY <2>3
    <2> HIDE DEF seen
    <2>5. /\ DOMAIN seen = NFields /\ seen.wire = <<>> /\ seen.read = all
          /\ seen.input = n.input /\ seen.lines = n.lines
          /\ seen.last_input_was_CR = n.last_input_was_CR /\ seen.binary = n.binary
          /\ seen.output = n.output /\ seen.output_lines_flushed = n.output_lines_flushed
          /\ seen.sent = n.sent /\ seen.got = n.got /\ seen.lost = n.lost
          /\ seen = [f \in NFields |-> seen[f]]
      BY <2>1, <2>3, <2>4 DEF NFields
    <2>6. /\ r \in Seq(Entry) /\ w \in Texts /\ Reads(seen, r) /\ FrameOf(r, n.lines, n.input)
          /\ n.last_input_was_CR \in BOOLEAN
      BY <2>1, <2>3, <2>5 DEF Reads, w
    <2>7. n.input \in Texts /\ n.lines \in Seq(Texts)
      <3>1. PICK lines, input : lines = n.lines /\ input = n.input
        OBVIOUS
      <3>2. FrameOf(r, lines, input)
        BY <2>6, <3>1
      <3>3. lines \in Seq(Texts) /\ input \in Texts
        BY <2>6, <3>2, FrameIn
      <3> QED
        BY <3>1, <3>3
    <2>8. g = CHOOSE h : h = [i \in 0..Len(w) |-> IF i = 0 THEN seen ELSE TakeByte(h[i - 1], w[i])]
      OBVIOUS
    <2> HIDE DEF g
    <2>9. w = n.wire
      OBVIOUS
    <2> HIDE DEF w
    <2>10. CASE n.binary = FALSE
      <3>1. end = <<>> /\ add = [i \in DOMAIN w |-> Seen(w[i], FALSE)] /\ m = g[Len(w)]
        BY <2>3, <2>2, <2>10
      <3>2. g[0] = seen /\ \A i \in 1..Len(w) : g[i] = TakeByte(g[i - 1], w[i])
        <4>1. seen.input \in Texts /\ seen.last_input_was_CR \in BOOLEAN /\ seen.lines \in Seq(Texts)
              /\ DOMAIN seen = NFields /\ seen = [f \in NFields |-> seen[f]] /\ w \in Texts
          BY <2>5, <2>6, <2>7
        <4> QED
          BY ONLY <2>8, <4>1, TakenIs, SMTT(30)
      <3>3. Reads(m, r \o add) /\ SameOutput(m, seen)
        <4>1. DOMAIN seen = NFields /\ add = [i \in DOMAIN w |-> Seen(w[i], FALSE)]
              /\ r \in Seq(Entry) /\ w \in Texts /\ Reads(seen, r)
          BY <2>5, <2>6, <3>1
        <4>2. Reads(g[Len(w)], r \o add) /\ SameOutput(g[Len(w)], seen)
          BY ONLY <3>2, <4>1, LineRead
        <4> QED
          BY <3>1, <4>2
      <3>4. r \o add \in Seq(Entry)
        <4>1. PICK b : b = FALSE
          OBVIOUS
        <4>2. b \in BOOLEAN /\ add = [i \in DOMAIN w |-> Seen(w[i], b)]
          BY <3>1, <4>1
        <4> QED
          BY <2>6, <4>2, SeenBytes DEF BytesSeen
      <3>5. all = r \o add
        BY <2>3, <3>1, <3>4, ConcatEmptySeq
      <3>6. OutOk(m)
        <4>1. /\ DOMAIN m = NFields /\ m.output = n.output
              /\ m.output_lines_flushed = n.output_lines_flushed
              /\ m.sent = n.sent /\ m.got = n.got /\ m.lost = n.lost
          BY <2>5, <3>3 DEF SameOutput
        <4> QED
          BY <4>1, OutOkKept
      <3>7. m.wire = <<>> /\ m.binary = FALSE /\ m.read = all
        BY <2>5, <2>10, <3>3 DEF SameOutput
      <3>8. <<>> \in Texts
        BY DEF Texts
      <3> QED
        BY <3>3, <3>4, <3>5, <3>6, <3>7, <3>8 DEF InputOk
    <2>11. CASE n.binary = TRUE
      <3>1. end = <<Seen("END", TRUE)>> /\ add = [i \in DOMAIN w |-> Seen(w[i], TRUE)]
        BY <2>3, <2>11
      <3>2. r \o add \in Seq(Entry) /\ FrameOf(r \o add, n.lines, n.input \o w)
        <4>1. PICK lines, input : lines = n.lines /\ input = n.input
          OBVIOUS
        <4>2. r \in Seq(Entry) /\ w \in Texts /\ FrameOf(r, lines, input)
              /\ add = [i \in DOMAIN w |-> Seen(w[i], TRUE)]
          BY <2>6, <3>1, <4>1
        <4>3. r \o add \in Seq(Entry) /\ FrameOf(r \o add, lines, input \o w)
          BY ONLY <4>2, BinaryRead
        <4> QED
          BY <4>1, <4>3
      <3>3. PICK e, p, lines, text : /\ e = Seen("END", TRUE) /\ p = r \o add /\ lines = n.lines
                                     /\ text = n.input \o w
        OBVIOUS
      <3>4. e \in Entry
        BY <3>3 DEF Seen, Entry
      <3>5. all = Append(p, e) /\ p \in Seq(Entry)
        <4>1. p \in Seq(Entry)
          BY <3>2, <3>3
        <4>2. Append(p, e) = p \o <<e>>
          BY ONLY <4>1, <3>4, AppendIsConcat
        <4> QED
          BY <2>3, <3>1, <3>3, <4>1, <4>2
      <3>6. FrameOf(all, Append(lines, text), <<>>)
        <4>1. FrameOf(p, lines, text) /\ all = Append(p, Seen("END", TRUE))
          BY <3>2, <3>3, <3>5
        <4> QED
          BY ONLY <3>5, <4>1, BinaryEnd
      <3>7. PICK l, no : l = Append(lines, text) /\ no = FALSE
        OBVIOUS
      <3>8. m = [seen EXCEPT !.lines = l, !.input = none, !.last_input_was_CR = no]
        BY <2>3, <2>5, <2>2, <2>11, <2>9, <3>3, <3>7
      <3>9. /\ DOMAIN m = NFields /\ m.lines = l /\ m.input = <<>> /\ m.last_input_was_CR = no
            /\ m.wire = <<>> /\ m.read = all /\ m.binary = n.binary
            /\ m.output = n.output /\ m.output_lines_flushed = n.output_lines_flushed
            /\ m.sent = n.sent /\ m.got = n.got /\ m.lost = n.lost
        BY <2>3, <2>5, <3>8, ZenonT(60) DEF NFields
      <3>10. OutOk(m)
        BY <3>9, OutOkKept
      <3>11. all \in Seq(Entry) /\ all[Len(all)] = e
        <4>1. all \in Seq(Entry) /\ Len(all) = Len(p) + 1 /\ all[Len(p) + 1] = e
          <5>1. p \in Seq(Entry) /\ e \in Entry /\ all = Append(p, e)
            BY <3>4, <3>5
          <5> QED
            BY ONLY <5>1, AppendFacts
        <4> QED
          BY <4>1
      <3>12. e # Seen("CR", FALSE)
        BY <3>3 DEF Seen
      <3>13. no \in BOOLEAN /\ no # TRUE
        BY <3>7
      <3>14. Reads(m, all)
        BY <3>6, <3>7, <3>9, <3>11, <3>12, <3>13 DEF Reads
      <3>15. <<>> \in Texts
        BY DEF Texts
      <3> QED
        BY <2>1, <3>9, <3>10, <3>11, <3>14, <3>15 DEF InputOk
    <2> QED
      BY <2>1, <2>10, <2>11
  <1> QED
    BY <1>1, <1>2

-----------------------------------------------------------------------------
(* A handle that keeps both promises, and what is done with it.            *)

HandleOk(n) == OutOk(n) /\ InputOk(n)

LEMMA HandlePromises ==
  ASSUME NEW n, HandleOk(n)
  PROVE  LossTold(n) /\ Framed(n)
  BY DEF HandleOk, OutOk, InputOk, Reads, FrameOf, Framed, Before

LEMMA SameInputOk ==
  ASSUME NEW n, NEW m, HandleOk(n), OutOk(m), m = n \/ SameInput(m, n)
  PROVE  HandleOk(m)
  <1>1. CASE m = n
    BY <1>1
  <1>2. CASE SameInput(m, n)
    BY <1>2 DEF HandleOk, InputOk, SameInput, Reads
  <1> QED
    BY <1>1, <1>2

LEMMA PushOk ==
  ASSUME NEW n, HandleOk(n), NEW room \in Nat
  PROVE  HandleOk(push_output(n, room).n)
  <1>1. PICK m : m = push_output(n, room).n
    OBVIOUS
  <1>2. OutOk(n)
    BY DEF HandleOk
  <1>3. OutOk(m) /\ (m = n \/ SameInput(m, n))
    BY <1>1, <1>2, PushKeeps
  <1>4. HandleOk(m)
    BY ONLY <1>3, HandleOk(n), SameInputOk
  <1> QED
    BY <1>1, <1>4

LEMMA EnqueueOk ==
  ASSUME NEW n, HandleOk(n), NEW room \in Nat, NEW flush_ok \in BOOLEAN
  PROVE  HandleOk(enqueue_output(n, flush_ok, room).n)
  <1>1. PICK m : m = enqueue_output(n, flush_ok, room).n
    OBVIOUS
  <1>2. OutOk(n)
    BY DEF HandleOk
  <1>3. OutOk(m) /\ (m = n \/ SameInput(m, n))
    BY <1>1, <1>2, EnqueueKeeps
  <1>4. HandleOk(m)
    BY ONLY <1>3, HandleOk(n), SameInputOk
  <1> QED
    BY <1>1, <1>4

LEMMA PullOk ==
  ASSUME NEW n, HandleOk(n)
  PROVE  HandleOk(pull_input(n).n)
  BY PullKeeps DEF HandleOk

\* What the client does, and the switches of a handle.
LEMMA SwitchedOk ==
  ASSUME NEW n, HandleOk(n), NEW m, DOMAIN m = NFields,
         m.output = n.output, m.output_lines_flushed = n.output_lines_flushed,
         m.sent = n.sent, m.got = n.got, m.lost = n.lost, m.read = n.read, m.lines = n.lines,
         m.input = n.input, m.last_input_was_CR = n.last_input_was_CR,
         m.wire \in Texts, m.binary \in BOOLEAN
  PROVE  HandleOk(m)
  <1>1. OutOk(m)
    BY OutOkKept DEF HandleOk
  <1>2. InputOk(m)
    BY DEF HandleOk, InputOk, Reads
  <1> QED
    BY <1>1, <1>2 DEF HandleOk

LEMMA NewOk ==
  ASSUME NEW suspended
  PROVE  HandleOk([new_nhandle EXCEPT !.input_suspended = suspended])
  <1>1. PICK n, none : n = [new_nhandle EXCEPT !.input_suspended = suspended] /\ none = <<>>
    OBVIOUS
  <1>2. /\ DOMAIN n = NFields /\ n.output = none /\ n.output_lines_flushed = 0 /\ n.sent = 0
        /\ n.got = none /\ n.lost = 0 /\ n.read = none /\ n.lines = none /\ n.input = none
        /\ n.last_input_was_CR = FALSE /\ n.wire = none /\ n.binary = FALSE
    BY <1>1 DEF new_nhandle, NFields
  <1>3. none \in Seq(Blocks) /\ none \in Seq(Nat) /\ none \in Texts /\ none \in Seq(Entry)
        /\ Len(none) = 0 /\ DOMAIN none = {} /\ ToSet(none) = {}
    BY <1>1 DEF Texts, ToSet
  <1>4. OutOk(n)
    <2>1. Queued(n) = {} /\ Missing(n) = {}
      <3>1. 1..0 = {}
        OBVIOUS
      <3> QED
        BY <1>2, <1>3, <3>1 DEF Queued, Missing
    <2>2. LossTold(n)
      <3>1. Cardinality(Missing(n)) = n.lost + n.output_lines_flushed
        BY <1>2, <2>1, FS_EmptySet
      <3>2. /\ \A i, j \in DOMAIN n.got : i < j => n.got[i] < n.got[j]
            /\ \A g \in ToSet(n.got), k \in Queued(n) : g < k
            /\ \A g \in ToSet(n.got) : Cardinality((1..g) \ ToSet(n.got)) <= n.lost
        BY <1>2, <1>3
      <3>3. ~(Len(n.output) > 1)
        BY <1>2, <1>3
      <3> QED
        BY ONLY <3>1, <3>2, <3>3, LossIs
    <2> QED
      BY <1>2, <1>3, <2>2 DEF OutOk
  <1>5. FrameOf(none, none, none)
    <2>1. PICK e : e \in Entry
      <3>1. [c |-> "x", binary |-> FALSE] \in Entry
        BY DEF Entry, Chars
      <3> QED
        BY <3>1
    <2>2. PICK g : g[0] = <<>> /\ LineEnds(none) = g[Len(none)]
      BY <1>3, LineEndsIs
    <2>3. LineEnds(none) = none
      BY <1>1, <1>3, <2>2
    <2>4. Content(none, 0, 0) = <<>>
      <3>1. 0 \in 0..Len(none)
        BY <1>3
      <3>2. Content(none, Len(none), Len(none)) = <<>>
        BY <1>3, <2>1, <3>1, ContentStep
      <3> QED
        BY <1>3, <3>2
    <2>5. Before(none, 0 + 1) = 0
      BY DEF Before
    <2>6. none = [i \in DOMAIN none |-> Content(none, Before(none, i), none[i])]
      BY <1>1, <1>3
    <2> QED
      BY <1>1, <1>3, <2>3, <2>4, <2>5, <2>6 DEF FrameOf
  <1>6. InputOk(n)
    <2>1. PICK no : no = FALSE
      OBVIOUS
    <2>2. no \in BOOLEAN /\ no # TRUE /\ n.last_input_was_CR = no /\ n.binary = no
      BY <1>2, <2>1
    <2>3. ~(Len(n.read) > 0)
      BY <1>2, <1>3
    <2>4. Reads(n, n.read)
      BY <1>2, <1>5, <2>2, <2>3 DEF Reads
    <2> QED
      BY <1>2, <1>3, <2>2, <2>4 DEF InputOk
  <1> QED
    BY <1>1, <1>4, <1>6 DEF HandleOk

-----------------------------------------------------------------------------
(* Timers.  A task may use Limit half seconds of CPU time.                 *)

Limit == 2 * TaskSeconds

Timer == [proc : {checkpoint_timer, timeout_proc}, left : Nat]
TimerRecord ==
  [active : Seq(Timer), alarm : Int,
   sigalrm : BOOLEAN, virtual : Int, cpu : Int, sigvtalrm : BOOLEAN]

\* What stop_timers leaves: nothing is set and nothing is pending.
Stopped(t) ==
  /\ t \in TimerRecord
  /\ t.alarm = NoAlarm /\ ~t.sigalrm /\ t.cpu = NoAlarm /\ ~t.sigvtalrm
  /\ t.virtual = NoAlarm \/ t.virtual \in 0..Limit

\* Armed, and what it takes for it to stay so: the alarm is not set while its
\* signal is pending or there is no timer to set it for.
TimersOk(t) ==
  /\ t \in TimerRecord
  /\ Armed(t)
  /\ t.sigalrm \/ t.active = <<>> => t.alarm = NoAlarm
  /\ t.cpu = NoAlarm \/ t.cpu \in 1..Limit
  /\ t.virtual = NoAlarm \/ t.virtual \in 0..Limit

\* What the task has used and what it may still use are within its limit.
Budget(t, used) ==
  /\ used \in Nat /\ used <= Limit
  /\ t.cpu # NoAlarm => used + t.cpu <= Limit

\* Timers of timeout_proc: none, or at most one.
NoTimeouts(t) == \A i \in DOMAIN t.active : t.active[i].proc = checkpoint_timer
OneTimeout(t) ==
  \A i, j \in DOMAIN t.active :
    t.active[i].proc = timeout_proc /\ t.active[j].proc = timeout_proc => i = j

LEMMA LimitType == Limit \in Nat /\ Limit >= 2
  BY ConnectionsAssumption DEF Limit

LEMMA StopIs ==
  ASSUME NEW t, TimersOk(t)
  PROVE  /\ Stopped(stop_timers(t))
         /\ stop_timers(t).active = t.active
         /\ \A used : Budget(t, used) =>
              stop_timers(t).virtual = NoAlarm \/ used + stop_timers(t).virtual <= Limit
  <1> DEFINE s == stop_timers(t)
             v == IF t.virtual = NoAlarm THEN t.virtual
                  ELSE IF t.cpu = NoAlarm THEN 0 ELSE 2 * (t.cpu \div 2)
  <1>1. t \in TimerRecord /\ t.virtual \in Int /\ t.cpu \in Int
    BY DEF TimersOk, TimerRecord
  <1>2. s = [t EXCEPT !.alarm = NoAlarm, !.sigalrm = FALSE, !.sigvtalrm = FALSE,
                      !.cpu = NoAlarm, !.virtual = v]
    BY DEF stop_timers
  <1>3. v = NoAlarm \/ (v \in 0..Limit /\ (t.cpu = NoAlarm => v = 0)
                        /\ (t.cpu # NoAlarm => v <= t.cpu))
    <2>1. t.cpu = NoAlarm \/ t.cpu \in 1..Limit
      BY DEF TimersOk
    <2>2. \A n \in 1..Limit : 2 * (n \div 2) \in 0..Limit /\ 2 * (n \div 2) <= n
      BY LimitType
    <2> QED
      BY <1>1, <2>1, <2>2, LimitType
  <1>4. v \in Int /\ NoAlarm \in Int
    BY <1>3, LimitType DEF NoAlarm
  <1> HIDE DEF v
  <1>5. s \in TimerRecord /\ s.alarm = NoAlarm /\ s.sigalrm = FALSE /\ s.cpu = NoAlarm
        /\ s.sigvtalrm = FALSE /\ s.virtual = v /\ s.active = t.active
    BY <1>1, <1>2, <1>4 DEF TimerRecord
  <1> HIDE DEF s
  <1>6. Stopped(s)
    BY <1>3, <1>5 DEF Stopped
  <1>7. ASSUME NEW used, Budget(t, used) PROVE s.virtual = NoAlarm \/ used + s.virtual <= Limit
    <2>1. used \in Nat /\ used <= Limit /\ (t.cpu # NoAlarm => used + t.cpu <= Limit)
      BY <1>7 DEF Budget
    <2> QED
      BY <1>1, <1>3, <1>5, <2>1, LimitType
  <1> QED
    BY <1>5, <1>6, <1>7 DEF s

LEMMA RestartIs ==
  ASSUME NEW s, Stopped(s)
  PROVE  /\ TimersOk(restart_timers(s))
         /\ restart_timers(s).active = s.active
         /\ restart_timers(s).cpu \in {NoAlarm, s.virtual}
         /\ s.virtual = NoAlarm => restart_timers(s).cpu = NoAlarm
  <1> DEFINE r == restart_timers(s)
             real == IF s.active = <<>> THEN s
                     ELSE IF Head(s.active).left > 0
                          THEN [s EXCEPT !.alarm = Head(s.active).left]
                          ELSE [s EXCEPT !.sigalrm = TRUE]
  <1>1. s \in TimerRecord /\ s.alarm = NoAlarm /\ s.sigalrm = FALSE /\ s.cpu = NoAlarm
        /\ s.sigvtalrm = FALSE /\ (s.virtual = NoAlarm \/ s.virtual \in 0..Limit)
    BY DEF Stopped, TimerRecord
  <1>2. s.active # <<>> => Head(s.active).left \in Nat
    <2>1. s.active \in Seq(Timer)
      BY <1>1 DEF TimerRecord
    <2>2. s.active # <<>> => Head(s.active) \in Timer
      BY <2>1, HeadTailProperties
    <2> QED
      BY <2>2 DEF Timer
  <1>3. /\ real \in TimerRecord /\ real.active = s.active /\ real.virtual = s.virtual
        /\ real.cpu = NoAlarm /\ real.sigvtalrm = FALSE
        /\ s.active # <<>> =>
             \/ real.sigalrm = TRUE /\ Head(s.active).left = 0 /\ real.alarm = NoAlarm
             \/ real.alarm = Head(s.active).left /\ real.alarm > 0 /\ real.sigalrm = FALSE
        /\ s.active = <<>> => real.sigalrm = FALSE /\ real.alarm = NoAlarm
    <2>1. CASE s.active = <<>>
      BY <1>1, <2>1
    <2>2. CASE s.active # <<>> /\ Head(s.active).left > 0
      BY <1>1, <1>2, <2>2 DEF TimerRecord
    <2>3. CASE s.active # <<>> /\ ~(Head(s.active).left > 0)
      <3>1. real = [s EXCEPT !.sigalrm = TRUE] /\ Head(s.active).left = 0
        BY <1>2, <2>3
      <3> HIDE DEF real
      <3> QED
        BY <1>1, <2>3, <3>1 DEF TimerRecord
    <2> QED
      BY <2>1, <2>2, <2>3
  <1>4. r = IF s.virtual = NoAlarm THEN real
            ELSE IF s.virtual > 0 THEN [real EXCEPT !.cpu = s.virtual]
            ELSE [real EXCEPT !.sigvtalrm = TRUE]
    BY DEF restart_timers
  <1> HIDE DEF real, r
  <1>5. /\ r \in TimerRecord /\ r.active = s.active /\ r.virtual = s.virtual
        /\ r.sigalrm = real.sigalrm /\ r.alarm = real.alarm
        /\ \/ s.virtual = NoAlarm /\ r.cpu = NoAlarm /\ r.sigvtalrm = FALSE
           \/ s.virtual \in 1..Limit /\ r.cpu = s.virtual /\ r.sigvtalrm = FALSE
           \/ s.virtual = 0 /\ r.cpu = NoAlarm /\ r.sigvtalrm = TRUE
    <2>1. CASE s.virtual = NoAlarm
      BY <1>3, <1>4, <2>1
    <2>2. CASE s.virtual # NoAlarm /\ s.virtual > 0
      BY <1>1, <1>3, <1>4, <2>2, LimitType DEF TimerRecord
    <2>3. CASE s.virtual # NoAlarm /\ ~(s.virtual > 0)
      <3>1. r = [real EXCEPT !.sigvtalrm = TRUE] /\ s.virtual = 0
        BY <1>1, <1>4, <2>3, LimitType
      <3> QED
        BY <1>3, <3>1 DEF TimerRecord
    <2> QED
      BY <2>1, <2>2, <2>3
  <1>6. NoAlarm = -1 /\ s.virtual \in Int
    BY <1>1 DEF NoAlarm, TimerRecord
  <1>7. Armed(r)
    BY <1>3, <1>5, <1>6, LimitType DEF Armed
  <1>8. TimersOk(r)
    BY <1>1, <1>3, <1>5, <1>6, <1>7, LimitType DEF TimersOk
  <1> QED
    BY <1>5, <1>6, <1>8, LimitType DEF r

\* A new timer is put in somewhere, the others stay in their order.
LEMMA InsertPlaces ==
  ASSUME NEW S, NEW s \in Seq(S), NEW e \in S, NEW k \in 1..(Len(s) + 1)
  PROVE  Placed(s, e, InsertAt(s, k, e))
  <1>1. Len(s) \in Nat /\ \A i \in 1..Len(s) : s[i] \in S
    BY ElementOfSeq, LenProperties
  <1>2. CASE k \in 1..Len(s)
    BY <1>1, <1>2, InsertIs DEF Placed
  <1>3. CASE k = Len(s) + 1
    <2> DEFINE a == SubSeq(s, 1, k - 1)
               b == SubSeq(s, k, Len(s))
               t == [i \in 1..(Len(s) + 1) |-> IF i < k THEN s[i]
                                              ELSE IF i = k THEN e ELSE s[i - 1]]
    <2>1. k - 1 = Len(s) /\ k \in Int
      BY <1>1, <1>3
    <2>2. a \in Seq(S) /\ Len(a) = Len(s) /\ \A i \in 1..Len(s) : a[i] = s[i]
      BY <1>1, <2>1, SubSeqProperties
    <2>3. a = s
      BY <2>2, SeqEqual
    <2>4. b = <<>>
      BY <1>1, <1>3, SubSeqProperties, EmptySeq
    <2> HIDE DEF a, b
    <2>5. s \o <<e>> = Append(s, e) /\ Append(s, e) \o <<>> = Append(s, e)
      OBVIOUS
    <2>6. InsertAt(s, k, e) = Append(s, e)
      BY <2>3, <2>4, <2>5 DEF InsertAt, a, b
    <2>7. Append(s, e) = t
      <3>1. /\ Append(s, e) \in Seq(S) /\ Len(Append(s, e)) = Len(s) + 1
            /\ \A i \in 1..Len(s) : Append(s, e)[i] = s[i]
            /\ Append(s, e)[Len(s) + 1] = e
        BY AppendProperties
      <3>2. \A i \in 1..(Len(s) + 1) : i = Len(s) + 1 \/ (i \in 1..Len(s) /\ i < k)
        BY <1>1, <1>3
      <3>3. \A i \in 1..(Len(s) + 1) : t[i] = Append(s, e)[i] /\ t[i] \in S
        BY <1>1, <1>3, <3>1, <3>2
      <3>4. t \in Seq(S) /\ Len(t) = Len(s) + 1
        BY <1>1, <3>3, IsASeq
      <3> HIDE DEF t
      <3> QED
        BY <3>1, <3>3, <3>4, SeqEqual
    <2> QED
      BY <1>1, <1>3, <2>6, <2>7 DEF Placed
  <1> QED
    BY <1>1, <1>2, <1>3

LEMMA SetTimerIs ==
  ASSUME NEW t, TimersOk(t), NEW seconds \in Nat, NEW proc \in {checkpoint_timer, timeout_proc}
  PROVE  /\ TimersOk(set_timer(t, seconds, proc))
         /\ \A used : Budget(t, used) => Budget(set_timer(t, seconds, proc), used)
         /\ NoTimeouts(t) => OneTimeout(set_timer(t, seconds, proc))
         /\ NoTimeouts(t) /\ proc = checkpoint_timer => NoTimeouts(set_timer(t, seconds, proc))
  <1> DEFINE s == stop_timers(t)
             e == [proc |-> proc, left |-> seconds]
             before == Cardinality({i \in DOMAIN t.active : t.active[i].left <= seconds})
             list == InsertAt(s.active, before + 1, e)
             u == [s EXCEPT !.active = list]
             r == restart_timers(u)
  <1>1. /\ Stopped(s) /\ s.active = t.active
        /\ \A used : Budget(t, used) => s.virtual = NoAlarm \/ used + s.virtual <= Limit
    BY StopIs
  <1>2. t.active \in Seq(Timer) /\ e \in Timer
    BY DEF TimersOk, TimerRecord, Timer
  <1>3. before + 1 \in 1..(Len(t.active) + 1)
    <2> DEFINE B == {i \in DOMAIN t.active : t.active[i].left <= seconds}
    <2>1. Len(t.active) \in Nat /\ DOMAIN t.active = 1..Len(t.active)
      BY <1>2, LenProperties
    <2>2. B \subseteq 1..Len(t.active)
      BY <2>1
    <2> HIDE DEF B
    <2>3. IsFiniteSet(1..Len(t.active)) /\ Cardinality(1..Len(t.active)) = Len(t.active)
      BY <2>1, FS_Interval
    <2>4. Cardinality(B) <= Len(t.active) /\ IsFiniteSet(B)
      BY <2>2, <2>3, FS_Subset
    <2>5. Cardinality(B) \in Nat
      BY <2>4, FS_CardinalityType
    <2>6. before = Cardinality(B)
      BY DEF B
    <2> HIDE DEF before
    <2> QED
      BY <2>1, <2>4, <2>5, <2>6
  <1> HIDE DEF before
  <1>4. Placed(t.active, e, list)
    BY <1>1, <1>2, <1>3, InsertPlaces
  <1>5. list \in Seq(Timer) /\ Len(list) = Len(t.active) + 1
    BY <1>2, <1>4, PlacedIs
  <1>6. set_timer(t, seconds, proc) = r
    BY DEF set_timer, before
  <1> HIDE DEF list, e, s
  <1>7. Stopped(u) /\ u.active = list /\ u.virtual = s.virtual
    BY <1>1, <1>5 DEF Stopped, TimerRecord
  <1> HIDE DEF u
  <1>8. /\ TimersOk(r) /\ r.active = list /\ r.cpu \in {NoAlarm, u.virtual}
        /\ (u.virtual = NoAlarm => r.cpu = NoAlarm)
    BY <1>7, RestartIs
  <1> HIDE DEF r
  <1>9. ASSUME NEW used, Budget(t, used) PROVE Budget(r, used)
    BY <1>1, <1>7, <1>8, <1>9 DEF Budget
  <1>10. ASSUME NoTimeouts(t)
         PROVE  OneTimeout(r) /\ (proc = checkpoint_timer => NoTimeouts(r))
    <2>1. Len(t.active) \in Nat /\ DOMAIN t.active = 1..Len(t.active)
          /\ DOMAIN list = 1..(Len(t.active) + 1)
      BY <1>2, <1>5, LenProperties
    <2>2. PICK k \in 1..(Len(t.active) + 1) :
            list = [i \in 1..(Len(t.active) + 1) |-> IF i < k THEN t.active[i]
                                          ELSE IF i = k THEN e ELSE t.active[i - 1]]
      BY <1>4 DEF Placed
    <2>3. e.proc = proc /\ checkpoint_timer # timeout_proc
      BY DEF e, checkpoint_timer, timeout_proc
    <2>4. \A i \in 1..Len(t.active) : t.active[i].proc = checkpoint_timer
      BY <1>10, <2>1 DEF NoTimeouts
    <2>5. ASSUME NEW i \in 1..(Len(t.active) + 1) PROVE i # k => list[i].proc = checkpoint_timer
      <3>1. CASE i < k
        <4>1. i \in 1..Len(t.active) /\ list[i] = t.active[i]
          BY <2>1, <2>2, <3>1
        <4> QED
          BY <2>4, <4>1
      <3>2. CASE i > k
        <4>1. i - 1 \in 1..Len(t.active) /\ list[i] = t.active[i - 1]
          BY <2>1, <2>2, <3>2
        <4> QED
          BY <2>4, <4>1
      <3> QED
        BY <2>1, <3>1, <3>2
    <2>6. list[k].proc = proc
      BY <2>2, <2>3
    <2> QED
      BY <1>8, <2>1, <2>3, <2>5, <2>6 DEF OneTimeout, NoTimeouts
  <1> QED
    BY <1>6, <1>8, <1>9, <1>10

LEMMA CancelTimerIs ==
  ASSUME NEW t, TimersOk(t), NEW proc \in {checkpoint_timer, timeout_proc}
  PROVE  /\ TimersOk(cancel_timer(t, proc))
         /\ \A used : Budget(t, used) => Budget(cancel_timer(t, proc), used)
         /\ NoTimeouts(t) => NoTimeouts(cancel_timer(t, proc))
         /\ OneTimeout(t) /\ proc = timeout_proc => NoTimeouts(cancel_timer(t, proc))
  <1> DEFINE s == stop_timers(t)
             has == {i \in DOMAIN t.active : t.active[i].proc = proc}
             k == CHOOSE i \in has : TRUE
             list == RemoveAt(s.active, k)
             u == IF has = {} THEN s ELSE [s EXCEPT !.active = list]
             r == restart_timers(u)
  <1>1. /\ Stopped(s) /\ s.active = t.active
        /\ \A used : Budget(t, used) => s.virtual = NoAlarm \/ used + s.virtual <= Limit
    BY StopIs
  <1>2. t.active \in Seq(Timer) /\ Len(t.active) \in Nat /\ DOMAIN t.active = 1..Len(t.active)
        /\ \A i \in DOMAIN t.active : t.active[i] \in Timer
    <2>1. t.active \in Seq(Timer)
      BY DEF TimersOk, TimerRecord
    <2> QED
      BY <2>1, LenProperties, ElementOfSeq
  <1>3. has # {} => k \in 1..Len(t.active) /\ t.active[k].proc = proc
    BY <1>2
  <1>4. cancel_timer(t, proc) = r
    BY DEF cancel_timer
  <1>a. has = {} => \A i \in DOMAIN t.active : t.active[i].proc # proc
    OBVIOUS
  <1>b. \A i \in DOMAIN t.active : t.active[i].proc \in {checkpoint_timer, timeout_proc}
    BY <1>2 DEF Timer
  <1> HIDE DEF has, k, s
  <1>5. has # {} =>
          /\ list \in Seq(Timer) /\ Len(list) = Len(t.active) - 1
          /\ \A i \in 1..(Len(t.active) - 1) :
               list[i] = IF i < k THEN t.active[i] ELSE t.active[i + 1]
    BY <1>1, <1>2, <1>3, RemoveIs
  <1> HIDE DEF list
  <1>6. Stopped(u) /\ u.virtual = s.virtual
        /\ (has = {} => u.active = t.active) /\ (has # {} => u.active = list)
    BY <1>1, <1>5 DEF Stopped, TimerRecord
  <1> HIDE DEF u
  <1>7. /\ TimersOk(r) /\ r.active = u.active /\ r.cpu \in {NoAlarm, u.virtual}
        /\ (u.virtual = NoAlarm => r.cpu = NoAlarm)
    BY <1>6, RestartIs
  <1> HIDE DEF r
  <1>8. ASSUME NEW used, Budget(t, used) PROVE Budget(r, used)
    BY <1>1, <1>6, <1>7, <1>8 DEF Budget
  <1>9. CASE has = {}
    <2>1. NoTimeouts(t) => NoTimeouts(r)
      BY <1>6, <1>7, <1>9 DEF NoTimeouts
    <2>2. proc = timeout_proc => NoTimeouts(r)
      BY <1>6, <1>7, <1>9, <1>a, <1>b DEF NoTimeouts
    <2> QED
      BY <1>4, <1>7, <1>8, <2>1, <2>2
  <1>10. CASE has # {}
    <2>1. DOMAIN list = 1..(Len(t.active) - 1) /\ r.active = list
      BY <1>5, <1>6, <1>7, <1>10, LenProperties
    <2>2. ASSUME NEW i \in 1..(Len(t.active) - 1)
          PROVE  \E j \in DOMAIN t.active : j # k /\ list[i] = t.active[j]
      <3>1. k \in Int /\ i \in DOMAIN t.active /\ i + 1 \in DOMAIN t.active
        BY <1>2, <1>3, <1>10
      <3>2. CASE i < k
        BY <1>5, <1>10, <3>1, <3>2
      <3>3. CASE ~(i < k)
        BY <1>5, <1>10, <3>1, <3>3
      <3> QED
        BY <3>2, <3>3
    <2>3. NoTimeouts(t) => NoTimeouts(r)
      BY <2>1, <2>2 DEF NoTimeouts
    <2>4. OneTimeout(t) /\ proc = timeout_proc => NoTimeouts(r)
      <3>1. ASSUME OneTimeout(t), proc = timeout_proc, NEW i \in DOMAIN list
            PROVE  list[i].proc = checkpoint_timer
        <4>1. PICK j \in DOMAIN t.active : j # k /\ list[i] = t.active[j]
          BY <2>1, <2>2
        <4>2. t.active[j].proc # timeout_proc
          BY <1>2, <1>3, <1>10, <3>1, <4>1 DEF OneTimeout
        <4> QED
          BY <1>b, <4>1, <4>2
      <3> QED
        BY <2>1, <3>1 DEF NoTimeouts
    <2> QED
      BY <1>4, <1>7, <1>8, <2>3, <2>4
  <1> QED
    BY <1>9, <1>10

\* The handler of SIGALRM.  It does not stop the timers first; a task's CPU
\* timer starts again from where it was set, which is within the limit.
LEMMA WakeupIs ==
  ASSUME NEW t, TimersOk(t), t.sigalrm
  PROVE  /\ TimersOk(wakeup_call(t)) /\ Budget(wakeup_call(t), 0)
         /\ NoTimeouts(t) => NoTimeouts(wakeup_call(t))
         /\ OneTimeout(t) => OneTimeout(wakeup_call(t))
         /\ OneTimeout(t) /\ Head(t.active).proc # checkpoint_timer
              => NoTimeouts(wakeup_call(t))
         /\ t.active # <<>>
  <1> DEFINE list == Tail(t.active)
             u == [t EXCEPT !.active = list, !.sigalrm = FALSE]
             real == IF u.active = <<>> THEN u
                     ELSE IF Head(u.active).left > 0
                          THEN [u EXCEPT !.alarm = Head(u.active).left]
                          ELSE [u EXCEPT !.sigalrm = TRUE]
             r == restart_timers(u)
  <1>1. /\ t \in TimerRecord /\ Armed(t) /\ t.alarm = NoAlarm
        /\ t.cpu = NoAlarm \/ t.cpu \in 1..Limit
        /\ t.virtual = NoAlarm \/ t.virtual \in 0..Limit
    BY DEF TimersOk
  <1>2. t.active # <<>> /\ t.active \in Seq(Timer)
    BY <1>1 DEF Armed, TimerRecord
  <1>3. /\ list \in Seq(Timer) /\ Len(list) = Len(t.active) - 1
        /\ Len(t.active) \in Nat /\ DOMAIN t.active = 1..Len(t.active)
        /\ DOMAIN list = 1..(Len(t.active) - 1)
        /\ \A i \in 1..(Len(t.active) - 1) : list[i] = t.active[i + 1]
        /\ Head(t.active) = t.active[1] /\ Len(t.active) >= 1
    BY <1>2, HeadTailProperties, LenProperties, EmptySeq
  <1>4. wakeup_call(t) = r
    BY DEF wakeup_call
  <1>b. \A i \in DOMAIN t.active : t.active[i].proc \in {checkpoint_timer, timeout_proc}
    <2>1. \A i \in DOMAIN t.active : t.active[i] \in Timer
      BY <1>2, ElementOfSeq, LenProperties
    <2> QED
      BY <2>1 DEF Timer
  <1>c. list # <<>> => Head(list).left \in Nat
    <2>1. list # <<>> => Head(list) \in Timer
      BY <1>3, HeadTailProperties
    <2> QED
      BY <2>1 DEF Timer
  <1> HIDE DEF list
  <1>5. /\ u \in TimerRecord /\ u.active = list /\ u.sigalrm = FALSE /\ u.alarm = NoAlarm
        /\ u.virtual = t.virtual /\ u.cpu = t.cpu /\ u.sigvtalrm = t.sigvtalrm
    BY <1>1, <1>3 DEF TimerRecord
  <1> HIDE DEF u
  <1>6. /\ real \in TimerRecord /\ real.active = list /\ real.virtual = t.virtual
        /\ real.cpu = t.cpu /\ real.sigvtalrm = t.sigvtalrm
        /\ list # <<>> =>
             \/ real.sigalrm = TRUE /\ Head(list).left = 0 /\ real.alarm = NoAlarm
             \/ real.alarm = Head(list).left /\ real.alarm > 0 /\ real.sigalrm = FALSE
        /\ list = <<>> => real.sigalrm = FALSE /\ real.alarm = NoAlarm
    <2>1. CASE list = <<>>
      BY <1>5, <2>1
    <2>2. CASE list # <<>> /\ Head(list).left > 0
      BY <1>5, <1>c, <2>2 DEF TimerRecord
    <2>3. CASE list # <<>> /\ ~(Head(list).left > 0)
      <3>1. real = [u EXCEPT !.sigalrm = TRUE] /\ Head(list).left = 0
        BY <1>5, <1>c, <2>3
      <3> HIDE DEF real
      <3> QED
        BY <1>5, <2>3, <3>1 DEF TimerRecord
    <2> QED
      BY <2>1, <2>2, <2>3
  <1>7. r = IF t.virtual = NoAlarm THEN real
            ELSE IF t.virtual > 0 THEN [real EXCEPT !.cpu = t.virtual]
            ELSE [real EXCEPT !.sigvtalrm = TRUE]
    BY <1>5 DEF restart_timers
  <1> HIDE DEF real, r
  <1>8. /\ r \in TimerRecord /\ r.active = list /\ r.virtual = t.virtual
        /\ r.sigalrm = real.sigalrm /\ r.alarm = real.alarm
        /\ \/ t.virtual = NoAlarm /\ r.cpu = t.cpu /\ r.sigvtalrm = t.sigvtalrm
           \/ t.virtual \in 1..Limit /\ r.cpu = t.virtual /\ r.sigvtalrm = t.sigvtalrm
           \/ t.virtual = 0 /\ r.cpu = t.cpu /\ r.sigvtalrm = TRUE
    <2>1. CASE t.virtual = NoAlarm
      BY <1>6, <1>7, <2>1
    <2>2. CASE t.virtual # NoAlarm /\ t.virtual > 0
      BY <1>1, <1>6, <1>7, <2>2, LimitType DEF TimerRecord
    <2>3. CASE t.virtual # NoAlarm /\ ~(t.virtual > 0)
      <3>1. r = [real EXCEPT !.sigvtalrm = TRUE] /\ t.virtual = 0
        BY <1>1, <1>7, <2>3, LimitType
      <3> QED
        BY <1>6, <3>1 DEF TimerRecord
    <2> QED
      BY <2>1, <2>2, <2>3
  <1>9. NoAlarm = -1 /\ t.virtual \in Int /\ t.cpu \in Int
    BY <1>1 DEF NoAlarm, TimerRecord
  <1>10. Armed(r)
    BY <1>1, <1>6, <1>8, <1>9, LimitType DEF Armed
  <1>11. TimersOk(r) /\ Budget(r, 0)
    BY <1>1, <1>6, <1>8, <1>9, <1>10, LimitType DEF TimersOk, Budget
  <1>12. \A i \in DOMAIN list : i + 1 \in DOMAIN t.active /\ list[i] = t.active[i + 1]
    BY <1>3
  <1>13. NoTimeouts(t) => NoTimeouts(r)
    BY <1>8, <1>12 DEF NoTimeouts
  <1>14. OneTimeout(t) => OneTimeout(r)
    <2>1. ASSUME OneTimeout(t), NEW i \in DOMAIN list, NEW j \in DOMAIN list,
                 list[i].proc = timeout_proc, list[j].proc = timeout_proc
          PROVE  i = j
      <3>1. i + 1 = j + 1
        BY <1>12, <2>1 DEF OneTimeout
      <3> QED
        BY <1>3, <3>1
    <2> QED
      BY <1>8, <2>1 DEF OneTimeout
  <1>15. OneTimeout(t) /\ Head(t.active).proc # checkpoint_timer => NoTimeouts(r)
    <2>1. ASSUME OneTimeout(t), Head(t.active).proc # checkpoint_timer, NEW i \in DOMAIN list
          PROVE  list[i].proc = checkpoint_timer
      <3>1. 1 \in DOMAIN t.active /\ t.active[1].proc = timeout_proc
        BY <1>3, <1>b, <2>1
      <3>2. i + 1 # 1
        BY <1>3
      <3>3. t.active[i + 1].proc # timeout_proc
        BY <1>12, <2>1, <3>1, <3>2 DEF OneTimeout
      <3> QED
        BY <1>12, <1>b, <3>3
    <2> QED
      BY <1>8, <2>1 DEF NoTimeouts
  <1> QED
    BY <1>2, <1>4, <1>11, <1>13, <1>14, <1>15

LEMMA SetVirtualIs ==
  ASSUME NEW t, TimersOk(t), NEW halves, halves = NoAlarm \/ halves \in 0..Limit
  PROVE  LET r == restart_timers([stop_timers(t) EXCEPT !.virtual = halves])
         IN  /\ TimersOk(r) /\ r.active = t.active /\ Budget(r, 0)
             /\ halves = NoAlarm => \A used \in 0..Limit : Budget(r, used)
  <1> DEFINE s == stop_timers(t)
             u == [s EXCEPT !.virtual = halves]
             r == restart_timers(u)
  <1>1. Stopped(s) /\ s.active = t.active
    BY StopIs
  <1>2. halves \in Int /\ NoAlarm = -1
    BY LimitType DEF NoAlarm
  <1> HIDE DEF s
  <1>3. Stopped(u) /\ u.active = t.active /\ u.virtual = halves
    BY <1>1, <1>2 DEF Stopped, TimerRecord
  <1> HIDE DEF u
  <1>4. /\ TimersOk(r) /\ r.active = t.active /\ r.cpu \in {NoAlarm, halves}
        /\ (halves = NoAlarm => r.cpu = NoAlarm)
    BY <1>3, RestartIs
  <1> HIDE DEF r
  <1>5. Budget(r, 0)
    BY <1>2, <1>4, LimitType DEF Budget
  <1>6. halves = NoAlarm => \A used \in 0..Limit : Budget(r, used)
    BY <1>4, LimitType DEF Budget
  <1> QED
    BY <1>4, <1>5, <1>6 DEF r, u, s

LEMMA SameProcs ==
  ASSUME NEW t, NEW r, r.active = t.active
  PROVE  (NoTimeouts(t) => NoTimeouts(r)) /\ (OneTimeout(t) => OneTimeout(r))
  BY DEF NoTimeouts, OneTimeout

\* The two ways a verb starts and ends.
LEMMA VirtualTimers ==
  ASSUME NEW t, TimersOk(t)
  PROVE  /\ LET r == set_virtual_timer(cancel_virtual_timer(t), 2 * TaskSeconds)
            IN  TimersOk(r) /\ Budget(r, 0) /\ r.active = t.active
         /\ TimersOk(cancel_virtual_timer(t)) /\ Budget(cancel_virtual_timer(t), 0)
         /\ cancel_virtual_timer(t).active = t.active
  <1> DEFINE c == cancel_virtual_timer(t)
             r == set_virtual_timer(c, 2 * TaskSeconds)
  <1>1. TimersOk(c) /\ c.active = t.active /\ Budget(c, 0)
    BY SetVirtualIs DEF cancel_virtual_timer
  <1> HIDE DEF c
  <1>2. 2 * TaskSeconds \in 0..Limit
    BY LimitType, ConnectionsAssumption DEF Limit
  <1>3. TimersOk(r) /\ r.active = c.active /\ Budget(r, 0)
    BY <1>1, <1>2, SetVirtualIs DEF set_virtual_timer
  <1> HIDE DEF r
  <1> QED
    BY <1>1, <1>3 DEF r, c

LEMMA SecondIs ==
  ASSUME NEW t, TimersOk(t)
  PROVE  /\ TimersOk(SecondPasses(t))
         /\ \A used : Budget(t, used) => Budget(SecondPasses(t), used)
         /\ NoTimeouts(t) => NoTimeouts(SecondPasses(t))
         /\ OneTimeout(t) => OneTimeout(SecondPasses(t))
  <1> DEFINE a == t.active
             b == [i \in DOMAIN a |-> [proc |-> a[i].proc,
                                       left |-> IF a[i].left > 0 THEN a[i].left - 1 ELSE 0]]
             alarm == IF t.alarm > 1 THEN t.alarm - 1 ELSE NoAlarm
             sig == t.sigalrm \/ t.alarm = 1
             r == SecondPasses(t)
  <1>1. /\ t \in TimerRecord /\ Armed(t)
        /\ t.sigalrm \/ t.active = <<>> => t.alarm = NoAlarm
        /\ t.cpu = NoAlarm \/ t.cpu \in 1..Limit
        /\ t.virtual = NoAlarm \/ t.virtual \in 0..Limit
    BY DEF TimersOk
  <1>2. /\ a \in Seq(Timer) /\ Len(a) \in Nat /\ DOMAIN a = 1..Len(a)
        /\ \A i \in DOMAIN a : a[i] \in Timer
    <2>1. a \in Seq(Timer)
      BY <1>1 DEF TimerRecord
    <2> HIDE DEF a
    <2> QED
      BY <2>1, LenProperties, ElementOfSeq
  <1>3. r = [t EXCEPT !.active = b, !.alarm = alarm, !.sigalrm = sig]
    BY DEF SecondPasses
  <1> HIDE DEF a
  <1>4. ASSUME NEW i \in DOMAIN a
        PROVE  /\ b[i] \in Timer /\ b[i].proc = a[i].proc
               /\ b[i].left = IF a[i].left > 0 THEN a[i].left - 1 ELSE 0
    BY <1>2 DEF Timer
  <1>5. b \in Seq(Timer) /\ Len(b) = Len(a) /\ DOMAIN b = DOMAIN a
    <2>1. DOMAIN b = 1..Len(a)
      BY <1>2
    <2>2. b \in Seq(Timer) /\ Len(b) = Len(a)
      BY <1>2, <1>4, IsASeq
    <2> QED
      BY <1>2, <2>1, <2>2
  <1>6. (a = <<>> <=> b = <<>>) /\ (a # <<>> => Head(a) = a[1] /\ Head(b) = b[1] /\ 1 \in DOMAIN a)
    BY <1>2, <1>5, HeadTailProperties, EmptySeq
  <1>7. t.alarm \in Int /\ NoAlarm = -1 /\ t.sigalrm \in BOOLEAN
    BY <1>1 DEF TimerRecord, NoAlarm
  <1>8. alarm \in Int /\ sig \in BOOLEAN
    BY <1>7
  <1> HIDE DEF b, alarm, sig
  <1>9. /\ r \in TimerRecord /\ r.active = b /\ r.alarm = alarm /\ r.sigalrm = sig
        /\ r.virtual = t.virtual /\ r.cpu = t.cpu /\ r.sigvtalrm = t.sigvtalrm
    BY <1>1, <1>3, <1>5, <1>8 DEF TimerRecord
  <1> HIDE DEF r
  <1>10. Armed(r) /\ (r.sigalrm \/ r.active = <<>> => r.alarm = NoAlarm)
    <2>1. CASE a = <<>>
      <3>1. t.alarm = NoAlarm /\ ~t.sigalrm
        BY <1>1, <2>1 DEF Armed, a
      <3>2. alarm = NoAlarm /\ ~sig
        BY <1>7, <3>1 DEF alarm, sig
      <3> QED
        BY <1>1, <1>6, <1>9, <2>1, <3>2 DEF Armed
    <2>2. CASE a # <<>>
      <3>1. \/ t.sigalrm /\ a[1].left = 0 /\ t.alarm = NoAlarm
            \/ t.alarm = a[1].left /\ t.alarm > 0
        BY <1>1, <1>6, <2>2 DEF Armed, a
      <3>2. b[1].left = IF a[1].left > 0 THEN a[1].left - 1 ELSE 0
        BY <1>4, <1>6, <2>2
      <3>3. CASE t.sigalrm
        <4>1. t.alarm = NoAlarm /\ a[1].left = 0
          BY <1>1, <1>7, <3>1, <3>3
        <4>2. sig /\ b[1].left = 0 /\ alarm = NoAlarm
          BY <1>7, <3>2, <3>3, <4>1 DEF sig, alarm
        <4> QED
          BY <1>1, <1>6, <1>9, <2>2, <4>2 DEF Armed
      <3>4. CASE ~t.sigalrm /\ t.alarm = 1
        <4>1. sig /\ b[1].left = 0 /\ alarm = NoAlarm
          BY <1>7, <3>1, <3>2, <3>4 DEF sig, alarm
        <4> QED
          BY <1>1, <1>6, <1>9, <2>2, <4>1 DEF Armed
      <3>5. CASE ~t.sigalrm /\ t.alarm # 1
        <4>1. ~sig /\ alarm = t.alarm - 1 /\ b[1].left = alarm /\ alarm > 0
          BY <1>7, <3>1, <3>2, <3>5 DEF sig, alarm
        <4> QED
          BY <1>1, <1>6, <1>9, <2>2, <4>1 DEF Armed
      <3> QED
        BY <3>3, <3>4, <3>5
    <2> QED
      BY <2>1, <2>2
  <1>11. TimersOk(r)
    BY <1>1, <1>9, <1>10 DEF TimersOk
  <1>12. \A used : Budget(t, used) => Budget(r, used)
    BY <1>9 DEF Budget
  <1>13. (NoTimeouts(t) => NoTimeouts(r)) /\ (OneTimeout(t) => OneTimeout(r))
    BY <1>4, <1>5, <1>9 DEF NoTimeouts, OneTimeout, a
  <1> QED
    BY <1>11, <1>12, <1>13 DEF r

LEMMA CpuIs ==
  ASSUME NEW t, TimersOk(t), ~t.sigvtalrm, t.virtual # NoAlarm, NEW used, Budget(t, used)
  PROVE  /\ TimersOk(HalfSecondOfCpu(t)) /\ Budget(HalfSecondOfCpu(t), used + 1)
         /\ HalfSecondOfCpu(t).active = t.active
  <1> DEFINE cpu == IF t.cpu > 1 THEN t.cpu - 1 ELSE NoAlarm
             sig == t.sigvtalrm \/ t.cpu = 1
             r == HalfSecondOfCpu(t)
  <1>1. /\ t \in TimerRecord /\ Armed(t)
        /\ t.sigalrm \/ t.active = <<>> => t.alarm = NoAlarm
        /\ t.cpu = NoAlarm \/ t.cpu \in 1..Limit
        /\ t.virtual = NoAlarm \/ t.virtual \in 0..Limit
    BY DEF TimersOk
  <1>2. r = [t EXCEPT !.cpu = cpu, !.sigvtalrm = sig]
    BY DEF HalfSecondOfCpu
  <1>3. t.cpu \in 1..Limit /\ NoAlarm = -1 /\ used \in Nat /\ used + t.cpu <= Limit
    BY <1>1 DEF Armed, Budget, NoAlarm
  <1>4. \/ cpu = t.cpu - 1 /\ cpu \in 1..Limit /\ sig = FALSE
        \/ t.cpu = 1 /\ cpu = NoAlarm /\ sig = TRUE
    BY <1>3, LimitType
  <1>5. cpu \in Int /\ sig \in BOOLEAN
    BY <1>3, <1>4, LimitType
  <1> HIDE DEF cpu, sig
  <1>6. /\ r \in TimerRecord /\ r.active = t.active /\ r.alarm = t.alarm /\ r.sigalrm = t.sigalrm
        /\ r.virtual = t.virtual /\ r.cpu = cpu /\ r.sigvtalrm = sig
    BY <1>1, <1>2, <1>5 DEF TimerRecord
  <1> HIDE DEF r
  <1>7. Armed(r)
    <2>1. CASE sig = FALSE
      BY <1>1, <1>3, <1>4, <1>6, <2>1, LimitType DEF Armed
    <2>2. CASE sig = TRUE
      BY <1>1, <1>3, <1>4, <1>6, <2>2, LimitType DEF Armed
    <2> QED
      BY <1>5, <2>1, <2>2
  <1>8. TimersOk(r)
    BY <1>1, <1>3, <1>4, <1>6, <1>7, LimitType DEF TimersOk
  <1>9. Budget(r, used + 1)
    BY <1>3, <1>4, <1>6, LimitType DEF Budget
  <1> QED
    BY <1>6, <1>8, <1>9 DEF r

-----------------------------------------------------------------------------
(* The timers of the server.                                               *)

LoopFields == {"at", "h", "next", "rd", "wr", "ports", "flush", "checkpoint", "down"}
JobFields == {"name", "h", "then", "calls", "used", "open"}

\* timeout_proc has a timer only while the server is in connect(), and one.
TimerInv ==
  /\ DOMAIN loop = LoopFields /\ DOMAIN job = JobFields
  /\ TimersOk(tm) /\ Budget(tm, job.used)
  /\ OneTimeout(tm)
  /\ loop.at # "connect" => NoTimeouts(tm)

LEMMA GoIs ==
  ASSUME NEW where, DOMAIN loop = LoopFields, Go(where)
  PROVE  /\ DOMAIN loop' = LoopFields /\ loop'.at = where
         /\ loop'.h = loop.h /\ loop'.next = loop.next /\ loop'.ports = loop.ports
  BY DEF Go, LoopFields

LEMMA MovedIs ==
  ASSUME NEW list, NEW next, DOMAIN loop = LoopFields
  PROVE  /\ DOMAIN Moved(list, next) = LoopFields
         /\ Moved(list, next).at \in {loop.at, "undefined"}
         /\ Moved(list, next).ports = loop.ports
         /\ next = 0 => Moved(list, next).at = loop.at /\ Moved(list, next).h = 0
                        /\ Moved(list, next).next = 0
         /\ next # 0 /\ next \in ToSet(list) =>
              Moved(list, next).at = loop.at /\ Moved(list, next).h = next
              /\ Moved(list, next).next = NextOf(list, next)
  <1>1. CASE next = 0
    BY <1>1 DEF Moved, LoopFields
  <1>2. CASE next # 0 /\ next \notin ToSet(list)
    BY <1>2 DEF Moved, LoopFields
  <1>3. CASE next # 0 /\ next \in ToSet(list)
    <2>1. Moved(list, next) = [loop EXCEPT !.h = next, !.next = NextOf(list, next)]
      BY <1>3 DEF Moved
    <2> QED
      BY <1>3, <2>1 DEF LoopFields
  <1> QED
    BY <1>1, <1>2, <1>3

LEMMA NoTimeoutIsOne == ASSUME NEW t, NoTimeouts(t) PROVE OneTimeout(t)
  BY DEF NoTimeouts, OneTimeout, checkpoint_timer, timeout_proc

\* A verb starts.
LEMMA RunTimer ==
  ASSUME TimersOk(tm), NoTimeouts(tm), NEW name, NEW player, NEW h, NEW then, NEW d,
         Run(name, player, h, then, d)
  PROVE  /\ DOMAIN job' = JobFields /\ TimersOk(tm') /\ Budget(tm', job'.used)
         /\ NoTimeouts(tm') /\ OneTimeout(tm')
  <1>1. DOMAIN job' = JobFields /\ job'.used = 0
    BY DEF Run, NoJob, JobFields
  <1>2. Budget(tm, 0)
    BY LimitType DEF TimersOk, Budget, NoAlarm
  <1>3. TimersOk(tm') /\ Budget(tm', 0) /\ tm'.active = tm.active
    BY <1>2, VirtualTimers DEF Run
  <1>4. NoTimeouts(tm')
    BY <1>3, SameProcs
  <1> QED
    BY <1>1, <1>3, <1>4, NoTimeoutIsOne

LEMMA StopTimer ==
  ASSUME TimersOk(tm), NoTimeouts(tm), Stop
  PROVE  /\ DOMAIN job' = JobFields /\ TimersOk(tm') /\ Budget(tm', job'.used)
         /\ NoTimeouts(tm') /\ OneTimeout(tm')
  <1>1. DOMAIN job' = JobFields /\ job'.used = 0
    BY DEF Stop, NoJob, JobFields
  <1>2. Budget(tm, 0)
    BY LimitType DEF TimersOk, Budget, NoAlarm
  <1>3. TimersOk(tm') /\ Budget(tm', 0) /\ tm'.active = tm.active
    BY <1>2, VirtualTimers DEF Stop
  <1>4. NoTimeouts(tm')
    BY <1>3, SameProcs
  <1> QED
    BY <1>1, <1>3, <1>4, NoTimeoutIsOne

LEMMA StartTimer ==
  LET t == set_timer(NoTimers, DumpInterval, checkpoint_timer)
  IN  TimersOk(t) /\ Budget(t, 0) /\ NoTimeouts(t) /\ OneTimeout(t)
  <1>1. TimersOk(NoTimers)
    <2>1. <<>> \in Seq(Timer)
      OBVIOUS
    <2> QED
      BY <2>1, LimitType DEF NoTimers, TimersOk, TimerRecord, Armed, NoAlarm
  <1>2. NoTimeouts(NoTimers)
    BY DEF NoTimeouts, NoTimers
  <1>3. Budget(NoTimers, 0)
    BY LimitType DEF Budget, NoTimers
  <1>4. DumpInterval \in Nat
    BY ConnectionsAssumption
  <1> QED
    BY <1>1, <1>2, <1>3, <1>4, SetTimerIs

\* The server's thread goes on, with the timers as they are.
LEMMA TimersAlone ==
  ASSUME TimerInv, UNCHANGED tm, DOMAIN loop' = LoopFields, DOMAIN job' = JobFields,
         job'.used = job.used, loop.at # "connect" \/ loop'.at = loop.at
  PROVE  TimerInv'
  BY DEF TimerInv, TimersOk, Armed, Budget, OneTimeout, NoTimeouts

LEMMA TimerInit == ASSUME Init PROVE TimerInv
  <1>1. loop = At("top") /\ job = NoJob /\ tm = set_timer(NoTimers, DumpInterval, checkpoint_timer)
    BY DEF Init
  <1>2. DOMAIN loop = LoopFields /\ DOMAIN job = JobFields /\ job.used = 0 /\ loop.at = "top"
    BY <1>1 DEF At, NoJob, LoopFields, JobFields
  <1> QED
    BY <1>1, <1>2, StartTimer DEF TimerInv

LEMMA TimerRestart == ASSUME TimerInv, NEW saved, Restart(saved) PROVE TimerInv'
  <1>1. loop' = At("top") /\ job' = NoJob
        /\ tm' = set_timer(NoTimers, DumpInterval, checkpoint_timer)
    BY DEF Restart
  <1>2. DOMAIN loop' = LoopFields /\ DOMAIN job' = JobFields /\ job'.used = 0 /\ loop'.at = "top"
    BY <1>1 DEF At, NoJob, LoopFields, JobFields
  <1> QED
    BY <1>1, <1>2, StartTimer DEF TimerInv

LEMMA TimerLoop == ASSUME TimerInv, LoopStep PROVE TimerInv'
  <1> USE DEF LoopFields, JobFields
  <1>0. DOMAIN loop = LoopFields /\ DOMAIN job = JobFields /\ TimersOk(tm)
        /\ (loop.at # "connect" => NoTimeouts(tm))
    BY DEF TimerInv
  <1>1. CASE Select
    BY <1>1, <1>0, TimersAlone DEF Select
  <1>2. CASE AcceptStart
    BY <1>2, <1>0, TimersAlone, GoIs DEF AcceptStart
  <1>3. CASE AcceptFinish
    BY <1>3, <1>0, TimersAlone DEF AcceptFinish
  <1>4. CASE AcceptDone
    BY <1>4, <1>0, TimersAlone, MovedIs DEF AcceptDone
  <1>5. CASE IoDone
    BY <1>5, <1>0, TimersAlone, GoIs DEF IoDone
  <1>6. ASSUME NEW room \in Rooms, IoServes(room) PROVE TimerInv'
    BY <1>6, <1>0, TimersAlone, MovedIs DEF IoServes
  <1>7. ASSUME NEW room \in Rooms, IoCloses(room) PROVE TimerInv'
    BY <1>7, <1>0, RunTimer, GoIs DEF IoCloses, TimerInv
  <1>8. CASE CheckpointStarted
    BY <1>8, <1>0, RunTimer DEF CheckpointStarted, TimerInv
  <1>9. CASE Dump
    <2>1. loop.at = "dump" /\ NoTimeouts(tm) /\ Budget(tm, job.used) /\ UNCHANGED job
          /\ DOMAIN loop' = LoopFields /\ loop'.at = "wait"
      BY <1>9, <1>0 DEF Dump, TimerInv
    <2>2. DumpInterval \in Nat
      BY ConnectionsAssumption
    <2> DEFINE c == cancel_timer(tm, checkpoint_timer)
    <2>3. TimersOk(c) /\ Budget(c, job.used) /\ NoTimeouts(c)
      BY <1>0, <2>1, CancelTimerIs
    <2> HIDE DEF c
    <2> DEFINE r == set_timer(c, DumpInterval, checkpoint_timer)
    <2>4. TimersOk(r) /\ Budget(r, job.used) /\ NoTimeouts(r)
      BY <2>2, <2>3, SetTimerIs
    <2>5. tm' = r \/ tm' = tm
      BY <1>9 DEF Dump, set_checkpoint_timer, c
    <2> HIDE DEF r
    <2> QED
      BY <1>0, <2>1, <2>4, <2>5, NoTimeoutIsOne DEF TimerInv
  <1>10. CASE Shutdown
    BY <1>10, TimerRestart DEF Shutdown
  <1>11. ASSUME NEW h \in Handle, RunInput(h) PROVE TimerInv'
    BY <1>11, <1>0, RunTimer, GoIs DEF RunInput, TimerInv
  <1>12. CASE RunTask
    BY <1>12, <1>0, RunTimer, GoIs DEF RunTask, TimerInv
  <1>13. CASE TasksDone
    BY <1>13, <1>0, TimersAlone, MovedIs DEF TasksDone
  <1>14. CASE SweepTells
    BY <1>14, <1>0, RunTimer, GoIs DEF SweepTells, Sweeping, TimerInv
  <1>15. CASE SweepRecycled
    BY <1>15, <1>0, TimersAlone, MovedIs DEF SweepRecycled, Sweeping
  <1>16. CASE SweepKeeps
    BY <1>16, <1>0, TimersAlone, MovedIs DEF SweepKeeps, Sweeping
  <1>17. CASE SweepDone
    BY <1>17, <1>0, TimersAlone, GoIs DEF SweepDone
  <1> QED
    BY <1>1, <1>2, <1>3, <1>4, <1>5, <1>6, <1>7, <1>8, <1>9, <1>10, <1>11, <1>12, <1>13,
       <1>14, <1>15, <1>16, <1>17 DEF LoopStep

LEMMA TimerCall == ASSUME TimerInv, CallStep PROVE TimerInv'
  <1> USE DEF LoopFields, JobFields
  <1>0. DOMAIN loop = LoopFields /\ DOMAIN job = JobFields /\ TimersOk(tm)
        /\ (loop.at # "connect" => NoTimeouts(tm)) /\ Budget(tm, job.used) /\ OneTimeout(tm)
    BY DEF TimerInv
  <1>a. ASSUME Called PROVE DOMAIN job' = JobFields /\ job'.used = job.used
    BY <1>a, <1>0 DEF Called
  <1>1. ASSUME NEW h \in Handle, NEW room \in Rooms, NEW no_flush \in BOOLEAN,
               bf_notify(h, no_flush, room)
        PROVE  TimerInv'
    BY <1>1, <1>0, TimersAlone DEF bf_notify
  <1>2. ASSUME NEW h \in Handle, boot_player(h) PROVE TimerInv'
    BY <1>2, <1>0, <1>a, TimersAlone DEF boot_player
  <1>3. ASSUME NEW h \in Handle, NEW value \in BOOLEAN, bf_set_connection_option(h, value)
        PROVE  TimerInv'
    BY <1>3, <1>0, <1>a, TimersAlone DEF bf_set_connection_option
  <1>4. ASSUME NEW u \in User, RecycleUser(u) PROVE TimerInv'
    BY <1>4, <1>0, <1>a, TimersAlone DEF RecycleUser
  <1>5. ASSUME NEW h \in ToSet(shandles), NEW new \in User, bf_switch_player(sh[h].player, new)
        PROVE  TimerInv'
    BY <1>5, <1>0, <1>a, TimersAlone DEF bf_switch_player
  <1>6. ASSUME NEW port \in Port, bf_listen(port) PROVE TimerInv'
    BY <1>6, <1>0, <1>a, TimersAlone DEF bf_listen
  <1>7. ASSUME NEW port \in Port, bf_unlisten(port) PROVE TimerInv'
    BY <1>7, <1>0, <1>a, TimersAlone DEF bf_unlisten
  <1>8. CASE bf_dump_database
    BY <1>8, <1>0, <1>a, TimersAlone DEF bf_dump_database
  <1>9. CASE bf_shutdown
    BY <1>9, <1>0, <1>a, TimersAlone DEF bf_shutdown
  <1>10. CASE Compute
    <2>1. TimersOk(tm') /\ Budget(tm', job.used + 1) /\ tm'.active = tm.active
      BY <1>10, <1>0, CpuIs DEF Compute
    <2>2. DOMAIN job' = JobFields /\ job'.used = job.used + 1 /\ UNCHANGED loop
      BY <1>10, <1>0 DEF Compute
    <2> QED
      BY <1>0, <2>1, <2>2, SameProcs DEF TimerInv
  <1>11. CASE OpenStart
    BY <1>11, <1>0, TimersAlone, GoIs DEF OpenStart, InVerb
  <1>12. ASSUME NEW b \in BOOLEAN, OpenConnects(b) PROVE TimerInv'
    <2>1. DOMAIN job' = JobFields /\ job'.used = job.used /\ NoTimeouts(tm)
      BY <1>12, <1>0 DEF OpenConnects
    <2>2. CASE Go("connect") /\ tm' = set_timer(tm, OutboundTimeout, timeout_proc)
      <3>1. OutboundTimeout \in Nat
        BY ConnectionsAssumption
      <3>2. TimersOk(tm') /\ Budget(tm', job.used) /\ OneTimeout(tm')
        BY <1>0, <2>1, <2>2, <3>1, SetTimerIs
      <3>3. DOMAIN loop' = LoopFields /\ loop'.at = "connect"
        BY <1>0, <2>2, GoIs
      <3> QED
        BY <2>1, <3>2, <3>3 DEF TimerInv
    <2>3. CASE Go("verb") /\ UNCHANGED tm
      BY <1>12, <1>0, <2>1, <2>3, TimersAlone, GoIs DEF OpenConnects
    <2> QED
      BY <1>12, <2>2, <2>3 DEF OpenConnects
  <1>13. ASSUME NEW b \in BOOLEAN, OpenFinish(b) PROVE TimerInv'
    <2>1. TimersOk(tm') /\ Budget(tm', job.used) /\ NoTimeouts(tm')
      BY <1>13, <1>0, CancelTimerIs DEF OpenFinish
    <2>2. UNCHANGED job /\ Go("verb")
      BY <1>13 DEF OpenFinish
    <2> QED
      BY <1>0, <2>1, <2>2, GoIs, NoTimeoutIsOne DEF TimerInv
  <1> QED
    BY <1>1, <1>2, <1>3, <1>4, <1>5, <1>6, <1>7, <1>8, <1>9, <1>10, <1>11, <1>12, <1>13 DEF CallStep

LEMMA TimerEnd == ASSUME TimerInv, EndStep PROVE TimerInv'
  <1> USE DEF LoopFields
  <1>0. DOMAIN loop = LoopFields /\ TimersOk(tm) /\ (loop.at # "connect" => NoTimeouts(tm))
    BY DEF TimerInv
  <1>a. ASSUME Stop, loop.at = "verb", DOMAIN loop' = LoopFields, loop'.at # "connect"
        PROVE  TimerInv'
    BY <1>a, <1>0, StopTimer DEF TimerInv
  <1>b. ASSUME NEW list, NEW where, where # "connect", loop.at = "verb",
               loop' = IF job.h \in ToSet(shandles)
                       THEN [Moved(list, loop.next) EXCEPT !.at = IF @ = "verb" THEN where ELSE @]
                       ELSE [loop EXCEPT !.at = "undefined"]
        PROVE  DOMAIN loop' = LoopFields /\ loop'.at # "connect"
    BY <1>b, <1>0, MovedIs
  <1>1. CASE EndClose
    BY <1>1, <1>a, <1>b DEF EndClose, Ends
  <1>2. CASE EndSwept
    BY <1>2, <1>a, <1>b DEF EndSwept, Ends
  <1>3. CASE EndTask
    BY <1>3, <1>0, <1>a, GoIs DEF EndTask, Ends
  <1>4. CASE EndLoginFails
    BY <1>4, <1>0, <1>a, GoIs DEF EndLoginFails, Ends
  <1>5. CASE EndRedirected
    <2>1. loop.at = "verb"
      BY <1>5 DEF EndRedirected, Ends
    <2>2. CASE job.h \in ToSet(shandles)
      <3>1. Run("user_connected", sh[job.h].player, job.h, "tasks", db) /\ UNCHANGED loop
        BY <1>5, <2>2 DEF EndRedirected
      <3> QED
        BY <1>0, <2>1, <3>1, RunTimer DEF TimerInv
    <2>3. CASE job.h \notin ToSet(shandles)
      <3>1. Stop /\ Go("undefined")
        BY <1>5, <2>3 DEF EndRedirected
      <3> QED
        BY <1>0, <1>a, <2>1, <3>1, GoIs
    <2> QED
      BY <2>2, <2>3
  <1>6. ASSUME NEW u \in User, NEW room \in Rooms, player_connected(u, room) PROVE TimerInv'
    <2>1. \E name, then : Run(name, u, job.h, then, db)
      BY <1>6 DEF player_connected
    <2>2. UNCHANGED loop /\ loop.at = "verb"
      BY <1>6 DEF player_connected, Ends
    <2> QED
      BY <1>0, <2>1, <2>2, RunTimer DEF TimerInv
  <1> QED
    BY <1>1, <1>2, <1>3, <1>4, <1>5, <1>6 DEF EndStep

LEMMA TimerNext == ASSUME TimerInv, [Next]_vars PROVE TimerInv'
  <1> USE DEF LoopFields, JobFields
  <1>0. DOMAIN loop = LoopFields /\ DOMAIN job = JobFields /\ TimersOk(tm)
        /\ (loop.at # "connect" => NoTimeouts(tm)) /\ Budget(tm, job.used) /\ OneTimeout(tm)
    BY DEF TimerInv
  <1>a. ASSUME UNCHANGED <<tm, job, loop>> PROVE TimerInv'
    BY <1>a, <1>0, TimersAlone
  <1>1. CASE ClientStep
    BY <1>1, <1>a DEF ClientStep, ClientConnects, ClientHangsUp, ClientSends
  <1>2. CASE Tick
    <2>1. UNCHANGED <<loop, job>> /\ (tm' = SecondPasses(tm) \/ tm' = tm)
      BY <1>2 DEF Tick
    <2> QED
      BY <1>0, <1>a, <2>1, SecondIs DEF TimerInv
  <1>3. CASE Alarm
    <2>1. TimersOk(tm') /\ Budget(tm', 0) /\ OneTimeout(tm')
          /\ (NoTimeouts(tm) => NoTimeouts(tm'))
          /\ (Head(tm.active).proc # checkpoint_timer => NoTimeouts(tm'))
      BY <1>3, <1>0, WakeupIs DEF Alarm
    <2>2. DOMAIN job' = JobFields /\ job'.used = 0
      BY <1>3, <1>0 DEF Alarm
    <2>3. CASE Head(tm.active).proc = checkpoint_timer
      <3>1. loop' = [loop EXCEPT !.checkpoint = TRUE]
        BY <1>3, <2>3 DEF Alarm
      <3>2. DOMAIN loop' = LoopFields /\ loop'.at = loop.at
        BY <1>0, <3>1
      <3> QED
        BY <1>0, <2>1, <2>2, <3>2 DEF TimerInv
    <2>4. CASE Head(tm.active).proc # checkpoint_timer
      <3>1. loop' = [loop EXCEPT !.at = "verb"]
        BY <1>3, <2>4 DEF Alarm
      <3>2. DOMAIN loop' = LoopFields
        BY <1>0, <3>1
      <3> QED
        BY <2>1, <2>2, <2>4, <3>2 DEF TimerInv
    <2> QED
      BY <2>3, <2>4
  <1>4. CASE HelperProcesses \/ HelpersFail
    BY <1>4, <1>a DEF HelperProcesses, HelpersFail, Elsewhere
  <1>5. CASE Crash \/ panic
    BY <1>5, TimerRestart DEF Crash, panic
  <1>6. CASE UNCHANGED vars
    BY <1>6, <1>a DEF vars
  <1> QED
    BY <1>1, <1>2, <1>3, <1>4, <1>5, <1>6, TimerLoop, TimerCall, TimerEnd DEF Next, ServerStep

\* Every real-time timer has the alarm set for it or its signal pending, no
\* SIGALRM or SIGVTALRM finds its timer gone, and no verb uses more CPU time
\* than its seconds (timers.cc, whatever set, cancelled or ran in between).
THEOREM NoTimerLost == Spec => []TimersKept
  <1>1. Init => TimerInv
    BY TimerInit
  <1>2. TimerInv /\ [Next]_vars => TimerInv'
    BY TimerNext
  <1>3. TimerInv => TimersKept
    BY DEF TimerInv, TimersKept, TimersOk, Budget, Limit
  <1> QED
    BY <1>1, <1>2, <1>3, PTL DEF Spec

-----------------------------------------------------------------------------
(* Name lookups.  Where a request of kind k with tag t, or its answer, may *)
(* be, with the pipes and processes that are not part of it empty or idle. *)

Request(k, t) == [kind |-> k, tag |-> t]
Whole(k, t) == IF k = "addr" THEN <<Addr(t)>> ELSE <<Length(t), Name(t)>>
Begun(k, t) == IF k = "addr" THEN <<Addr(t)>> ELSE <<Length(t)>>
Answers(k, t) == {<<Unknown(t)>>, Whole(k, t)}

\* The lookup process has nothing to do and has left nothing behind.
SlaveQuiet(s) == s.from = <<>> /\ (s.at = "dead" \/ (s.at = "read" /\ s.to = <<>>))

\* The intermediary waits for its answer, or for the name after its length.
SlaveServes(s, k, t) ==
  \/ s.at = "dead" /\ s.from \in {<<>>, Begun(k, t)} \cup Answers(k, t)
  \/ s.at = "read" /\ s.to = <<Request(k, t)>> /\ s.from = <<>>
  \/ s.at = "resolve" /\ s.job = Request(k, t) /\ s.to = <<>> /\ s.from = <<>>
  \/ k = "name" /\ s.at = "name" /\ s.job = Request(k, t) /\ s.to = <<>> /\ s.from = Begun(k, t)
  \/ s.at = "read" /\ s.to = <<>> /\ s.from \in Answers(k, t)
SlaveNames(s, t) ==
  \/ s.at = "dead" /\ s.from \in {<<>>, <<Name(t)>>}
  \/ s.at = "name" /\ s.job = Request("name", t) /\ s.to = <<>> /\ s.from = <<>>
  \/ s.at = "read" /\ s.to = <<>> /\ s.from = <<Name(t)>>

Serving(se, m, s, k, t) ==
  \/ m.at = "read" /\ se.to = <<Request(k, t)>> /\ se.from = <<>> /\ SlaveQuiet(s)
  \/ m.at = "wait" /\ m.job = Request(k, t) /\ se.to = <<>> /\ se.from = <<>> /\ SlaveServes(s, k, t)
  \/ k = "name" /\ m.at = "name" /\ m.job = Request(k, t) /\ se.to = <<>> /\ se.from = <<>>
     /\ SlaveNames(s, t)
  \/ k = "name" /\ m.at = "send" /\ m.job = Request(k, t) /\ se.to = <<>>
     /\ se.from = <<Length(t)>> /\ SlaveQuiet(s)
  \/ m.at = "read" /\ se.to = <<>> /\ se.from \in {<<Nothing>>} \cup Answers(k, t) /\ SlaveQuiet(s)

\* No request is under way.
Idle(se, m, s) == m.at = "read" /\ se.to = <<>> /\ se.from = <<>> /\ SlaveQuiet(s)

\* The server has given the intermediary up; or that is dead, and what it wrote
\* last is part of the answer; or the request is somewhere on its way.
Lookup(se, m, s, waiting, k, t) ==
  \/ se.dead
  \/ m.at = "dead" /\ (waiting => se.from \in {<<>>, <<Nothing>>, Begun(k, t)} \cup Answers(k, t))
  \/ ~waiting /\ Idle(se, m, s)
  \/ waiting /\ Serving(se, m, s, k, t)

ServerFields == {"dead", "to", "from"}
MiddleFields == {"at", "pid", "job"}
SlaveFields == {"at", "job", "to", "from"}

LEMMA Short ==
  /\ \A x : Append(<<>>, x) = <<x>> /\ Head(<<x>>) = x /\ Tail(<<x>>) = <<>>
            /\ <<x>> # <<>> /\ Len(<<x>>) = 1
  /\ \A x, y : Append(<<x>>, y) = <<x, y>> /\ Head(<<x, y>>) = x /\ Tail(<<x, y>>) = <<y>>
               /\ <<x, y>> # <<>> /\ Len(<<x, y>>) = 2 /\ <<x, y>> # <<x>>
  <1>1. ASSUME NEW x
        PROVE  Append(<<>>, x) = <<x>> /\ Head(<<x>>) = x /\ Tail(<<x>>) = <<>>
               /\ <<x>> # <<>> /\ Len(<<x>>) = 1
    OBVIOUS
  <1>2. ASSUME NEW x, NEW y PROVE Append(<<x>>, y) = <<x, y>>
    <2> DEFINE S == {x, y}
    <2>1. PICK a : a = <<x>>
      OBVIOUS
    <2>2. a \in Seq(S) /\ Len(a) = 1 /\ a[1] = x /\ y \in S
      BY <2>1
    <2>3. PICK b : b = <<x, y>>
      OBVIOUS
    <2>4. b \in Seq(S) /\ Len(b) = 2 /\ b[1] = x /\ b[2] = y
      BY <2>3
    <2> HIDE DEF S
    <2>5. /\ Append(a, y) \in Seq(S) /\ Len(Append(a, y)) = 2
          /\ Append(a, y)[1] = x /\ Append(a, y)[2] = y
      <3>1. /\ Append(a, y) \in Seq(S) /\ Len(Append(a, y)) = Len(a) + 1
            /\ \A i \in 1..Len(a) : Append(a, y)[i] = a[i]
            /\ Append(a, y)[Len(a) + 1] = y
        BY ONLY <2>2, AppendProperties, ZenonT(60)
      <3>2. Len(a) + 1 = 2 /\ 1 \in 1..Len(a)
        BY <2>2
      <3> QED
        BY ONLY <2>2, <3>1, <3>2
    <2>6. Append(a, y) = b
      BY ONLY <2>4, <2>5, SeqEqual
    <2> QED
      BY <2>1, <2>3, <2>6
  <1>3. ASSUME NEW x, NEW y PROVE Tail(<<x, y>>) = <<y>>
    OBVIOUS
  <1>4. ASSUME NEW x, NEW y
        PROVE  Head(<<x, y>>) = x /\ <<x, y>> # <<>> /\ Len(<<x, y>>) = 2
    OBVIOUS
  <1>5. ASSUME NEW x, NEW y PROVE <<x, y>> # <<x>>
    BY Len(<<x>>) = 1, Len(<<x, y>>) = 2
  <1> QED
    BY <1>1, <1>2, <1>3, <1>4, <1>5

Shapes ==
  /\ DOMAIN server_end = ServerFields /\ DOMAIN middle = MiddleFields
  /\ DOMAIN slave = SlaveFields /\ server_end.dead \in BOOLEAN

Here(w, k, t) == Lookup(server_end, middle, slave, w, k, t)

LEMMA LookupReadsKeeps ==
  ASSUME NEW w \in BOOLEAN, NEW k \in {"addr", "name"}, NEW t, Shapes, Here(w, k, t), LookupReads
  PROVE  Shapes' /\ Here(w, k, t)'
  <1> USE DEF ServerFields, MiddleFields, SlaveFields
  <1>1. /\ slave.at = "read" /\ slave.to # <<>> /\ UNCHANGED <<server_end, middle>>
        /\ slave' = [slave EXCEPT !.at = "resolve", !.job = Head(slave.to), !.to = Tail(slave.to)]
    BY DEF LookupReads
  <1>2. /\ DOMAIN slave' = SlaveFields /\ slave'.at = "resolve" /\ slave'.job = Head(slave.to)
        /\ slave'.to = Tail(slave.to) /\ slave'.from = slave.from
    BY <1>1 DEF Shapes
  <1>3. ~SlaveQuiet(slave) /\ ~SlaveNames(slave, t)
    BY <1>1 DEF SlaveQuiet, SlaveNames
  <1>4. SlaveServes(slave, k, t) => SlaveServes(slave', k, t)
    <2>1. ASSUME SlaveServes(slave, k, t) PROVE slave.to = <<Request(k, t)>> /\ slave.from = <<>>
      BY <1>1, <2>1 DEF SlaveServes
    <2>2. ASSUME slave.to = <<Request(k, t)>>, slave.from = <<>>
          PROVE  slave'.job = Request(k, t) /\ slave'.to = <<>> /\ slave'.from = <<>>
      BY <1>2, <2>2, Short
    <2> QED
      BY <1>2, <2>1, <2>2 DEF SlaveServes
  <1>5. Serving(server_end, middle, slave, k, t) => Serving(server_end, middle, slave', k, t)
    BY <1>3, <1>4 DEF Serving
  <1>6. ~Idle(server_end, middle, slave)
    BY <1>3 DEF Idle
  <1> QED
    BY <1>1, <1>2, <1>5, <1>6 DEF Shapes, Here, Lookup

LEMMA LookupWrites ==
  ASSUME NEW w \in BOOLEAN, NEW k \in {"addr", "name"}, NEW t, Shapes, Here(w, k, t),
         NEW found \in BOOLEAN, LookupAnswers(found) \/ LookupWritesName
  PROVE  Shapes' /\ Here(w, k, t)'
  <1> USE DEF ServerFields, MiddleFields, SlaveFields
  <1> DEFINE item == IF slave.at = "name" THEN Name(slave.job.tag)
                     ELSE IF ~found THEN Unknown(slave.job.tag)
                     ELSE IF slave.job.kind = "addr" THEN Addr(slave.job.tag)
                     ELSE Length(slave.job.tag)
             at == IF slave.at = "resolve" /\ found /\ slave.job.kind = "name" THEN "name" ELSE "read"
  <1>1. /\ slave.at \in {"resolve", "name"} /\ UNCHANGED <<server_end, middle>>
        /\ slave' = [slave EXCEPT !.at = at, !.from = Append(slave.from, item)]
    BY DEF LookupAnswers, LookupWritesName, Resolved
  <1>2. /\ DOMAIN slave' = SlaveFields /\ slave'.at = at /\ slave'.job = slave.job
        /\ slave'.to = slave.to /\ slave'.from = Append(slave.from, item)
    BY <1>1 DEF Shapes
  <1>3. ~SlaveQuiet(slave)
    BY <1>1 DEF SlaveQuiet
  <1>a. Request(k, t).kind = k /\ Request(k, t).tag = t /\ Request("name", t).tag = t
    BY DEF Request
  <1>4. SlaveServes(slave, k, t) => SlaveServes(slave', k, t)
    <2>1. SUFFICES ASSUME SlaveServes(slave, k, t) PROVE SlaveServes(slave', k, t)
      OBVIOUS
    <2>2. slave.job = Request(k, t) /\ slave.to = <<>>
          /\ \/ slave.at = "resolve" /\ slave.from = <<>>
             \/ slave.at = "name" /\ k = "name" /\ slave.from = <<Length(t)>>
      BY <1>1, <2>1 DEF SlaveServes, Begun
    <2>6. CASE slave.at = "resolve" /\ ~found
      <3>1. item = Unknown(t) /\ at = "read"
        BY <1>a, <2>2, <2>6
      <3>2. slave'.at = "read" /\ slave'.to = <<>> /\ slave'.from = <<Unknown(t)>>
        BY <1>2, <2>2, <2>6, <3>1, Short
      <3> QED
        BY <3>2 DEF SlaveServes, Answers
    <2>3. CASE slave.at = "resolve" /\ found /\ k = "addr"
      <3>1. slave'.at = "read" /\ slave'.to = <<>> /\ slave'.from = <<Addr(t)>>
        BY <1>2, <1>a, <2>2, <2>3, Short
      <3> QED
        BY <2>3, <3>1 DEF SlaveServes, Answers, Whole
    <2>4. CASE slave.at = "resolve" /\ found /\ k = "name"
      <3>1. slave'.at = "name" /\ slave'.to = <<>> /\ slave'.from = <<Length(t)>>
            /\ slave'.job = Request(k, t)
        BY <1>2, <1>a, <2>2, <2>4, Short
      <3> QED
        BY <2>4, <3>1 DEF SlaveServes, Begun
    <2>5. CASE slave.at = "name"
      <3>1. item = Name(t) /\ at = "read"
        BY <1>a, <2>2, <2>5
      <3> HIDE DEF item, at
      <3>2. slave'.at = "read" /\ slave'.to = <<>> /\ slave'.from = Append(<<Length(t)>>, Name(t))
        BY <1>2, <2>2, <2>5, <3>1
      <3>3. Append(<<Length(t)>>, Name(t)) = <<Length(t), Name(t)>>
        BY ONLY Short
      <3> QED
        BY <2>2, <2>5, <3>2, <3>3 DEF SlaveServes, Answers, Whole
    <2> QED
      BY <2>2, <2>3, <2>4, <2>5, <2>6
  <1>5. SlaveNames(slave, t) => SlaveNames(slave', t)
    <2>1. SUFFICES ASSUME SlaveNames(slave, t) PROVE SlaveNames(slave', t)
      OBVIOUS
    <2>2. slave.job = Request("name", t) /\ slave.to = <<>> /\ slave.from = <<>> /\ slave.at = "name"
      BY <1>1, <2>1 DEF SlaveNames
    <2>3. slave'.at = "read" /\ slave'.to = <<>> /\ slave'.from = <<Name(t)>>
      BY <1>2, <1>a, <2>2, Short
    <2> QED
      BY <2>3 DEF SlaveNames
  <1>6. Serving(server_end, middle, slave, k, t) => Serving(server_end, middle, slave', k, t)
    BY <1>3, <1>4, <1>5 DEF Serving
  <1>7. ~Idle(server_end, middle, slave)
    BY <1>3 DEF Idle
  <1> QED
    BY <1>1, <1>2, <1>6, <1>7 DEF Shapes, Here, Lookup

LEMMA LookupDies ==
  ASSUME NEW w \in BOOLEAN, NEW k \in {"addr", "name"}, NEW t, Shapes, Here(w, k, t),
         LookupTimesOut \/ LookupKilled
  PROVE  Shapes' /\ Here(w, k, t)'
  <1> USE DEF ServerFields, MiddleFields, SlaveFields
  <1>1. UNCHANGED <<server_end, middle>> /\ slave' = [slave EXCEPT !.at = "dead"]
    BY DEF LookupTimesOut, LookupKilled
  <1>2. DOMAIN slave' = SlaveFields /\ slave'.at = "dead" /\ slave'.from = slave.from
    BY <1>1 DEF Shapes
  <1>3. (SlaveQuiet(slave) => SlaveQuiet(slave'))
        /\ (SlaveServes(slave, k, t) => SlaveServes(slave', k, t))
        /\ (SlaveNames(slave, t) => SlaveNames(slave', t))
    BY <1>2 DEF SlaveQuiet, SlaveServes, SlaveNames
  <1> QED
    BY <1>1, <1>2, <1>3 DEF Shapes, Here, Lookup, Serving, Idle

LEMMA IntermediaryDies ==
  ASSUME NEW w \in BOOLEAN, NEW k \in {"addr", "name"}, NEW t, Shapes, Here(w, k, t),
         IntermediaryKilled
  PROVE  Shapes' /\ Here(w, k, t)'
  <1> USE DEF ServerFields, MiddleFields, SlaveFields
  <1>1. UNCHANGED <<server_end, slave>> /\ middle' = [middle EXCEPT !.at = "dead"] /\ middle.at # "dead"
    BY DEF IntermediaryKilled
  <1>2. DOMAIN middle' = MiddleFields /\ middle'.at = "dead"
    BY <1>1 DEF Shapes
  <1>3. Serving(server_end, middle, slave, k, t) =>
          server_end.from \in {<<>>, <<Nothing>>, Begun(k, t)} \cup Answers(k, t)
    BY DEF Serving, Begun
  <1> QED
    BY <1>1, <1>2, <1>3 DEF Shapes, Here, Lookup

LEMMA IntermediaryReadsKeeps ==
  ASSUME NEW w \in BOOLEAN, NEW k \in {"addr", "name"}, NEW t, Shapes, Here(w, k, t),
         NEW spawned \in BOOLEAN, IntermediaryReads(spawned)
  PROVE  Shapes' /\ Here(w, k, t)'
  <1> USE DEF ServerFields, MiddleFields, SlaveFields
  <1> DEFINE req == Head(server_end.to)
             s == IF middle.pid THEN slave ELSE restart_lookup(slave, spawned)
  <1>1. middle.at = "read" /\ server_end.to # <<>>
    BY DEF IntermediaryReads
  <1>2. s = slave \/ s = NewSlave \/ s = NoSlave
    BY DEF restart_lookup
  <1>3. DOMAIN s = SlaveFields
    BY <1>2 DEF Shapes, NewSlave, NoSlave
  <1>4. CASE spawned
    <2>1. /\ middle' = [at |-> "wait", pid |-> TRUE, job |-> req]
          /\ slave' = IF s.at = "dead" THEN s ELSE [s EXCEPT !.to = Append(s.to, req)]
          /\ server_end' = [server_end EXCEPT !.to = Tail(server_end.to)]
      BY <1>4 DEF IntermediaryReads
    <2>2. /\ s = slave \/ s = NewSlave
      BY <1>4 DEF restart_lookup
    <2> HIDE DEF s, req
    <2>3. /\ DOMAIN server_end' = ServerFields /\ server_end'.dead = server_end.dead
          /\ server_end'.to = Tail(server_end.to) /\ server_end'.from = server_end.from
      BY <2>1 DEF Shapes
    <2>4. DOMAIN middle' = MiddleFields /\ middle'.at = "wait" /\ middle'.job = req
      BY <2>1
    <2>5. /\ DOMAIN slave' = SlaveFields /\ slave'.at = s.at /\ slave'.from = s.from
          /\ s.at # "dead" => slave'.to = Append(s.to, req)
      BY <1>3, <2>1
    <2>6. CASE ~server_end.dead
      <3>1. w /\ server_end.to = <<Request(k, t)>> /\ server_end.from = <<>> /\ SlaveQuiet(slave)
        BY <1>1, <2>6 DEF Here, Lookup, Idle, Serving
      <3>2. req = Request(k, t) /\ server_end'.to = <<>> /\ server_end'.from = <<>>
        BY <2>3, <3>1, Short DEF req
      <3>3. SlaveQuiet(s)
        BY <2>2, <3>1 DEF SlaveQuiet, NewSlave
      <3>4. SlaveServes(slave', k, t)
        <4>1. CASE s.at = "dead"
          BY <2>5, <3>3, <4>1 DEF SlaveServes, SlaveQuiet
        <4>2. CASE s.at # "dead"
          <5>1. s.at = "read" /\ s.to = <<>> /\ s.from = <<>>
            BY <3>3, <4>2 DEF SlaveQuiet
          <5>2. slave'.at = "read" /\ slave'.to = <<Request(k, t)>> /\ slave'.from = <<>>
            BY <2>5, <3>2, <4>2, <5>1, Short
          <5> QED
            BY <5>2 DEF SlaveServes
        <4> QED
          BY <4>1, <4>2
      <3> QED
        BY <2>3, <2>4, <2>5, <3>1, <3>2, <3>4 DEF Shapes, Here, Lookup, Serving
    <2> QED
      BY <2>3, <2>4, <2>5, <2>6 DEF Shapes, Here, Lookup
  <1>5. CASE ~spawned
    <2>1. /\ server_end' = [server_end EXCEPT !.to = Tail(server_end.to),
                                              !.from = Append(server_end.from, Nothing)]
          /\ UNCHANGED <<middle, slave>>
      BY <1>5 DEF IntermediaryReads
    <2>2. /\ DOMAIN server_end' = ServerFields /\ server_end'.dead = server_end.dead
          /\ server_end'.to = Tail(server_end.to)
          /\ server_end'.from = Append(server_end.from, Nothing)
      BY <2>1 DEF Shapes
    <2>3. CASE ~server_end.dead
      <3>1. w /\ server_end.to = <<Request(k, t)>> /\ server_end.from = <<>> /\ SlaveQuiet(slave)
        BY <1>1, <2>3 DEF Here, Lookup, Idle, Serving
      <3>2. server_end'.to = <<>> /\ server_end'.from = <<Nothing>>
        BY <2>2, <3>1, Short
      <3> QED
        BY <1>1, <2>1, <2>2, <3>1, <3>2 DEF Shapes, Here, Lookup, Serving
    <2> QED
      BY <2>1, <2>2, <2>3 DEF Shapes, Here, Lookup
  <1> QED
    BY <1>4, <1>5

LEMMA ForwardsKeeps ==
  ASSUME NEW w \in BOOLEAN, NEW k \in {"addr", "name"}, NEW t, Shapes, Here(w, k, t),
         IntermediaryForwards
  PROVE  Shapes' /\ Here(w, k, t)'
  <1> USE DEF ServerFields, MiddleFields, SlaveFields
  <1>1. /\ middle.at = "wait" /\ slave.from # <<>>
        /\ slave' = [slave EXCEPT !.from = Tail(slave.from)]
    BY DEF IntermediaryForwards
  <1>2. /\ DOMAIN slave' = SlaveFields /\ slave'.from = Tail(slave.from)
        /\ slave'.at = slave.at /\ slave'.to = slave.to /\ slave'.job = slave.job
    BY <1>1 DEF Shapes
  <1>a. Request(k, t).kind = k /\ Request(k, t).tag = t
    BY DEF Request
  <1>b. Addr(t).item = "addr" /\ Length(t).item = "length" /\ Unknown(t).item = "unknown"
    BY DEF Addr, Length, Unknown
  <1>3. CASE middle.job.kind = "addr" \/ Head(slave.from).item = "unknown"
    <2>1. /\ server_end' = [server_end EXCEPT !.from = Append(server_end.from, Head(slave.from))]
          /\ middle' = [middle EXCEPT !.at = "read"]
      BY <1>3 DEF IntermediaryForwards, Reply
    <2>2. /\ DOMAIN server_end' = ServerFields /\ server_end'.dead = server_end.dead
          /\ server_end'.to = server_end.to
          /\ server_end'.from = Append(server_end.from, Head(slave.from))
          /\ DOMAIN middle' = MiddleFields /\ middle'.at = "read"
      BY <2>1 DEF Shapes
    <2>3. CASE ~server_end.dead
      <3>1. /\ w /\ middle.job = Request(k, t) /\ server_end.to = <<>> /\ server_end.from = <<>>
            /\ SlaveServes(slave, k, t)
        BY <1>1, <2>3 DEF Here, Lookup, Idle, Serving
      <3>2. k = "addr" \/ Head(slave.from).item = "unknown"
        BY <1>3, <1>a, <3>1
      <3>4. /\ server_end'.from \in Answers(k, t) /\ slave'.from = <<>>
            /\ slave.at = "dead" \/ (slave.at = "read" /\ slave.to = <<>>)
        <4>a. CASE slave.from = <<Unknown(t)>>
          <5>1. slave.at = "dead" \/ (slave.at = "read" /\ slave.to = <<>>)
            <6>1. slave.from # Begun(k, t)
              <7>1. Head(<<Unknown(t)>>) = Unknown(t) /\ Head(<<Addr(t)>>) = Addr(t)
                    /\ Head(<<Length(t)>>) = Length(t)
                BY ONLY Short
              <7> QED
                BY <1>b, <4>a, <7>1 DEF Begun
            <6> QED
              BY <1>1, <3>1, <4>a, <6>1 DEF SlaveServes
          <5>2. server_end'.from = <<Unknown(t)>> /\ slave'.from = <<>>
            BY <1>2, <2>2, <3>1, <4>a, Short
          <5> QED
            BY <5>1, <5>2 DEF Answers
        <4>b. CASE slave.from # <<Unknown(t)>>
          <5>1. \/ slave.from = Begun(k, t) /\ (slave.at = "name" => k = "name")
                \/ slave.from = Whole(k, t)
            BY <1>1, <3>1, <4>b DEF SlaveServes, Answers
          <5>2. k = "addr"
            <6>1. Head(<<Length(t)>>) = Length(t) /\ Head(<<Length(t), Name(t)>>) = Length(t)
              BY ONLY Short
            <6> QED
              BY <1>b, <3>2, <5>1, <6>1 DEF Begun, Whole
          <5>3. slave.from = <<Addr(t)>> /\ (slave.at = "dead" \/ (slave.at = "read" /\ slave.to = <<>>))
            BY <1>1, <3>1, <4>b, <5>1, <5>2 DEF SlaveServes, Answers, Begun, Whole
          <5>4. server_end'.from = <<Addr(t)>> /\ slave'.from = <<>>
            BY <1>2, <2>2, <3>1, <5>3, Short
          <5> QED
            BY <5>2, <5>3, <5>4 DEF Answers, Whole
        <4> QED
          BY <4>a, <4>b
      <3>5. SlaveQuiet(slave')
        BY <1>2, <3>4 DEF SlaveQuiet
      <3> QED
        BY <1>2, <2>2, <3>1, <3>4, <3>5 DEF Shapes, Here, Lookup, Serving
    <2> QED
      BY <1>2, <2>2, <2>3 DEF Shapes, Here, Lookup
  <1>4. CASE ~(middle.job.kind = "addr" \/ Head(slave.from).item = "unknown")
    <2>1. middle' = [middle EXCEPT !.at = "name"] /\ UNCHANGED server_end
      BY <1>4 DEF IntermediaryForwards
    <2>2. DOMAIN middle' = MiddleFields /\ middle'.at = "name" /\ middle'.job = middle.job
      BY <2>1 DEF Shapes
    <2>3. CASE ~server_end.dead
      <3>1. /\ w /\ middle.job = Request(k, t) /\ server_end.to = <<>> /\ server_end.from = <<>>
            /\ SlaveServes(slave, k, t)
        BY <1>1, <2>3 DEF Here, Lookup, Idle, Serving
      <3>2. k = "name"
        BY <1>4, <1>a, <3>1
      <3>a. slave.from # <<Unknown(t)>>
        <4>1. Head(<<Unknown(t)>>) = Unknown(t)
          BY ONLY Short
        <4> QED
          BY <1>4, <1>b, <4>1
      <3>3. \/ slave.at = "dead" /\ slave.from \in {<<Length(t)>>, <<Length(t), Name(t)>>}
            \/ slave.at = "name" /\ slave.from = <<Length(t)>> /\ slave.to = <<>>
               /\ slave.job = Request("name", t)
            \/ slave.at = "read" /\ slave.from = <<Length(t), Name(t)>> /\ slave.to = <<>>
        BY <1>1, <3>1, <3>2, <3>a DEF SlaveServes, Answers, Begun, Whole
      <3>4. /\ slave.from = <<Length(t)>> => slave'.from = <<>>
            /\ slave.from = <<Length(t), Name(t)>> => slave'.from = <<Name(t)>>
        <4>1. Tail(<<Length(t)>>) = <<>> /\ Tail(<<Length(t), Name(t)>>) = <<Name(t)>>
          BY ONLY Short
        <4> QED
          BY ONLY <1>2, <4>1
      <3>5. SlaveNames(slave', t)
        BY <1>2, <3>3, <3>4 DEF SlaveNames
      <3> QED
        BY <1>2, <2>1, <2>2, <3>1, <3>2, <3>5 DEF Shapes, Here, Lookup, Serving
    <2> QED
      BY <1>2, <2>1, <2>2, <2>3 DEF Shapes, Here, Lookup
  <1> QED
    BY <1>3, <1>4

LEMMA ForwardsNameKeeps ==
  ASSUME NEW w \in BOOLEAN, NEW k \in {"addr", "name"}, NEW t, Shapes, Here(w, k, t),
         IntermediaryForwardsLength \/ IntermediaryForwardsName
  PROVE  Shapes' /\ Here(w, k, t)'
  <1> USE DEF ServerFields, MiddleFields, SlaveFields
  <1>1. CASE IntermediaryForwardsLength
    <2> DEFINE tag == Head(slave.from).tag
               rest == Tail(slave.from)
    <2>1. /\ middle.at = "name" /\ slave.from # <<>>
          /\ slave' = [slave EXCEPT !.from = rest]
          /\ server_end' = [server_end EXCEPT !.from = Append(server_end.from, Length(tag))]
          /\ middle' = [middle EXCEPT !.at = "send", !.job = [middle.job EXCEPT !.tag = tag]]
      BY <1>1 DEF IntermediaryForwardsLength, Reply
    <2> HIDE DEF tag, rest
    <2>2. /\ DOMAIN slave' = SlaveFields /\ slave'.from = rest /\ slave'.at = slave.at
          /\ slave'.to = slave.to
          /\ DOMAIN server_end' = ServerFields /\ server_end'.dead = server_end.dead
          /\ server_end'.to = server_end.to
          /\ server_end'.from = Append(server_end.from, Length(tag))
          /\ DOMAIN middle' = MiddleFields /\ middle'.at = "send"
          /\ middle'.job = [middle.job EXCEPT !.tag = tag]
      BY <2>1 DEF Shapes
    <2>3. CASE ~server_end.dead
      <3>1. /\ w /\ k = "name" /\ middle.job = Request(k, t) /\ server_end.to = <<>>
            /\ server_end.from = <<>> /\ SlaveNames(slave, t)
        BY <2>1, <2>3 DEF Here, Lookup, Idle, Serving
      <3>2. slave.from = <<Name(t)>> /\ (slave.at = "dead" \/ (slave.at = "read" /\ slave.to = <<>>))
        BY <2>1, <3>1 DEF SlaveNames
      <3>3. tag = t /\ rest = <<>>
        BY <3>2, Short DEF tag, rest, Name
      <3>4. middle'.job = Request(k, t) /\ server_end'.from = <<Length(t)>>
        BY <2>2, <3>1, <3>3, Short DEF Request
      <3>5. SlaveQuiet(slave')
        BY <2>2, <3>2, <3>3 DEF SlaveQuiet
      <3> QED
        BY <2>2, <3>1, <3>4, <3>5 DEF Shapes, Here, Lookup, Serving
    <2> QED
      BY <2>2, <2>3 DEF Shapes, Here, Lookup
  <1>2. CASE IntermediaryForwardsName
    <2>1. /\ middle.at = "send" /\ UNCHANGED slave
          /\ server_end' = [server_end EXCEPT !.from = Append(server_end.from, Name(middle.job.tag))]
          /\ middle' = [middle EXCEPT !.at = "read"]
      BY <1>2 DEF IntermediaryForwardsName, Reply
    <2>2. /\ DOMAIN server_end' = ServerFields /\ server_end'.dead = server_end.dead
          /\ server_end'.to = server_end.to
          /\ server_end'.from = Append(server_end.from, Name(middle.job.tag))
          /\ DOMAIN middle' = MiddleFields /\ middle'.at = "read"
      BY <2>1 DEF Shapes
    <2>3. CASE ~server_end.dead
      <3>1. /\ w /\ k = "name" /\ middle.job = Request(k, t) /\ server_end.to = <<>>
            /\ server_end.from = <<Length(t)>> /\ SlaveQuiet(slave)
        BY <2>1, <2>3 DEF Here, Lookup, Idle, Serving
      <3>2. middle.job.tag = t
        BY <3>1 DEF Request
      <3>3. server_end'.from = <<Length(t), Name(t)>>
        BY <2>2, <3>1, <3>2, Short
      <3>4. server_end'.from \in Answers(k, t)
        BY <3>1, <3>3 DEF Answers, Whole
      <3> QED
        BY <2>1, <2>2, <3>1, <3>4 DEF Shapes, Here, Lookup, Serving
    <2> QED
      BY <2>1, <2>2, <2>3 DEF Shapes, Here, Lookup
  <1> QED
    BY <1>1, <1>2

LEMMA SeesDeathKeeps ==
  ASSUME NEW w \in BOOLEAN, NEW k \in {"addr", "name"}, NEW t, Shapes, Here(w, k, t),
         NEW spawned \in BOOLEAN, IntermediarySeesDeath(spawned)
  PROVE  Shapes' /\ Here(w, k, t)'
  <1> USE DEF ServerFields, MiddleFields, SlaveFields
  <1>1. /\ middle.at \in {"wait", "name"}
        /\ slave' = NewSlave \/ slave' = NoSlave
        /\ middle' = [middle EXCEPT !.at = "read", !.pid = spawned]
        /\ server_end' = [server_end EXCEPT !.from = Append(server_end.from, Nothing)]
    BY DEF IntermediarySeesDeath, restart_lookup, Reply
  <1>2. /\ DOMAIN server_end' = ServerFields /\ server_end'.dead = server_end.dead
        /\ server_end'.to = server_end.to
        /\ server_end'.from = Append(server_end.from, Nothing)
        /\ DOMAIN middle' = MiddleFields /\ middle'.at = "read"
    BY <1>1 DEF Shapes
  <1>3. DOMAIN slave' = SlaveFields /\ SlaveQuiet(slave')
    BY <1>1 DEF NewSlave, NoSlave, SlaveQuiet
  <1>4. CASE ~server_end.dead
    <2>1. w /\ server_end.to = <<>> /\ server_end.from = <<>>
      BY <1>1, <1>4 DEF Here, Lookup, Idle, Serving
    <2>2. server_end'.from = <<Nothing>>
      BY <1>2, <2>1, Short
    <2> QED
      BY <1>2, <1>3, <2>1, <2>2 DEF Shapes, Here, Lookup, Serving
  <1> QED
    BY <1>2, <1>3, <1>4 DEF Shapes, Here, Lookup

\* Whatever the helper processes do, and whichever of them dies or is started
\* again, the request stays on its way and its answer stays its answer.
LEMMA HelpersKeep ==
  ASSUME NEW w \in BOOLEAN, NEW k \in {"addr", "name"}, NEW t, Shapes, Here(w, k, t),
         HelperStep \/ HelperFault
  PROVE  Shapes' /\ Here(w, k, t)'
  BY LookupReadsKeeps, LookupWrites, LookupDies, IntermediaryDies, IntermediaryReadsKeeps,
     ForwardsKeeps, ForwardsNameKeeps, SeesDeathKeeps DEF HelperStep, HelperFault

-----------------------------------------------------------------------------
(* The server asks and takes the answer.                                   *)

LEMMA NothingLeft ==
  /\ \A x : SubSeq(<<x>>, 2, 1) = <<>>
  /\ \A x, y : SubSeq(<<x, y>>, 3, 2) = <<>>
  OBVIOUS

LEMMA AskKeeps ==
  ASSUME NEW j, NEW u, NEW k \in {"addr", "name"}, NEW t, Shapes, Here(FALSE, j, u), Ask(k, t)
  PROVE  Shapes' /\ Here(TRUE, k, t)'
  <1> USE DEF ServerFields, MiddleFields, SlaveFields
  <1>1. UNCHANGED <<middle, slave>>
        /\ server_end' = IF server_end.dead THEN server_end
                         ELSE IF middle.at = "dead" THEN abandon_intermediary
                         ELSE [server_end EXCEPT !.to = Append(server_end.to, Request(k, t))]
    BY DEF Ask, Request
  <1>2. CASE server_end.dead
    BY <1>1, <1>2 DEF Shapes, Here, Lookup
  <1>3. CASE ~server_end.dead /\ middle.at = "dead"
    <2>1. server_end' = [server_end EXCEPT !.dead = TRUE, !.to = <<>>, !.from = <<>>]
      BY <1>1, <1>3 DEF abandon_intermediary
    <2>2. DOMAIN server_end' = ServerFields /\ server_end'.dead = TRUE
      BY <2>1 DEF Shapes
    <2> QED
      BY <1>1, <2>2 DEF Shapes, Here, Lookup
  <1>4. CASE ~server_end.dead /\ middle.at # "dead"
    <2>1. Idle(server_end, middle, slave)
      BY <1>4 DEF Here, Lookup
    <2>2. server_end' = [server_end EXCEPT !.to = Append(server_end.to, Request(k, t))]
      BY <1>1, <1>4
    <2>3. /\ DOMAIN server_end' = ServerFields /\ server_end'.dead = server_end.dead
          /\ server_end'.to = Append(server_end.to, Request(k, t))
          /\ server_end'.from = server_end.from
      BY <2>2 DEF Shapes
    <2>4. server_end'.to = <<Request(k, t)>>
      BY <2>1, <2>3, Short DEF Idle
    <2> QED
      BY <1>1, <2>1, <2>3, <2>4 DEF Shapes, Here, Lookup, Serving, Idle
  <1> QED
    BY <1>2, <1>3, <1>4

LEMMA TakeKeeps ==
  ASSUME NEW j, NEW u, NEW k \in {"addr", "name"}, NEW t, Shapes, Here(TRUE, k, t), TakeAnswer(k)
  PROVE  Shapes' /\ Here(FALSE, j, u)' /\ Answered(k) \in {0, t}
  <1> USE DEF ServerFields, MiddleFields, SlaveFields
  <1> DEFINE from == server_end.from
             left == SubSeq(from, IF HasName(k) THEN 3 ELSE 2, Len(from))
  <1>1. /\ UNCHANGED <<middle, slave>> /\ AnswerReady(k)
        /\ server_end' = IF server_end.dead THEN server_end
                         ELSE IF ~Complete(k) THEN abandon_intermediary
                         ELSE [server_end EXCEPT !.from = left]
    BY DEF TakeAnswer
  <1>2. CASE server_end.dead
    BY <1>1, <1>2 DEF Shapes, Here, Lookup, Answered
  <1>3. CASE ~server_end.dead /\ ~Complete(k)
    <2>1. server_end' = [server_end EXCEPT !.dead = TRUE, !.to = <<>>, !.from = <<>>]
      BY <1>1, <1>3 DEF abandon_intermediary
    <2>2. DOMAIN server_end' = ServerFields /\ server_end'.dead = TRUE
      BY <2>1 DEF Shapes
    <2> QED
      BY <1>1, <1>3, <2>2 DEF Shapes, Here, Lookup, Answered
  <1>4. CASE ~server_end.dead /\ Complete(k)
    <2>1. Answered(k) = Head(from).tag
      BY <1>4 DEF Answered
    <2>2. from # <<>> /\ (HasName(k) => Len(from) > 1)
      BY <1>4 DEF Complete
    <2>3. HasName(k) <=> k = "name" /\ Head(from).item = "length"
      BY DEF HasName
    <2>4. server_end' = [server_end EXCEPT !.from = left]
      BY <1>1, <1>4
    <2>5. /\ DOMAIN server_end' = ServerFields /\ server_end'.dead = server_end.dead
          /\ server_end'.to = server_end.to /\ server_end'.from = left
      BY <2>4 DEF Shapes
    <2> HIDE DEF from
    <2>6. from \in {<<Nothing>>, Begun(k, t)} \cup Answers(k, t)
      BY <1>4, <2>2 DEF Here, Lookup, Serving, Begun, from
    <2>7. Head(from).tag \in {0, t}
      <3>1. from = <<Nothing>> => Head(from).tag = 0
        BY Short DEF Nothing
      <3>2. from = <<Addr(t)>> => Head(from).tag = t
        BY Short DEF Addr
      <3>3. from = <<Length(t)>> => Head(from).tag = t
        BY Short DEF Length
      <3>4. from = <<Length(t), Name(t)>> => Head(from).tag = t
        BY Short DEF Length
      <3>5. from = <<Unknown(t)>> => Head(from).tag = t
        BY Short DEF Unknown
      <3> QED
        BY <2>6, <3>1, <3>2, <3>3, <3>4, <3>5 DEF Begun, Whole, Answers
    <2>8. CASE middle.at = "dead"
      BY <1>1, <2>1, <2>5, <2>7, <2>8 DEF Shapes, Here, Lookup
    <2>9. CASE middle.at # "dead"
      <3>1. Serving(server_end, middle, slave, k, t)
        BY <1>4, <2>9 DEF Here, Lookup
      <3>2. from # <<Length(t)>> \/ k # "name"
        <4>1. from = <<Length(t)>> => Head(from).item = "length" /\ Len(from) = 1
          BY Short DEF Length
        <4> QED
          BY <2>2, <2>3, <4>1
      <3>3. /\ middle.at = "read" /\ server_end.to = <<>> /\ SlaveQuiet(slave)
            /\ from \in {<<Nothing>>} \cup Answers(k, t)
        BY <2>2, <3>1, <3>2 DEF Serving, from
      <3>4. left = <<>>
        <4>1. CASE from = <<Nothing>>
          <5>1. Head(from).item = "zero" /\ Len(from) = 1
            BY <4>1, Short DEF Nothing
          <5>2. left = SubSeq(<<Nothing>>, 2, 1)
            BY <2>3, <4>1, <5>1
          <5> QED
            BY <5>2, NothingLeft
        <4>4. CASE from = <<Unknown(t)>>
          <5>1. Head(from).item = "unknown" /\ Len(from) = 1
            BY <4>4, Short DEF Unknown
          <5>2. left = SubSeq(<<Unknown(t)>>, 2, 1)
            BY <2>3, <4>4, <5>1
          <5> QED
            BY <5>2, NothingLeft
        <4>2. CASE k = "addr" /\ from = Whole(k, t)
          <5>1. from = <<Addr(t)>> /\ Len(from) = 1
            BY <4>2, Short DEF Whole
          <5>2. left = SubSeq(<<Addr(t)>>, 2, 1)
            BY <2>3, <4>2, <5>1
          <5> QED
            BY <5>2, NothingLeft
        <4>3. CASE k = "name" /\ from = Whole(k, t)
          <5>1. from = <<Length(t), Name(t)>>
            BY <4>3 DEF Whole
          <5>2. Len(from) = 2 /\ Head(from).item = "length"
            BY <5>1, Short DEF Length
          <5>3. left = SubSeq(<<Length(t), Name(t)>>, 3, 2)
            BY <2>3, <4>3, <5>1, <5>2
          <5> QED
            BY <5>3, NothingLeft
        <4> QED
          BY <3>3, <4>1, <4>2, <4>3, <4>4 DEF Answers
      <3> QED
        BY <1>1, <2>1, <2>5, <2>7, <3>3, <3>4 DEF Shapes, Here, Lookup, Idle
    <2> QED
      BY <2>8, <2>9
  <1> QED
    BY <1>2, <1>3, <1>4

\* What the server waits for: open_network_connection asks for an address.
Kind == IF job.open = 1 THEN "addr" ELSE "name"

LookupInv ==
  /\ Shapes /\ Here(loop.at = "lookup", Kind, asked.tag)
  /\ DOMAIN asked = {"tag", "got"} /\ asked.got \in {0, asked.tag}
  /\ job.open \in {0, 1} /\ (loop.at # "lookup" => job.open = 0)

LEMMA LookupInit == ASSUME Init PROVE LookupInv
  <1>1. /\ server_end = [dead |-> FALSE, to |-> <<>>, from |-> <<>>]
        /\ middle = [at |-> "read", pid |-> TRUE, job |-> NoReq] /\ slave = NewSlave
        /\ asked = [tag |-> 0, got |-> 0] /\ loop = At("top") /\ job = NoJob
    BY DEF Init, NameLookupInit
  <1>2. Shapes /\ Idle(server_end, middle, slave)
    BY <1>1 DEF Shapes, ServerFields, MiddleFields, SlaveFields, NewSlave, Idle, SlaveQuiet
  <1>3. loop.at = "top" /\ job.open = 0 /\ DOMAIN asked = {"tag", "got"} /\ asked.got = 0
    BY <1>1 DEF At, NoJob
  <1> QED
    BY <1>2, <1>3 DEF LookupInv, Here, Lookup

LEMMA LookupRestart == ASSUME NEW saved, Restart(saved) PROVE LookupInv'
  <1>1. /\ server_end' = [dead |-> FALSE, to |-> <<>>, from |-> <<>>]
        /\ middle' = [at |-> "read", pid |-> TRUE, job |-> NoReq] /\ slave' = NewSlave
        /\ asked' = [tag |-> 0, got |-> 0] /\ loop' = At("top") /\ job' = NoJob
    BY DEF Restart
  <1>2. Shapes' /\ Idle(server_end', middle', slave')
    BY <1>1 DEF Shapes, ServerFields, MiddleFields, SlaveFields, NewSlave, Idle, SlaveQuiet
  <1>3. loop'.at = "top" /\ job'.open = 0 /\ DOMAIN asked' = {"tag", "got"} /\ asked'.got = 0
    BY <1>1 DEF At, NoJob
  <1> QED
    BY <1>2, <1>3 DEF LookupInv, Here, Lookup

\* The server does something else, and is not waiting before or after.
LEMMA NotAsking ==
  ASSUME LookupInv, UNCHANGED <<server_end, middle, slave, asked>>,
         loop.at # "lookup", loop'.at # "lookup", job'.open = 0
  PROVE  LookupInv'
  <1>1. Shapes /\ Lookup(server_end, middle, slave, FALSE, Kind, asked.tag)
    BY DEF LookupInv, Here
  <1>2. Lookup(server_end, middle, slave, FALSE, Kind', asked.tag)
    BY <1>1 DEF Lookup
  <1> QED
    BY <1>1, <1>2 DEF LookupInv, Here, Shapes

\* It waits before and after, or does neither.
LEMMA StillAsking ==
  ASSUME LookupInv, UNCHANGED <<server_end, middle, slave, asked>>,
         (loop'.at = "lookup") = (loop.at = "lookup"), job'.open = job.open
  PROVE  LookupInv'
  <1>1. Kind' = Kind
    BY DEF Kind
  <1> QED
    BY <1>1 DEF LookupInv, Here, Shapes

LEMMA RunNotOpen ==
  ASSUME NEW name, NEW player, NEW h, NEW then, NEW d, Run(name, player, h, then, d)
  PROVE  job'.open = 0 /\ DOMAIN job' = JobFields /\ job'.name = name /\ job'.h = h
         /\ job'.then = then
  BY DEF Run, NoJob, JobFields

LEMMA AskInv ==
  ASSUME LookupInv, loop.at # "lookup", NEW k \in {"addr", "name"}, Ask(k, NextTag),
         asked' = [tag |-> NextTag, got |-> 0], loop'.at = "lookup",
         job'.open = IF k = "addr" THEN 1 ELSE 0
  PROVE  LookupInv'
  <1>1. Shapes /\ Here(FALSE, Kind, asked.tag)
    BY DEF LookupInv, Here
  <1>2. Shapes' /\ Lookup(server_end', middle', slave', TRUE, k, NextTag)
    <2>1. PICK t : t = NextTag
      OBVIOUS
    <2>2. Ask(k, t)
      BY <2>1
    <2>3. Shapes' /\ Here(TRUE, k, t)'
      BY ONLY <1>1, <2>2, k \in {"addr", "name"}, AskKeeps
    <2> QED
      BY <2>1, <2>3 DEF Here
  <1>3. asked'.tag = NextTag /\ asked'.got = 0 /\ DOMAIN asked' = {"tag", "got"} /\ Kind' = k
    BY DEF Kind
  <1> QED
    BY <1>2, <1>3 DEF LookupInv, Here

LEMMA TakeInv ==
  ASSUME LookupInv, loop.at = "lookup", TakeAnswer(Kind),
         asked' = [asked EXCEPT !.got = Answered(Kind)], loop'.at # "lookup", job'.open = 0
  PROVE  LookupInv'
  <1>1. Shapes /\ Here(TRUE, Kind, asked.tag) /\ Kind \in {"addr", "name"}
    BY DEF LookupInv, Here, Kind
  <1>2. PICK k, t : k = Kind /\ t = asked.tag
    OBVIOUS
  <1>3. Here(TRUE, k, t) /\ TakeAnswer(k) /\ k \in {"addr", "name"}
    BY <1>1, <1>2
  <1>4. PICK j, u : j = Kind' /\ u = asked'.tag
    OBVIOUS
  <1>5. Shapes' /\ Here(FALSE, j, u)' /\ Answered(k) \in {0, t}
    BY ONLY <1>1, <1>3, TakeKeeps
  <1>6. DOMAIN asked' = {"tag", "got"} /\ asked'.tag = asked.tag /\ asked'.got = Answered(Kind)
    BY DEF LookupInv
  <1> QED
    BY <1>2, <1>4, <1>5, <1>6 DEF LookupInv, Here

LEMMA HelperInv ==
  ASSUME LookupInv, HelperProcesses \/ HelpersFail
  PROVE  LookupInv'
  <1>1. PICK w, k, t : w = (loop.at = "lookup") /\ k = Kind /\ t = asked.tag
    OBVIOUS
  <1>2. w \in BOOLEAN /\ k \in {"addr", "name"} /\ Shapes /\ Here(w, k, t)
    BY <1>1 DEF LookupInv, Kind
  <1>3. HelperStep \/ HelperFault
    BY DEF HelperProcesses, HelpersFail
  <1>4. Shapes' /\ Here(w, k, t)'
    BY ONLY <1>2, <1>3, HelpersKeep
  <1>5. UNCHANGED <<loop, job, asked>>
    BY DEF HelperProcesses, HelpersFail, Elsewhere
  <1>6. Kind' = Kind
    BY <1>5 DEF Kind
  <1> QED
    BY <1>1, <1>4, <1>5, <1>6 DEF LookupInv, Here

LEMMA LookupLoop == ASSUME TimerInv, LookupInv, LoopStep PROVE LookupInv'
  <1>0. DOMAIN loop = LoopFields /\ (loop.at # "lookup" => job.open = 0)
    BY DEF TimerInv, LookupInv
  <1>1. CASE Select
    BY <1>1, <1>0, NotAsking DEF Select, nlvars, LoopFields
  <1>2. CASE AcceptStart
    <2>1. loop'.at = "lookup" /\ loop.at = "accept" /\ UNCHANGED job
      BY <1>2, <1>0, GoIs DEF AcceptStart
    <2> QED
      BY <1>2, <1>0, <2>1, AskInv DEF AcceptStart
  <1>3. CASE AcceptFinish
    <2>1. loop'.at = "accept" /\ loop.at = "lookup" /\ UNCHANGED job /\ job.open = 0
      BY <1>3, <1>0 DEF AcceptFinish, LoopFields
    <2>2. Kind = "name"
      BY <2>1 DEF Kind
    <2> QED
      BY <1>3, <2>1, <2>2, TakeInv DEF AcceptFinish
  <1>4. CASE AcceptDone
    BY <1>4, <1>0, NotAsking, MovedIs DEF AcceptDone, nlvars, LoopFields
  <1>5. CASE IoDone
    BY <1>5, <1>0, NotAsking, GoIs DEF IoDone, nlvars
  <1>6. ASSUME NEW room \in Rooms, IoServes(room) PROVE LookupInv'
    BY <1>6, <1>0, NotAsking, MovedIs DEF IoServes, nlvars
  <1>7. ASSUME NEW room \in Rooms, IoCloses(room) PROVE LookupInv'
    BY <1>7, <1>0, NotAsking, RunNotOpen, GoIs DEF IoCloses, nlvars
  <1>8. CASE CheckpointStarted
    BY <1>8, <1>0, NotAsking, RunNotOpen DEF CheckpointStarted, nlvars, LoopFields
  <1>9. CASE Dump
    BY <1>9, <1>0, NotAsking DEF Dump, nlvars, LoopFields
  <1>10. CASE Shutdown
    BY <1>10, LookupRestart DEF Shutdown
  <1>11. ASSUME NEW h \in Handle, RunInput(h) PROVE LookupInv'
    BY <1>11, <1>0, NotAsking, RunNotOpen, GoIs DEF RunInput, nlvars
  <1>12. CASE RunTask
    BY <1>12, <1>0, NotAsking, RunNotOpen, GoIs DEF RunTask, nlvars
  <1>13. CASE TasksDone
    BY <1>13, <1>0, NotAsking, MovedIs DEF TasksDone, nlvars, LoopFields
  <1>14. CASE SweepTells
    BY <1>14, <1>0, NotAsking, RunNotOpen, GoIs DEF SweepTells, Sweeping, nlvars
  <1>15. CASE SweepRecycled
    BY <1>15, <1>0, NotAsking, MovedIs DEF SweepRecycled, Sweeping, nlvars
  <1>16. CASE SweepKeeps
    BY <1>16, <1>0, NotAsking, MovedIs DEF SweepKeeps, Sweeping, nlvars
  <1>17. CASE SweepDone
    BY <1>17, <1>0, NotAsking, GoIs DEF SweepDone, nlvars
  <1> QED
    BY <1>1, <1>2, <1>3, <1>4, <1>5, <1>6, <1>7, <1>8, <1>9, <1>10, <1>11, <1>12, <1>13,
       <1>14, <1>15, <1>16, <1>17 DEF LoopStep

LEMMA LookupCall == ASSUME TimerInv, LookupInv, CallStep PROVE LookupInv'
  <1>0. DOMAIN loop = LoopFields /\ DOMAIN job = JobFields /\ (loop.at # "lookup" => job.open = 0)
    BY DEF TimerInv, LookupInv
  <1>a. ASSUME Called PROVE job'.open = job.open
    BY <1>a, <1>0 DEF Called, JobFields
  <1>1. ASSUME NEW h \in Handle, NEW room \in Rooms, NEW no_flush \in BOOLEAN,
               bf_notify(h, no_flush, room)
        PROVE  LookupInv'
    BY <1>1, StillAsking DEF bf_notify, nlvars
  <1>2. ASSUME NEW h \in Handle, boot_player(h) PROVE LookupInv'
    BY <1>2, <1>a, StillAsking DEF boot_player, nlvars
  <1>3. ASSUME NEW h \in Handle, NEW value \in BOOLEAN, bf_set_connection_option(h, value)
        PROVE  LookupInv'
    BY <1>3, <1>a, StillAsking DEF bf_set_connection_option, nlvars
  <1>4. ASSUME NEW u \in User, RecycleUser(u) PROVE LookupInv'
    BY <1>4, <1>a, StillAsking DEF RecycleUser, nlvars
  <1>5. ASSUME NEW h \in ToSet(shandles), NEW new \in User, bf_switch_player(sh[h].player, new)
        PROVE  LookupInv'
    BY <1>5, <1>a, StillAsking DEF bf_switch_player, nlvars
  <1>6. ASSUME NEW port \in Port, bf_listen(port) PROVE LookupInv'
    BY <1>6, <1>a, StillAsking DEF bf_listen, nlvars
  <1>7. ASSUME NEW port \in Port, bf_unlisten(port) PROVE LookupInv'
    BY <1>7, <1>a, StillAsking DEF bf_unlisten, nlvars
  <1>8. CASE bf_dump_database
    BY <1>8, <1>0, <1>a, StillAsking DEF bf_dump_database, nlvars, LoopFields
  <1>9. CASE bf_shutdown
    BY <1>9, <1>0, <1>a, StillAsking DEF bf_shutdown, nlvars, LoopFields
  <1>10. CASE Compute
    BY <1>10, <1>0, StillAsking DEF Compute, nlvars, JobFields
  <1>11. CASE OpenStart
    <2>1. loop'.at = "lookup" /\ loop.at = "verb" /\ job'.open = 1
      BY <1>11, <1>0, GoIs DEF OpenStart, InVerb, JobFields
    <2> QED
      BY <1>11, <2>1, AskInv DEF OpenStart
  <1>12. ASSUME NEW b \in BOOLEAN, OpenConnects(b) PROVE LookupInv'
    <2>1. loop'.at # "lookup" /\ loop.at = "lookup" /\ job'.open = 0 /\ job.open = 1
      BY <1>12, <1>0, GoIs DEF OpenConnects, JobFields
    <2>2. Kind = "addr"
      BY <2>1 DEF Kind
    <2> QED
      BY <1>12, <2>1, <2>2, TakeInv DEF OpenConnects
  <1>13. ASSUME NEW b \in BOOLEAN, OpenFinish(b) PROVE LookupInv'
    BY <1>13, <1>0, NotAsking, GoIs DEF OpenFinish, nlvars
  <1> QED
    BY <1>1, <1>2, <1>3, <1>4, <1>5, <1>6, <1>7, <1>8, <1>9, <1>10, <1>11, <1>12, <1>13 DEF CallStep

LEMMA LookupEnd == ASSUME TimerInv, LookupInv, EndStep PROVE LookupInv'
  <1>0. DOMAIN loop = LoopFields /\ (loop.at # "lookup" => job.open = 0)
    BY DEF TimerInv, LookupInv
  <1>a. ASSUME Stop PROVE job'.open = 0
    BY <1>a DEF Stop, NoJob
  <1>b. ASSUME NEW list, NEW where, where # "lookup", loop.at = "verb",
               loop' = IF job.h \in ToSet(shandles)
                       THEN [Moved(list, loop.next) EXCEPT !.at = IF @ = "verb" THEN where ELSE @]
                       ELSE [loop EXCEPT !.at = "undefined"]
        PROVE  loop'.at # "lookup"
    BY <1>b, <1>0, MovedIs DEF LoopFields
  <1>1. CASE EndClose
    BY <1>1, <1>a, <1>b, NotAsking DEF EndClose, Ends, nlvars
  <1>2. CASE EndSwept
    BY <1>2, <1>a, <1>b, NotAsking DEF EndSwept, Ends, nlvars
  <1>3. CASE EndTask
    BY <1>3, <1>0, <1>a, GoIs, NotAsking DEF EndTask, Ends, nlvars
  <1>4. CASE EndLoginFails
    BY <1>4, <1>0, <1>a, GoIs, NotAsking DEF EndLoginFails, Ends, nlvars
  <1>5. CASE EndRedirected
    <2>1. loop.at = "verb" /\ UNCHANGED <<asked, nlvars>>
      BY <1>5 DEF EndRedirected, Ends
    <2>2. CASE job.h \in ToSet(shandles)
      <3>1. Run("user_connected", sh[job.h].player, job.h, "tasks", db) /\ UNCHANGED loop
        BY <1>5, <2>2 DEF EndRedirected
      <3> QED
        BY <2>1, <3>1, RunNotOpen, NotAsking DEF nlvars
    <2>3. CASE job.h \notin ToSet(shandles)
      <3>1. Stop /\ Go("undefined")
        BY <1>5, <2>3 DEF EndRedirected
      <3> QED
        BY <1>0, <1>a, <2>1, <3>1, GoIs, NotAsking DEF nlvars
    <2> QED
      BY <2>2, <2>3
  <1>6. ASSUME NEW u \in User, NEW room \in Rooms, player_connected(u, room) PROVE LookupInv'
    <2>1. \E name, then : Run(name, u, job.h, then, db)
      BY <1>6 DEF player_connected
    <2>2. UNCHANGED <<loop, asked, nlvars>> /\ loop.at = "verb"
      BY <1>6 DEF player_connected, Ends
    <2> QED
      BY <2>1, <2>2, RunNotOpen, NotAsking DEF nlvars
  <1> QED
    BY <1>1, <1>2, <1>3, <1>4, <1>5, <1>6 DEF EndStep

LEMMA LookupNext == ASSUME TimerInv, LookupInv, [Next]_vars PROVE LookupInv'
  <1>0. DOMAIN loop = LoopFields /\ DOMAIN job = JobFields /\ TimersOk(tm)
        /\ (loop.at # "connect" => NoTimeouts(tm))
    BY DEF TimerInv
  <1>1. CASE ClientStep
    BY <1>1, StillAsking DEF ClientStep, ClientConnects, ClientHangsUp, ClientSends, nlvars
  <1>2. CASE Tick
    BY <1>2, StillAsking DEF Tick, nlvars
  <1>3. CASE Alarm
    \* In a lookup the only timers are those of checkpoints.
    <2>1. UNCHANGED <<asked, nlvars>> /\ tm.sigalrm /\ job'.open = job.open
      BY <1>3, <1>0 DEF Alarm, JobFields
    <2>2. tm.active # <<>> /\ tm.active \in Seq(Timer)
      BY <1>0, <2>1 DEF TimersOk, Armed, TimerRecord
    <2>3. 1 \in DOMAIN tm.active /\ Head(tm.active) = tm.active[1]
      BY <2>2, LenProperties, HeadTailProperties, EmptySeq
    <2>4. CASE loop.at = "lookup"
      <3>1. Head(tm.active).proc = checkpoint_timer
        BY <1>0, <2>3, <2>4 DEF NoTimeouts
      <3>2. loop' = [loop EXCEPT !.checkpoint = TRUE]
        BY <1>3, <3>1 DEF Alarm
      <3>3. loop'.at = loop.at
        BY <1>0, <3>2 DEF LoopFields
      <3> QED
        BY <2>1, <3>3, StillAsking DEF nlvars
    <2>5. CASE loop.at # "lookup"
      <3>1. loop' = [loop EXCEPT !.checkpoint = TRUE] \/ loop' = [loop EXCEPT !.at = "verb"]
        BY <1>3 DEF Alarm
      <3>2. loop'.at # "lookup"
        BY <1>0, <2>5, <3>1 DEF LoopFields
      <3> QED
        BY <2>1, <2>5, <3>2, StillAsking DEF nlvars
    <2> QED
      BY <2>4, <2>5
  <1>4. CASE HelperProcesses \/ HelpersFail
    BY <1>4, HelperInv
  <1>5. CASE Crash \/ panic
    BY <1>5, LookupRestart DEF Crash, panic
  <1>6. CASE UNCHANGED vars
    BY <1>6, StillAsking DEF vars, nlvars
  <1> QED
    BY <1>1, <1>2, <1>3, <1>4, <1>5, <1>6, LookupLoop, LookupCall, LookupEnd DEF Next, ServerStep

\* The answer the server takes for a name or an address is the answer to the
\* request it has just made, or none, although either helper process may time
\* out, be killed or be started again at any point (name_lookup.cc).
THEOREM AnswersToTheQuestion == Spec => []AnswersMatch
  <1>1. Init => TimerInv /\ LookupInv
    BY TimerInit, LookupInit
  <1>2. TimerInv /\ LookupInv /\ [Next]_vars => TimerInv' /\ LookupInv'
    BY TimerNext, LookupNext
  <1>3. LookupInv => AnswersMatch
    BY DEF LookupInv, AnswersMatch
  <1> QED
    BY <1>1, <1>2, <1>3, PTL DEF Spec

-----------------------------------------------------------------------------
(* Connections.                                                            *)

ShFields == {"player", "listener", "logged", "age", "disconnect_me", "outbound", "print", "lines"}
DidFields == {"conns", "tasks", "bytes", "restarts", "unconnected"}

Distinct(list) == \A i, j \in DOMAIN list : list[i] = list[j] => i = j

\* The handles in the list are whole, have players of their own, and those that
\* have not logged in have numbers above the next one to be given out.
Rows(S, list, low) ==
  /\ \A h \in ToSet(list) :
       /\ DOMAIN S[h] = ShFields
       /\ S[h].player \in Int /\ S[h].player > low
       /\ S[h].player < 0 \/ S[h].player \in User
       /\ S[h].logged = (S[h].player \in User)
  /\ \A g, h \in ToSet(list) : S[g].player = S[h].player => g = h

\* The database's idea of who is online is right, but for the connection skip.
Known(S, list, online, users, skip) ==
  /\ \A u \in online \cap users : \E h \in ToSet(list) : S[h].player = u
  /\ \A h \in ToSet(list) : S[h].player \in User /\ h # skip => S[h].player \in online

\* A verb is running, or waits for its built-in; with what will follow it.
Busy == loop.at \in {"verb", "connect"} \/ (loop.at = "lookup" /\ job.open = 1)
Leaving == Busy /\ job.then \in {"close", "swept"}
Joining == Busy /\ job.then = "connected"
Skip == IF Leaving \/ Joining THEN job.h ELSE 0

\* The loops over connections: the next one is there, and is another one.
Cursor(l, list) ==
  /\ l.h \in ToSet(list) \cup {0} /\ l.next \in ToSet(list) \cup {0}
  /\ l.next = l.h => l.next = 0

Notifies(name) == Offline(name) \/ Online(name)

ListsInv ==
  /\ DOMAIN sh = Handle /\ DOMAIN did = DidFields
  /\ shandles \in Seq(Handle) /\ nhandles = shandles /\ Distinct(shandles)
  /\ did.conns \in 0..MaxConn /\ \A h \in ToSet(shandles) : h <= did.conns
  /\ did.unconnected \in Int /\ did.unconnected < 0
  /\ job.open = 1 \/ loop.at = "connect" => did.conns < MaxConn
  /\ Rows(sh, shandles, did.unconnected)

CursorInv ==
  /\ loop.at # "undefined"
  /\ loop.at \in {"io", "sweep"} \/ Leaving => Cursor(loop, shandles)
  /\ Leaving => job.h = loop.h /\ loop.h # 0 /\ sh[job.h].player \notin db.online
  /\ Joining => job.h \in ToSet(shandles)
  /\ Leaving \/ Joining => Notifies(job.name)

OnlineInv ==
  /\ DOMAIN db = {"users", "online"} /\ db.users \subseteq User
  /\ DOMAIN disk = {"db", "conns"} /\ DOMAIN disk.db = {"users", "online"}
  /\ disk.db.users \subseteq User /\ disk.db.online \cap disk.db.users \subseteq disk.conns
  /\ Known(sh, shandles, db.online, db.users, Skip)

HandleInv == ListsInv /\ CursorInv /\ OnlineInv

LEMMA SetOf ==
  ASSUME NEW S, NEW list \in Seq(S)
  PROVE  /\ Len(list) \in Nat /\ DOMAIN list = 1..Len(list) /\ ToSet(list) \subseteq S
         /\ \A x : x \in ToSet(list) <=> \E i \in 1..Len(list) : list[i] = x
  BY LenProperties, ElementOfSeq DEF ToSet

LEMMA WithoutIs ==
  ASSUME NEW S, NEW list \in Seq(S), Distinct(list), NEW h
  PROVE  /\ Without(list, h) \in Seq(S) /\ Distinct(Without(list, h))
         /\ ToSet(Without(list, h)) = ToSet(list) \ {h}
  <1> DEFINE k == CHOOSE i \in DOMAIN list : list[i] = h
             t == RemoveAt(list, k)
             n == Len(list)
  <1>1. /\ n \in Nat /\ DOMAIN list = 1..n
        /\ \A x : x \in ToSet(list) <=> \E i \in 1..n : list[i] = x
    BY SetOf
  <1>2. CASE h \notin ToSet(list)
    BY <1>2 DEF Without
  <1>3. CASE h \in ToSet(list)
    <2>1. k \in 1..n /\ list[k] = h
      BY <1>1, <1>3
    <2>2. Without(list, h) = t
      BY <1>3 DEF Without
    <2> HIDE DEF k
    <2>3. /\ t \in Seq(S) /\ Len(t) = n - 1
          /\ \A i \in 1..(n - 1) : t[i] = IF i < k THEN list[i] ELSE list[i + 1]
      BY <2>1, RemoveIs
    <2> HIDE DEF t
    <2>4. DOMAIN t = 1..(n - 1) /\ \A x : x \in ToSet(t) <=> \E i \in 1..(n - 1) : t[i] = x
      BY <2>3, SetOf
    <2>5. ASSUME NEW i \in 1..(n - 1), NEW j \in 1..(n - 1), t[i] = t[j] PROVE i = j
      <3> DEFINE a == IF i < k THEN i ELSE i + 1
                 b == IF j < k THEN j ELSE j + 1
      <3>1. a \in 1..n /\ b \in 1..n /\ t[i] = list[a] /\ t[j] = list[b]
        BY <1>1, <2>1, <2>3
      <3>2. a = b
        BY <1>1, <2>5, <3>1 DEF Distinct
      <3> QED
        BY <1>1, <2>1, <3>2
    <2>6. ASSUME NEW x \in ToSet(t) PROVE x \in ToSet(list) \ {h}
      <3>1. PICK i \in 1..(n - 1) : t[i] = x
        BY <2>4
      <3> DEFINE a == IF i < k THEN i ELSE i + 1
      <3>2. a \in 1..n /\ a # k /\ list[a] = x
        BY <1>1, <2>1, <2>3, <3>1
      <3>3. x # h
        BY <1>1, <2>1, <3>2 DEF Distinct
      <3> QED
        BY <1>1, <3>2, <3>3
    <2>7. ASSUME NEW x \in ToSet(list), x # h PROVE x \in ToSet(t)
      <3>1. PICK a \in 1..n : list[a] = x
        BY <1>1
      <3>2. CASE a < k
        <4>1. a \in 1..(n - 1) /\ t[a] = x
          BY <1>1, <2>1, <2>3, <3>1, <3>2
        <4> QED
          BY <2>4, <4>1
      <3>3. CASE a > k
        <4>1. a - 1 \in 1..(n - 1) /\ ~(a - 1 < k) /\ (a - 1) + 1 = a
          BY <1>1, <2>1, <3>3
        <4>2. t[a - 1] = x
          BY <2>3, <3>1, <4>1
        <4> QED
          BY <2>4, <4>1, <4>2
      <3> QED
        BY <1>1, <2>1, <2>7, <3>1, <3>2, <3>3
    <2>8. ToSet(t) = ToSet(list) \ {h}
      BY <2>6, <2>7
    <2> QED
      BY <2>2, <2>3, <2>4, <2>5, <2>8 DEF Distinct
  <1> QED
    BY <1>2, <1>3

LEMMA PushIs ==
  ASSUME NEW S, NEW list \in Seq(S), Distinct(list), NEW h \in S, h \notin ToSet(list)
  PROVE  /\ <<h>> \o list \in Seq(S) /\ Distinct(<<h>> \o list)
         /\ ToSet(<<h>> \o list) = ToSet(list) \cup {h}
         /\ <<h>> \o list # <<>>
  <1> DEFINE n == Len(list)
  <1>1. /\ n \in Nat /\ DOMAIN list = 1..n
        /\ \A x : x \in ToSet(list) <=> \E i \in 1..n : list[i] = x
    BY SetOf
  <1>a. PICK one : one = <<h>>
    OBVIOUS
  <1>b. one \in Seq(S) /\ Len(one) = 1 /\ one[1] = h
    BY <1>a
  <1>2. PICK t : t = <<h>> \o list
    OBVIOUS
  <1>3. /\ t \in Seq(S) /\ Len(t) = 1 + n
        /\ \A i \in 1..(1 + n) : t[i] = IF i <= 1 THEN one[i] ELSE list[i - 1]
    <2>1. /\ one \o list \in Seq(S) /\ Len(one \o list) = Len(one) + Len(list)
          /\ \A i \in 1..(Len(one) + Len(list)) :
               (one \o list)[i] = IF i <= Len(one) THEN one[i] ELSE list[i - Len(one)]
      BY ONLY <1>b, list \in Seq(S), ConcatProperties
    <2> QED
      BY <1>a, <1>b, <1>2, <2>1
  <1>4. /\ DOMAIN t = 1..(1 + n) /\ (\A x : x \in ToSet(t) <=> \E i \in 1..(1 + n) : t[i] = x)
        /\ t # <<>>
    BY <1>1, <1>3, SetOf
  <1>5. t[1] = h /\ 1 \in 1..(1 + n) /\ \A i \in 1..n : i + 1 \in 1..(1 + n) /\ t[i + 1] = list[i]
    <2>1. t[1] = h /\ 1 \in 1..(1 + n)
      BY <1>1, <1>b, <1>3
    <2>2. ASSUME NEW i \in 1..n PROVE i + 1 \in 1..(1 + n) /\ t[i + 1] = list[i]
      <3>1. i + 1 \in 1..(1 + n) /\ ~(i + 1 <= 1) /\ (i + 1) - 1 = i
        BY <1>1
      <3> QED
        BY <1>3, <3>1
    <2> QED
      BY <2>1, <2>2
  <1>6. \A i \in 1..(1 + n) : i = 1 \/ (i - 1 \in 1..n /\ (i - 1) + 1 = i)
    BY <1>1
  <1>7. ASSUME NEW i \in 1..(1 + n) PROVE i = 1 \/ (i - 1 \in 1..n /\ t[i] = list[i - 1])
    BY <1>5, <1>6
  <1>8. ASSUME NEW i \in 1..(1 + n), NEW j \in 1..(1 + n), t[i] = t[j] PROVE i = j
    <2>1. CASE i = 1 /\ j = 1
      BY <2>1
    <2>2. CASE i = 1 /\ j # 1
      BY <1>1, <1>5, <1>7, <1>8, <2>2
    <2>3. CASE i # 1 /\ j = 1
      BY <1>1, <1>5, <1>7, <1>8, <2>3
    <2>4. CASE i # 1 /\ j # 1
      <3>1. i - 1 = j - 1
        BY <1>1, <1>7, <1>8, <2>4 DEF Distinct
      <3> QED
        BY <1>1, <3>1
    <2> QED
      BY <2>1, <2>2, <2>3, <2>4
  <1>9. ToSet(t) = ToSet(list) \cup {h}
    <2>1. ASSUME NEW x \in ToSet(t) PROVE x \in ToSet(list) \cup {h}
      BY <1>1, <1>4, <1>5, <1>7
    <2>2. ASSUME NEW x \in ToSet(list) PROVE x \in ToSet(t)
      BY <1>1, <1>4, <1>5
    <2>3. h \in ToSet(t)
      BY <1>4, <1>5
    <2> QED
      BY <2>1, <2>2, <2>3
  <1> QED
    BY <1>2, <1>3, <1>4, <1>8, <1>9 DEF Distinct

LEMMA NextIs ==
  ASSUME NEW S, NEW list \in Seq(S), Distinct(list), NEW h \in ToSet(list)
  PROVE  /\ NextOf(list, h) \in ToSet(list) \cup {0}
         /\ NextOf(list, h) = h => NextOf(list, h) = 0
  <1> DEFINE n == Len(list)
             k == CHOOSE i \in DOMAIN list : list[i] = h
  <1>1. /\ n \in Nat /\ DOMAIN list = 1..n
        /\ \A x : x \in ToSet(list) <=> \E i \in 1..n : list[i] = x
    BY SetOf
  <1>2. k \in 1..n /\ list[k] = h
    BY <1>1
  <1>3. NextOf(list, h) = IF k < n THEN list[k + 1] ELSE 0
    BY DEF NextOf
  <1> HIDE DEF k
  <1>4. CASE k < n
    <2>1. k + 1 \in 1..n /\ k + 1 # k
      BY <1>1, <1>2, <1>4
    <2>2. list[k + 1] # h
      BY <1>1, <1>2, <2>1 DEF Distinct
    <2> QED
      BY <1>1, <1>3, <1>4, <2>1, <2>2
  <1>5. CASE ~(k < n)
    BY <1>3, <1>5
  <1> QED
    BY <1>4, <1>5

LEMMA MovedCursor ==
  ASSUME NEW S, NEW list \in Seq(S), Distinct(list), DOMAIN loop = LoopFields,
         NEW next \in ToSet(list) \cup {0}
  PROVE  Moved(list, next).at = loop.at /\ Cursor(Moved(list, next), list)
  <1>1. CASE next = 0
    BY <1>1, MovedIs DEF Cursor
  <1>2. CASE next # 0
    BY <1>2, MovedIs, NextIs DEF Cursor
  <1> QED
    BY <1>1, <1>2

LEMMA FindIs ==
  ASSUME ListsInv, NEW player
  PROVE  /\ find_shandle(player) = 0 \/ find_shandle(player) \in ToSet(shandles)
         /\ find_shandle(player) # 0 => sh[find_shandle(player)].player = player
         /\ find_shandle(player) = 0 => \A h \in ToSet(shandles) : sh[h].player # player
         /\ 0 \notin ToSet(shandles)
  <1> DEFINE has == {i \in DOMAIN shandles : sh[shandles[i]].player = player}
             k == CHOOSE i \in has : \A j \in has : i <= j
  <1>1. /\ Len(shandles) \in Nat /\ DOMAIN shandles = 1..Len(shandles)
        /\ \A x : x \in ToSet(shandles) <=> \E i \in 1..Len(shandles) : shandles[i] = x
        /\ ToSet(shandles) \subseteq Handle
    BY SetOf DEF ListsInv
  <1>2. 0 \notin ToSet(shandles)
    BY <1>1 DEF Handle
  <1>3. has \subseteq Nat
    BY <1>1
  <1>4. find_shandle(player) = IF has = {} THEN 0 ELSE shandles[k]
    BY DEF find_shandle
  <1>5. CASE has = {}
    BY <1>1, <1>2, <1>4, <1>5
  <1>6. CASE has # {}
    <2>1. \E x \in has : \A y \in has : x <= y
      BY <1>3, <1>6, LeastNumber
    <2>2. k \in has
      BY <2>1
    <2> QED
      BY <1>1, <1>2, <1>4, <1>6, <2>2
  <1> QED
    BY <1>5, <1>6

-----------------------------------------------------------------------------
(* Steps that leave connections and users alone.                           *)

\* What the invariant sees of a handle.
SameRow(r, s) == DOMAIN r = ShFields /\ r.player = s.player /\ r.logged = s.logged

SameLists ==
  /\ UNCHANGED <<shandles, nhandles>>
  /\ DOMAIN sh' = Handle /\ \A h \in ToSet(shandles) : SameRow(sh'[h], sh[h])
  /\ DOMAIN did' = DidFields /\ did'.conns = did.conns /\ did'.unconnected = did.unconnected

LEMMA RowsKept ==
  ASSUME NEW S, NEW T, NEW list, NEW some, NEW low, Rows(S, list, low),
         ToSet(some) \subseteq ToSet(list), \A h \in ToSet(some) : SameRow(T[h], S[h])
  PROVE  Rows(T, some, low)
  BY DEF Rows, SameRow

LEMMA KnownKept ==
  ASSUME NEW S, NEW T, NEW list, NEW online, NEW users, NEW skip,
         Known(S, list, online, users, skip), \A h \in ToSet(list) : SameRow(T[h], S[h])
  PROVE  Known(T, list, online, users, skip)
  BY DEF Known, SameRow

LEMMA Unchanged ==
  ASSUME ListsInv, UNCHANGED <<sh, shandles, nhandles, did>>
  PROVE  SameLists
  BY DEF ListsInv, SameLists, SameRow, Rows

LEMMA ListsKept ==
  ASSUME ListsInv, SameLists, job'.open = 1 \/ loop'.at = "connect" => did.conns < MaxConn
  PROVE  ListsInv'
  <1>1. Rows(sh', shandles, did.unconnected)
    BY RowsKept DEF ListsInv, SameLists
  <1> QED
    BY <1>1 DEF ListsInv, SameLists

\* In the middle of a verb.
LEMMA BusyFrame ==
  ASSUME HandleInv, SameLists, UNCHANGED <<db, disk>>, Busy, Busy',
         job'.then = job.then, job'.h = job.h, job'.name = job.name,
         loop'.h = loop.h, loop'.next = loop.next, loop'.at # "undefined",
         job'.open = 1 \/ loop'.at = "connect" => did.conns < MaxConn
  PROVE  HandleInv'
  <1>1. ListsInv'
    BY ListsKept DEF HandleInv
  <1>2. Leaving' = Leaving /\ Joining' = Joining /\ Skip' = Skip
    BY DEF Leaving, Joining, Skip
  <1>3. loop'.at \notin {"io", "sweep"} /\ loop.at \notin {"io", "sweep"}
    BY DEF Busy
  <1>4. Cursor(loop, shandles) => Cursor(loop', shandles')
    BY DEF Cursor, SameLists
  <1>5. Leaving => sh'[job.h].player = sh[job.h].player
    <2>1. Leaving => job.h \in ToSet(shandles)
      BY DEF HandleInv, CursorInv, Cursor
    <2> QED
      BY <2>1 DEF SameLists, SameRow
  <1>6. CursorInv'
    BY <1>2, <1>3, <1>4, <1>5 DEF HandleInv, CursorInv, SameLists
  <1>7. Known(sh', shandles', db'.online, db'.users, Skip')
    <2>1. PICK T, skip, online, users :
            T = sh' /\ skip = Skip /\ online = db.online /\ users = db.users
      OBVIOUS
    <2>2. Known(T, shandles, online, users, skip)
      BY <2>1, KnownKept DEF HandleInv, OnlineInv, SameLists
    <2> QED
      BY <1>2, <2>1, <2>2 DEF SameLists
  <1> QED
    BY <1>1, <1>6, <1>7 DEF HandleInv, OnlineInv

\* Between verbs; with the dump that Dump may make.
LEMMA FreeFrame ==
  ASSUME HandleInv, SameLists, UNCHANGED db, Skip = 0, ~Busy',
         disk' = disk \/ disk' = [db |-> db, conns |-> write_active_connections],
         loop'.at # "undefined", job'.open # 1,
         loop'.at \in {"io", "sweep"} => Cursor(loop', shandles)
  PROVE  HandleInv'
  <1>1. ListsInv'
    BY ListsKept DEF HandleInv, Busy
  <1>2. ~Leaving' /\ ~Joining' /\ Skip' = 0
    BY DEF Leaving, Joining, Skip
  <1>3. CursorInv'
    BY <1>2 DEF HandleInv, CursorInv, SameLists
  <1>4. Known(sh', shandles', db'.online, db'.users, Skip')
    <2>1. PICK T, online, users : T = sh' /\ online = db.online /\ users = db.users
      OBVIOUS
    <2>2. Known(T, shandles, online, users, 0)
      BY <2>1, KnownKept DEF HandleInv, OnlineInv, SameLists
    <2> QED
      BY <1>2, <2>1, <2>2 DEF SameLists
  <1>5. db.online \cap db.users \subseteq write_active_connections
    BY DEF HandleInv, OnlineInv, Known, write_active_connections
  <1> QED
    BY <1>1, <1>3, <1>4, <1>5 DEF HandleInv, OnlineInv

\* A verb starts that tells nobody's coming or going.
LEMMA PlainRun ==
  ASSUME HandleInv, SameLists, UNCHANGED disk, Skip = 0, DOMAIN loop' = LoopFields,
         loop'.at = "verb", NEW name, ~Notifies(name), NEW player, NEW h, NEW then,
         then \notin {"close", "swept", "connected"}, Run(name, player, h, then, db)
  PROVE  HandleInv'
  <1>1. job'.open = 0 /\ job'.then = then
    BY RunNotOpen
  <1>2. ListsInv'
    BY <1>1, ListsKept DEF HandleInv
  <1>3. ~Leaving' /\ ~Joining' /\ Skip' = 0
    BY <1>1 DEF Leaving, Joining, Skip
  <1>4. DOMAIN db' = DOMAIN db /\ db'.users = db.users /\ db'.online = db.online
    BY DEF Run, Notifies, HandleInv, OnlineInv
  <1>5. CursorInv'
    BY <1>3 DEF HandleInv, CursorInv
  <1>6. Known(sh', shandles', db'.online, db'.users, Skip')
    <2>1. PICK T, online, users : T = sh' /\ online = db.online /\ users = db.users
      OBVIOUS
    <2>2. Known(T, shandles, online, users, 0)
      BY <2>1, KnownKept DEF HandleInv, OnlineInv, SameLists
    <2> QED
      BY <1>3, <1>4, <2>1, <2>2 DEF SameLists
  <1> QED
    BY <1>2, <1>4, <1>5, <1>6 DEF HandleInv, OnlineInv

-----------------------------------------------------------------------------
(* Connections come and go.                                                *)

\* The database is told that the connection at the cursor goes.
LEMMA OfflineRun ==
  ASSUME HandleInv, SameLists, UNCHANGED disk, Skip = 0, loop.at \in {"io", "sweep"}, loop.h # 0,
         loop'.at = "verb", loop'.h = loop.h, loop'.next = loop.next,
         NEW name, Offline(name), NEW then \in {"close", "swept"},
         Run(name, sh[loop.h].player, loop.h, then, db)
  PROVE  HandleInv'
  <1> DEFINE p == sh[loop.h].player
  <1>1. job'.open = 0 /\ job'.then = then /\ job'.name = name /\ job'.h = loop.h
    BY RunNotOpen
  <1>2. ListsInv'
    BY <1>1, ListsKept DEF HandleInv
  <1>3. Leaving' /\ ~Joining' /\ Skip' = loop.h
    BY <1>1 DEF Leaving, Joining, Skip, Busy
  <1>4. Cursor(loop, shandles) /\ loop.h \in ToSet(shandles)
    BY DEF HandleInv, CursorInv, Cursor
  <1>5. DOMAIN db' = DOMAIN db /\ db'.users = db.users /\ db'.online = db.online \ {p}
    BY DEF Run, HandleInv, OnlineInv
  <1>6. \A g \in ToSet(shandles) : sh'[g].player = sh[g].player
    BY DEF SameLists, SameRow
  <1>7. CursorInv'
    BY <1>1, <1>3, <1>4, <1>5, <1>6 DEF CursorInv, Cursor, SameLists, Notifies
  <1>8. \A g \in ToSet(shandles) : sh[g].player = p => g = loop.h
    BY <1>4 DEF HandleInv, ListsInv, Rows
  <1>9. Known(sh, shandles, db.online, db.users, 0)
    BY DEF HandleInv, OnlineInv
  <1> HIDE DEF p
  <1>10. Known(sh', shandles, db'.online, db'.users, loop.h)
    <2>1. ASSUME NEW u \in db'.online \cap db'.users
          PROVE  \E g \in ToSet(shandles) : sh'[g].player = u
      BY <1>5, <1>6, <1>9 DEF Known
    <2>2. ASSUME NEW g \in ToSet(shandles), sh'[g].player \in User, g # loop.h
          PROVE  sh'[g].player \in db'.online
      <3>1. g # 0
        BY FindIs DEF HandleInv
      <3>2. sh[g].player \in db.online
        BY <1>6, <1>9, <2>2, <3>1 DEF Known
      <3> QED
        BY <1>5, <1>6, <1>8, <2>2, <3>2
    <2> QED
      BY <2>1, <2>2 DEF Known
  <1>11. OnlineInv'
    BY <1>3, <1>5, <1>10 DEF HandleInv, OnlineInv, SameLists
  <1> QED
    BY <1>2, <1>7, <1>11 DEF HandleInv

LEMMA NewLists ==
  ASSUME ListsInv, did.conns < MaxConn, job'.open # 1, loop'.at # "connect",
         NEW oid, NEW print, NEW outbound, NEW listens,
         NewConnection(oid, print, outbound, listens)
  PROVE  /\ ListsInv'
         /\ ToSet(shandles') = ToSet(shandles) \cup {did.conns + 1}
         /\ \A g \in ToSet(shandles) : sh'[g] = sh[g] /\ g # did.conns + 1
         /\ sh'[did.conns + 1].player \notin User
  <1>1. PICK h : h = did.conns + 1
    OBVIOUS
  <1>2. PICK row : row =
           [player |-> did.unconnected, listener |-> oid, logged |-> FALSE, age |-> 0,
            disconnect_me |-> FALSE, outbound |-> outbound, print |-> print,
            lines |-> IF listens THEN 1 ELSE 0]
    OBVIOUS
  <1>3. /\ sh' = [sh EXCEPT ![h] = row]
        /\ shandles' = <<h>> \o shandles /\ nhandles' = <<h>> \o nhandles
        /\ did' = [did EXCEPT !.conns = h, !.unconnected = did.unconnected - 1]
    BY <1>1, <1>2 DEF NewConnection
  <1>4. /\ did.conns \in Nat /\ MaxConn \in Nat /\ h \in Handle /\ h \in 0..MaxConn
        /\ \A g \in ToSet(shandles) : g # h
        /\ ToSet(shandles) \subseteq Handle
    BY <1>1, SetOf, ConnectionsAssumption, SMTT(30) DEF ListsInv, Handle
  <1>5. /\ DOMAIN row = ShFields /\ row.player = did.unconnected /\ row.logged = FALSE
    BY <1>2 DEF ShFields
  <1>6. /\ DOMAIN sh' = Handle /\ sh'[h] = row
        /\ \A g \in ToSet(shandles) : sh'[g] = sh[g]
    BY <1>3, <1>4 DEF ListsInv
  <1>7. /\ shandles' \in Seq(Handle) /\ Distinct(shandles')
        /\ ToSet(shandles') = ToSet(shandles) \cup {h}
    BY <1>3, <1>4, PushIs DEF ListsInv
  <1>8. nhandles' = shandles'
    BY <1>3 DEF ListsInv
  <1>9. /\ DOMAIN did' = DidFields /\ did'.conns = h
        /\ did'.unconnected = did.unconnected - 1
    BY <1>3 DEF ListsInv, DidFields
  <1>10. did.unconnected \in Int /\ did.unconnected < 0 /\ did.unconnected \notin User
    BY ConnectionsAssumption DEF ListsInv
  <1>11. Rows(sh', shandles', did'.unconnected)
    <2>1. ASSUME NEW g \in ToSet(shandles)
          PROVE  /\ DOMAIN sh'[g] = ShFields
                 /\ sh'[g].player \in Int /\ sh'[g].player > did'.unconnected
                 /\ sh'[g].player < 0 \/ sh'[g].player \in User
                 /\ sh'[g].logged = (sh'[g].player \in User)
                 /\ sh'[g].player # did.unconnected
      <3>1. /\ DOMAIN sh[g] = ShFields
            /\ sh[g].player \in Int /\ sh[g].player > did.unconnected
            /\ sh[g].player < 0 \/ sh[g].player \in User
            /\ sh[g].logged = (sh[g].player \in User)
        BY DEF ListsInv, Rows
      <3> QED
        BY <1>6, <1>9, <1>10, <3>1
    <2>2. /\ DOMAIN sh'[h] = ShFields
          /\ sh'[h].player \in Int /\ sh'[h].player > did'.unconnected
          /\ sh'[h].player < 0 \/ sh'[h].player \in User
          /\ sh'[h].logged = (sh'[h].player \in User)
          /\ sh'[h].player = did.unconnected
      <3>1. /\ DOMAIN sh'[h] = ShFields /\ sh'[h].player = did.unconnected
            /\ sh'[h].logged = FALSE
        BY <1>5, <1>6
      <3>2. sh'[h].player \in Int /\ sh'[h].player > did'.unconnected /\ sh'[h].player < 0
        BY <1>9, <1>10, <3>1
      <3>3. (sh'[h].player \in User) = FALSE
        BY <1>10, <3>1
      <3> QED
        BY ONLY <3>1, <3>2, <3>3
    <2>3. \A f, g \in ToSet(shandles) : sh'[f].player = sh'[g].player => f = g
      BY <1>6 DEF ListsInv, Rows
    <2> QED
      BY <1>7, <2>1, <2>2, <2>3 DEF Rows
  <1>12. ListsInv'
    <2>1. did'.conns \in 0..MaxConn /\ \A g \in ToSet(shandles') : g <= did'.conns
      BY <1>1, <1>4, <1>7, <1>9 DEF ListsInv, Handle
    <2>2. did'.unconnected \in Int /\ did'.unconnected < 0
      BY <1>9, <1>10
    <2> QED
      BY <1>6, <1>7, <1>8, <1>9, <1>11, <2>1, <2>2 DEF ListsInv
  <1> QED
    BY <1>1, <1>4, <1>5, <1>6, <1>7, <1>10, <1>12

\* The database does not hear of a new connection until it logs in.
LEMMA NewKnown ==
  ASSUME HandleInv, UNCHANGED <<db, disk>>, Skip' = Skip, NEW h,
         ToSet(shandles') = ToSet(shandles) \cup {h}, sh'[h].player \notin User,
         \A g \in ToSet(shandles) : sh'[g] = sh[g]
  PROVE  OnlineInv'
  <1>1. Known(sh, shandles, db.online, db.users, Skip)
    BY DEF HandleInv, OnlineInv
  <1>2. Known(sh', shandles', db.online, db.users, Skip)
    BY <1>1 DEF Known
  <1> QED
    BY <1>2 DEF HandleInv, OnlineInv

LEMMA FreedLists ==
  ASSUME ListsInv, UNCHANGED did, job'.open # 1, loop'.at # "connect", NEW h, Freed(h)
  PROVE  /\ ListsInv' /\ ToSet(shandles') = ToSet(shandles) \ {h}
         /\ \A g \in ToSet(shandles') : sh'[g] = sh[g]
  <1>1. /\ sh' = [sh EXCEPT ![h] = Gone] /\ shandles' = Without(shandles, h)
        /\ nhandles' = Without(nhandles, h)
    BY DEF Freed
  <1>2. /\ shandles' \in Seq(Handle) /\ Distinct(shandles')
        /\ ToSet(shandles') = ToSet(shandles) \ {h}
    BY <1>1, WithoutIs DEF ListsInv
  <1>3. ToSet(shandles) \subseteq Handle
    BY SetOf DEF ListsInv
  <1>4. DOMAIN sh' = Handle /\ \A g \in ToSet(shandles') : sh'[g] = sh[g]
    BY <1>1, <1>2, <1>3 DEF ListsInv
  <1>5. nhandles' = shandles'
    BY <1>1 DEF ListsInv
  <1>6. \A g \in ToSet(shandles') : SameRow(sh'[g], sh[g])
    BY <1>2, <1>4 DEF SameRow, ListsInv, Rows
  <1>7. Rows(sh', shandles', did.unconnected)
    <2>1. PICK T, some, low : T = sh' /\ some = shandles' /\ low = did.unconnected
      OBVIOUS
    <2>2. Rows(T, some, low)
      BY <1>2, <1>6, <2>1, RowsKept DEF ListsInv
    <2> QED
      BY <2>1, <2>2
  <1> QED
    BY <1>2, <1>4, <1>5, <1>7 DEF ListsInv

\* A connection goes that the database does not take to be online.
LEMMA FreedKnown ==
  ASSUME HandleInv, UNCHANGED <<db, disk>>, NEW h, Skip \in {0, h}, Skip' = 0,
         sh[h].player \notin db.online \cap db.users,
         ToSet(shandles') = ToSet(shandles) \ {h},
         \A g \in ToSet(shandles') : sh'[g] = sh[g]
  PROVE  OnlineInv'
  <1>1. Known(sh, shandles, db.online, db.users, Skip) /\ 0 \notin ToSet(shandles)
    BY FindIs DEF HandleInv, OnlineInv
  <1>2. Known(sh', shandles', db.online, db.users, 0)
    BY <1>1 DEF Known
  <1> QED
    BY <1>2 DEF HandleInv, OnlineInv

\* Fields that the invariant does not look at.
LEMMA OtherFields ==
  ASSUME ListsInv, NEW h \in ToSet(shandles), NEW row,
         SameRow(row, sh[h]), sh' = [sh EXCEPT ![h] = row],
         UNCHANGED <<shandles, nhandles>>,
         DOMAIN did' = DidFields, did'.conns = did.conns, did'.unconnected = did.unconnected
  PROVE  SameLists
  <1>1. ToSet(shandles) \subseteq Handle /\ DOMAIN sh = Handle
    BY SetOf DEF ListsInv
  <1>2. ASSUME NEW g \in ToSet(shandles) PROVE SameRow(sh'[g], sh[g])
    <2>1. CASE g = h
      BY <1>1, <2>1
    <2>2. CASE g # h
      BY <1>1, <2>2 DEF SameRow, ListsInv, Rows
    <2> QED
      BY <2>1, <2>2
  <1> QED
    BY <1>1, <1>2 DEF SameLists

LEMMA FirstCursor ==
  ASSUME ListsInv, DOMAIN loop = LoopFields, NEW where,
         loop' = [Moved(shandles, IF shandles = <<>> THEN 0 ELSE Head(shandles)) EXCEPT !.at = where]
  PROVE  loop'.at = where /\ Cursor(loop', shandles)
  <1> DEFINE next == IF shandles = <<>> THEN 0 ELSE Head(shandles)
             m == Moved(shandles, next)
  <1>1. next \in ToSet(shandles) \cup {0}
    <2>1. shandles # <<>> => Head(shandles) = shandles[1] /\ 1 \in 1..Len(shandles)
      BY HeadTailProperties, EmptySeq, LenProperties DEF ListsInv
    <2> QED
      BY <2>1, SetOf DEF ListsInv
  <1> HIDE DEF next
  <1>2. Cursor(m, shandles) /\ DOMAIN m = LoopFields
    BY <1>1, MovedCursor, MovedIs DEF ListsInv
  <1> HIDE DEF m
  <1>3. loop' = [m EXCEPT !.at = where]
    BY DEF m, next
  <1>4. loop'.at = where /\ loop'.h = m.h /\ loop'.next = m.next
    BY <1>2, <1>3 DEF LoopFields
  <1> QED
    BY <1>2, <1>4 DEF Cursor

LEMMA HandleAccept == ASSUME TimerInv, LookupInv, HandleInv, AcceptFinish PROVE HandleInv'
  <1>1. /\ loop.at = "lookup" /\ job.open = 0 /\ UNCHANGED <<job, db, disk>>
        /\ loop' = [loop EXCEPT !.at = "accept", !.ports = Tail(loop.ports)]
    BY DEF AcceptFinish
  <1>2. loop'.at = "accept" /\ DOMAIN loop' = LoopFields
    BY <1>1 DEF TimerInv, LoopFields
  <1>3. ~Busy /\ ~Busy' /\ Skip = 0 /\ Skip' = 0
    BY <1>1, <1>2 DEF Busy, Skip, Leaving, Joining
  <1>4. CASE FdsUsed < MaxFds /\ did.conns < MaxConn
    <2>1. PICK oid, print, outbound, listens : NewConnection(oid, print, outbound, listens)
      <3>1. \E oid, print : NewConnection(oid, print, FALSE, TRUE)
        BY <1>4 DEF AcceptFinish
      <3> QED
        BY <3>1, Zenon
    <2>a. ListsInv /\ job'.open # 1 /\ loop'.at # "connect" /\ did.conns < MaxConn
      BY <1>1, <1>2, <1>4 DEF HandleInv
    <2>2. /\ ListsInv'
          /\ ToSet(shandles') = ToSet(shandles) \cup {did.conns + 1}
          /\ \A g \in ToSet(shandles) : sh'[g] = sh[g]
          /\ sh'[did.conns + 1].player \notin User
      BY ONLY <2>1, <2>a, NewLists
    <2>3. PICK h : h = did.conns + 1
      OBVIOUS
    <2>4. OnlineInv'
      BY <1>1, <1>3, <2>2, <2>3, NewKnown
    <2>5. CursorInv'
      BY <1>2, <1>3 DEF CursorInv, Leaving, Joining
    <2> QED
      BY <2>2, <2>4, <2>5 DEF HandleInv
  <1>5. CASE ~(FdsUsed < MaxFds /\ did.conns < MaxConn)
    <2>1. UNCHANGED <<sh, shandles, nhandles, did>>
      BY <1>5 DEF AcceptFinish
    <2> QED
      BY <1>1, <1>2, <1>3, <2>1, Unchanged, FreeFrame DEF HandleInv
  <1> QED
    BY <1>4, <1>5

LEMMA HandleLoop == ASSUME TimerInv, LookupInv, HandleInv, LoopStep, ~Shutdown PROVE HandleInv'
  <1>0. DOMAIN loop = LoopFields /\ DOMAIN job = JobFields /\ (loop.at # "lookup" => job.open = 0)
        /\ ListsInv /\ CursorInv
    BY DEF TimerInv, LookupInv, HandleInv
  <1>a. loop.at \notin {"verb", "connect", "lookup"} => ~Busy /\ Skip = 0
    BY DEF Busy, Skip, Leaving, Joining
  <1>b. /\ nhandles = shandles /\ shandles \in Seq(Handle) /\ Distinct(shandles)
        /\ ToSet(shandles) \subseteq Handle /\ 0 \notin ToSet(shandles)
    BY <1>0, SetOf, FindIs DEF ListsInv
  <1>c. \A h \in ToSet(shandles) : DOMAIN sh[h] = ShFields
    BY <1>0 DEF ListsInv, Rows
  <1>d. DOMAIN sh = Handle /\ DOMAIN did = DidFields
    BY <1>0 DEF ListsInv
  <1>1. CASE Select
    <2>1. UNCHANGED <<sh, shandles, nhandles, did, job, db, disk>> /\ loop.at \in {"wait", "top"}
          /\ loop'.at = "accept"
      BY <1>1, <1>0 DEF Select, LoopFields
    <2>2. ~Busy'
      BY <2>1 DEF Busy
    <2> QED
      BY <1>0, <1>a, <2>1, <2>2, Unchanged, FreeFrame
  <1>2. CASE AcceptStart
    <2>1. UNCHANGED <<sh, shandles, nhandles, did, job, db, disk>> /\ loop.at = "accept"
          /\ loop'.at = "lookup"
      BY <1>2, <1>0, GoIs DEF AcceptStart
    <2>2. ~Busy'
      BY <1>0, <2>1 DEF Busy
    <2> QED
      BY <1>0, <1>a, <2>1, <2>2, Unchanged, FreeFrame
  <1>3. CASE AcceptFinish
    BY <1>3, HandleAccept
  <1>4. CASE AcceptDone
    <2>1. UNCHANGED <<sh, shandles, nhandles, did, job, db, disk>> /\ loop.at = "accept"
          /\ loop' = [Moved(shandles, IF shandles = <<>> THEN 0 ELSE Head(shandles)) EXCEPT !.at = "io"]
      BY <1>4, <1>b DEF AcceptDone
    <2>2. loop'.at = "io" /\ Cursor(loop', shandles)
      BY ONLY <1>0, <2>1, FirstCursor
    <2>3. ~Busy'
      BY <2>2 DEF Busy
    <2> QED
      BY <1>0, <1>a, <2>1, <2>2, <2>3, Unchanged, FreeFrame
  <1>5. CASE IoDone
    <2>1. UNCHANGED <<sh, shandles, nhandles, did, job, db, disk>> /\ loop.at = "io"
          /\ loop'.at \in {"dump", "tasks"}
      BY <1>5, <1>0, GoIs DEF IoDone
    <2>2. ~Busy'
      BY <2>1 DEF Busy
    <2> QED
      BY <1>0, <1>a, <2>1, <2>2, Unchanged, FreeFrame
  <1>6. ASSUME NEW room \in Rooms, IoServes(room) PROVE HandleInv'
    <2>1. PICK h, n, row :
            /\ h = loop.h /\ n = Len(Served(h, room).n.lines) - Len(nh[h].lines)
            /\ row = [sh[h] EXCEPT !.lines = sh[h].lines + n,
                                   !.age = IF n > 0 THEN 0 ELSE sh[h].age]
      OBVIOUS
    <2>2. /\ loop.at = "io" /\ h # 0 /\ UNCHANGED <<shandles, nhandles, did, job, db, disk>>
          /\ loop' = Moved(nhandles, loop.next)
          /\ sh' = [sh EXCEPT ![h].lines = sh[h].lines + n, ![h].age = IF n > 0 THEN 0 ELSE sh[h].age]
      BY <1>6, <2>1 DEF IoServes
    <2>3. Cursor(loop, shandles) /\ h \in ToSet(shandles)
      BY <1>0, <2>1, <2>2 DEF CursorInv, Cursor
    <2>4. sh' = [sh EXCEPT ![h] = row]
      BY <1>b, <1>c, <1>d, <2>1, <2>2, <2>3
    <2>5. SameRow(row, sh[h])
      BY <1>c, <2>1, <2>3 DEF SameRow, ShFields
    <2>6. SameLists
      BY <1>0, <1>d, <2>2, <2>3, <2>4, <2>5, OtherFields
    <2>7. loop'.at = "io" /\ Cursor(loop', shandles)
      <3>1. loop.next \in ToSet(shandles) \cup {0}
        BY <2>3 DEF Cursor
      <3> QED
        BY <1>0, <1>b, <2>2, <3>1, MovedCursor
    <2>8. ~Busy'
      BY <2>7 DEF Busy
    <2> QED
      BY <1>0, <1>a, <2>2, <2>6, <2>7, <2>8, FreeFrame
  <1>7. ASSUME NEW room \in Rooms, IoCloses(room) PROVE HandleInv'
    <2>1. PICK h, row : h = loop.h /\ row = [sh[h] EXCEPT !.disconnect_me = TRUE]
      OBVIOUS
    <2>2. /\ loop.at = "io" /\ h # 0 /\ UNCHANGED <<shandles, nhandles, did, disk>>
          /\ Run("user_client_disconnected", sh[loop.h].player, loop.h, "close", db)
          /\ sh' = [sh EXCEPT ![h].disconnect_me = TRUE]
          /\ Go("verb")
      BY <1>7, <2>1 DEF IoCloses
    <2>3. h \in ToSet(shandles)
      BY <1>0, <2>1, <2>2 DEF CursorInv, Cursor
    <2>4. sh' = [sh EXCEPT ![h] = row]
      BY <1>b, <1>c, <1>d, <2>1, <2>2, <2>3
    <2>5. SameRow(row, sh[h])
      BY <1>c, <2>1, <2>3 DEF SameRow, ShFields
    <2>6. SameLists
      BY <1>0, <1>d, <2>2, <2>3, <2>4, <2>5, OtherFields
    <2>7. loop'.at = "verb" /\ loop'.h = loop.h /\ loop'.next = loop.next
      BY <1>0, <2>2, GoIs
    <2>8. Offline("user_client_disconnected")
      BY DEF Offline
    <2> QED
      BY <1>0, <1>a, <2>1, <2>2, <2>6, <2>7, <2>8, OfflineRun
  <1>8. CASE CheckpointStarted
    <2>1. UNCHANGED <<sh, shandles, nhandles, did, disk>> /\ loop.at = "top" /\ loop'.at = "verb"
          /\ Run("checkpoint_started", 0, 0, "wait", db) /\ DOMAIN loop' = LoopFields
      BY <1>8, <1>0 DEF CheckpointStarted, LoopFields
    <2>2. ~Notifies("checkpoint_started")
      BY DEF Notifies, Offline, Online
    <2> QED
      BY <1>0, <1>a, <2>1, <2>2, Unchanged, PlainRun
  <1>9. CASE Dump
    <2>1. UNCHANGED <<sh, shandles, nhandles, did, job, db>> /\ loop.at = "dump" /\ loop'.at = "wait"
          /\ disk' = [db |-> db, conns |-> write_active_connections]
      BY <1>9, <1>0 DEF Dump, LoopFields
    <2>2. ~Busy'
      BY <2>1 DEF Busy
    <2> QED
      BY <1>0, <1>a, <2>1, <2>2, Unchanged, FreeFrame
  <1>11. ASSUME NEW h \in Handle, RunInput(h) PROVE HandleInv'
    <2>1. PICK row : row = [sh[h] EXCEPT !.lines = sh[h].lines - 1]
      OBVIOUS
    <2>2. /\ loop.at = "tasks" /\ h \in ToSet(shandles) /\ UNCHANGED <<shandles, nhandles, did, disk>>
          /\ sh' = [sh EXCEPT ![h].lines = sh[h].lines - 1]
          /\ Go("verb")
          /\ \/ Run("do_login_command", 0, h, "login", db)
             \/ Run("command", 0, h, "tasks", db)
      BY <1>11 DEF RunInput
    <2>3. sh' = [sh EXCEPT ![h] = row]
      BY <1>b, <1>c, <1>d, <2>1, <2>2
    <2>4. SameRow(row, sh[h])
      BY <1>c, <2>1, <2>2 DEF SameRow, ShFields
    <2>5. SameLists
      BY <1>0, <1>d, <2>2, <2>3, <2>4, OtherFields
    <2>6. ~Notifies("do_login_command") /\ ~Notifies("command")
      BY DEF Notifies, Offline, Online
    <2>7. DOMAIN loop' = LoopFields /\ loop'.at = "verb"
      BY <1>0, <2>2, GoIs
    <2> QED
      BY <1>a, <2>2, <2>5, <2>6, <2>7, PlainRun
  <1>12. CASE RunTask
    <2>1. UNCHANGED <<sh, shandles, nhandles, disk>> /\ loop.at = "tasks" /\ Go("verb")
          /\ Run("task", 0, 0, "tasks", db) /\ did' = [did EXCEPT !.tasks = did.tasks + 1]
      BY <1>12 DEF RunTask
    <2>2. DOMAIN did' = DidFields /\ did'.conns = did.conns /\ did'.unconnected = did.unconnected
      BY <1>d, <2>1 DEF DidFields
    <2>3. SameLists
      BY <1>c, <1>d, <2>1, <2>2 DEF SameLists, SameRow
    <2>4. ~Notifies("task")
      BY DEF Notifies, Offline, Online
    <2>5. DOMAIN loop' = LoopFields /\ loop'.at = "verb"
      BY <1>0, <2>1, GoIs
    <2> QED
      BY <1>a, <2>1, <2>3, <2>4, <2>5, PlainRun
  <1>13. CASE TasksDone
    <2>1. UNCHANGED <<sh, shandles, nhandles, did, job, db, disk>> /\ loop.at = "tasks"
          /\ loop' = [Moved(shandles, IF shandles = <<>> THEN 0 ELSE Head(shandles)) EXCEPT !.at = "sweep"]
      BY <1>13 DEF TasksDone
    <2>2. loop'.at = "sweep" /\ Cursor(loop', shandles)
      BY ONLY <1>0, <2>1, FirstCursor
    <2>3. ~Busy'
      BY <2>2 DEF Busy
    <2> QED
      BY <1>0, <1>a, <2>1, <2>2, <2>3, Unchanged, FreeFrame
  <1>14. CASE SweepTells
    <2>1. /\ loop.at = "sweep" /\ loop.h # 0 /\ UNCHANGED <<sh, shandles, nhandles, did, disk>>
          /\ Run("user_disconnected", sh[loop.h].player, loop.h, "swept", db)
          /\ Go("verb")
      BY <1>14 DEF SweepTells, Sweeping
    <2>2. loop'.at = "verb" /\ loop'.h = loop.h /\ loop'.next = loop.next
      BY <1>0, <2>1, GoIs
    <2>3. Offline("user_disconnected")
      BY DEF Offline
    <2>4. SameLists
      BY <1>0, <2>1, Unchanged
    <2> QED
      BY <1>a, <2>1, <2>2, <2>3, <2>4, OfflineRun
  <1>15. CASE SweepRecycled
    <2>1. /\ loop.at = "sweep" /\ loop.h # 0 /\ Freed(loop.h) /\ UNCHANGED <<did, job, db, disk>>
          /\ loop' = Moved(shandles', loop.next) /\ sh[loop.h].player \notin db.users
      BY <1>15 DEF SweepRecycled, Sweeping, Recycled
    <2>2. Cursor(loop, shandles)
      BY <1>0, <2>1 DEF CursorInv
    <2>3. loop'.at # "connect"
      BY <1>0, <2>1, MovedIs
    <2>4. /\ ListsInv' /\ ToSet(shandles') = ToSet(shandles) \ {loop.h}
          /\ \A g \in ToSet(shandles') : sh'[g] = sh[g]
      BY <1>0, <2>1, <2>3, FreedLists
    <2>5. loop.next \in ToSet(shandles') \cup {0}
      BY <2>1, <2>2, <2>4 DEF Cursor
    <2>6. loop'.at = "sweep" /\ Cursor(loop', shandles')
      <3>1. PICK list, next : list = shandles' /\ next = loop.next
        OBVIOUS
      <3>2. list \in Seq(Handle) /\ Distinct(list) /\ next \in ToSet(list) \cup {0}
        BY <2>4, <2>5, <3>1 DEF ListsInv
      <3>3. Moved(list, next).at = loop.at /\ Cursor(Moved(list, next), list)
        BY ONLY <1>0, <3>2, MovedCursor
      <3> QED
        BY <2>1, <3>1, <3>3
    <2>7. ~Busy' /\ Skip' = 0
      BY <2>6 DEF Busy, Skip, Leaving, Joining
    <2>8. OnlineInv'
      <3>1. PICK h : h = loop.h
        OBVIOUS
      <3> QED
        BY <1>a, <2>1, <2>4, <2>7, <3>1, FreedKnown
    <2>9. CursorInv'
      BY <2>6, <2>7 DEF CursorInv, Leaving, Joining
    <2> QED
      BY <2>4, <2>8, <2>9 DEF HandleInv
  <1>16. CASE SweepKeeps
    <2>1. UNCHANGED <<sh, shandles, nhandles, did, job, db, disk>> /\ loop.at = "sweep"
          /\ loop' = Moved(shandles, loop.next)
      BY <1>16 DEF SweepKeeps, Sweeping
    <2>2. loop.next \in ToSet(shandles) \cup {0}
      BY <1>0, <2>1 DEF CursorInv, Cursor
    <2>3. loop'.at = "sweep" /\ Cursor(loop', shandles)
      BY <1>0, <1>b, <2>1, <2>2, MovedCursor
    <2>4. ~Busy'
      BY <2>3 DEF Busy
    <2> QED
      BY <1>0, <1>a, <2>1, <2>3, <2>4, Unchanged, FreeFrame
  <1>17. CASE SweepDone
    <2>1. UNCHANGED <<sh, shandles, nhandles, did, job, db, disk>> /\ loop.at = "sweep"
          /\ loop'.at = "top"
      BY <1>17, <1>0, GoIs DEF SweepDone
    <2>2. ~Busy'
      BY <2>1 DEF Busy
    <2> QED
      BY <1>0, <1>a, <2>1, <2>2, Unchanged, FreeFrame
  <1> QED
    BY <1>1, <1>2, <1>3, <1>4, <1>5, <1>6, <1>7, <1>8, <1>9, <1>11, <1>12, <1>13,
       <1>14, <1>15, <1>16, <1>17 DEF LoopStep

\* The connection h becomes that of the user u, and the one u had goes.
Owned(row, u) == DOMAIN row = ShFields /\ row.player = u /\ row.logged = TRUE
Replaced(h, row, existing) ==
  /\ sh' = IF existing = 0 THEN [sh EXCEPT ![h] = row]
           ELSE [[sh EXCEPT ![h] = row] EXCEPT ![existing] = Gone]
  /\ shandles' = Without(shandles, existing) /\ nhandles' = Without(nhandles, existing)

LEMMA TakeOver ==
  ASSUME ListsInv, NEW h \in ToSet(shandles), NEW u \in User, NEW row,
         NEW existing, existing = find_shandle(u), existing # h,
         Owned(row, u), Replaced(h, row, existing),
         UNCHANGED did, job'.open # 1, loop'.at # "connect"
  PROVE  /\ ListsInv' /\ ToSet(shandles') = ToSet(shandles) \ {existing}
         /\ h \in ToSet(shandles') /\ sh'[h] = row
         /\ \A g \in ToSet(shandles') : g # h => sh'[g] = sh[g] /\ sh[g].player # u
         /\ existing # 0 => existing \in ToSet(shandles) /\ sh[existing].player = u
  <1>0. /\ DOMAIN row = ShFields /\ row.player = u /\ row.logged = TRUE
        /\ sh' = IF existing = 0 THEN [sh EXCEPT ![h] = row]
                 ELSE [[sh EXCEPT ![h] = row] EXCEPT ![existing] = Gone]
        /\ shandles' = Without(shandles, existing) /\ nhandles' = Without(nhandles, existing)
    BY DEF Owned, Replaced
  <1>1. /\ DOMAIN sh = Handle /\ DOMAIN did = DidFields
        /\ shandles \in Seq(Handle) /\ nhandles = shandles /\ Distinct(shandles)
        /\ did.conns \in 0..MaxConn /\ \A g \in ToSet(shandles) : g <= did.conns
        /\ did.unconnected \in Int /\ did.unconnected < 0
        /\ Rows(sh, shandles, did.unconnected)
    BY DEF ListsInv
  <1>2. ToSet(shandles) \subseteq Handle
    BY <1>1, SetOf
  <1>3. /\ existing = 0 \/ existing \in ToSet(shandles)
        /\ existing # 0 => sh[existing].player = u
        /\ existing = 0 => \A g \in ToSet(shandles) : sh[g].player # u
        /\ 0 \notin ToSet(shandles)
    BY FindIs
  <1>4. /\ shandles' \in Seq(Handle) /\ Distinct(shandles')
        /\ ToSet(shandles') = ToSet(shandles) \ {existing} /\ nhandles' = shandles'
    BY <1>0, <1>1, WithoutIs
  <1>5. h \in ToSet(shandles')
    BY <1>4
  <1>6. /\ DOMAIN sh' = Handle /\ sh'[h] = row
        /\ \A g \in ToSet(shandles') : g # h => sh'[g] = sh[g]
    <2>1. CASE existing = 0
      BY <1>0, <1>1, <1>2, <1>4, <2>1
    <2>2. CASE existing # 0
      BY <1>0, <1>1, <1>2, <1>4, <2>2
    <2> QED
      BY <2>1, <2>2
  <1>7. ASSUME NEW g \in ToSet(shandles'), g # h PROVE sh[g].player # u
    <2>1. CASE existing = 0
      BY <1>3, <1>4, <2>1
    <2>2. CASE existing # 0
      BY <1>1, <1>3, <1>4, <2>2 DEF Rows
    <2> QED
      BY <2>1, <2>2
  <1>8. u \in Int /\ u > 0
    BY ConnectionsAssumption
  <1>9. Rows(sh', shandles', did.unconnected)
    <2>1. ASSUME NEW g \in ToSet(shandles'), g # h
          PROVE  /\ DOMAIN sh'[g] = ShFields
                 /\ sh'[g].player \in Int /\ sh'[g].player > did.unconnected
                 /\ sh'[g].player < 0 \/ sh'[g].player \in User
                 /\ sh'[g].logged = (sh'[g].player \in User)
                 /\ sh'[g].player # u
      <3>1. sh'[g] = sh[g] /\ g \in ToSet(shandles)
        BY <1>4, <1>6, <2>1
      <3>2. sh[g].player # u
        BY <1>7, <2>1
      <3> QED
        BY <1>1, <3>1, <3>2 DEF Rows
    <2>2. /\ DOMAIN sh'[h] = ShFields /\ sh'[h].player = u /\ sh'[h].logged = TRUE
      BY <1>0, <1>6
    <2>3. sh'[h].player \in Int /\ sh'[h].player > did.unconnected /\ sh'[h].player \in User
      BY <1>1, <1>8, <2>2
    <2>4. (sh'[h].player \in User) = TRUE
      BY <2>3
    <2>5. ASSUME NEW f \in ToSet(shandles'), NEW g \in ToSet(shandles'),
                 sh'[f].player = sh'[g].player
          PROVE  f = g
      <3>1. CASE f # h /\ g # h
        <4>1. sh'[f] = sh[f] /\ sh'[g] = sh[g] /\ f \in ToSet(shandles) /\ g \in ToSet(shandles)
          BY <1>4, <1>6, <3>1
        <4> QED
          BY <1>1, <2>5, <4>1 DEF Rows
      <3>2. CASE f = h \/ g = h
        BY <2>1, <2>2, <2>5, <3>2
      <3> QED
        BY <3>1, <3>2
    <2>6. ASSUME NEW g \in ToSet(shandles')
          PROVE  /\ DOMAIN sh'[g] = ShFields
                 /\ sh'[g].player \in Int /\ sh'[g].player > did.unconnected
                 /\ sh'[g].player < 0 \/ sh'[g].player \in User
                 /\ sh'[g].logged = (sh'[g].player \in User)
      <3>1. CASE g # h
        BY <2>1, <3>1
      <3>2. CASE g = h
        BY ONLY <2>2, <2>3, <2>4, <3>2
      <3> QED
        BY <3>1, <3>2
    <2> QED
      BY <2>5, <2>6 DEF Rows
  <1>10. ListsInv'
    BY <1>1, <1>4, <1>6, <1>9 DEF ListsInv
  <1> QED
    BY <1>3, <1>4, <1>5, <1>6, <1>7, <1>10

\* switch_player, from a verb that is not one of those told of connections.
LEMMA HandleSwitch ==
  ASSUME "switch" \notin NotifierCalls, TimerInv, LookupInv, HandleInv,
         NEW old, NEW new \in User, bf_switch_player(old, new)
  PROVE  HandleInv'
  <1>1. /\ InVerb("switch") /\ Called /\ old # new /\ is_player_connected(old) /\ new \in db.users
        /\ UNCHANGED <<loop, disk, did>>
        /\ db' = [db EXCEPT !.online = (db.online \ {old}) \cup {new}]
    BY DEF bf_switch_player
  <1>2. loop.at = "verb" /\ ~Notifies(job.name)
    BY <1>1 DEF InVerb, Notifier, Notifies
  <1>3. /\ DOMAIN job = JobFields /\ job.open = 0 /\ ListsInv
    BY <1>2 DEF TimerInv, LookupInv, HandleInv
  <1>4. ~Leaving /\ ~Joining /\ Skip = 0 /\ Busy
    BY <1>2 DEF HandleInv, CursorInv, Skip, Busy
  <1>5. job'.open = 0 /\ job'.then = job.then /\ job'.h = job.h
    BY <1>1, <1>3 DEF Called, JobFields
  <1>6. ~Leaving' /\ ~Joining' /\ Skip' = 0
    BY <1>1, <1>2, <1>4, <1>5 DEF Leaving, Joining, Skip, Busy
  <1>7. PICK h, existing : h = find_shandle(old) /\ existing = find_shandle(new)
    OBVIOUS
  <1>8. h \in ToSet(shandles) /\ sh[h].player = old
    BY <1>1, <1>3, <1>7, FindIs DEF is_player_connected
  <1>9. existing # h
    <2>1. existing = 0 \/ sh[existing].player = new
      BY <1>3, <1>7, FindIs
    <2>2. 0 \notin ToSet(shandles)
      BY <1>3, FindIs
    <2> QED
      BY <1>1, <1>8, <2>1, <2>2
  <1>10. PICK row : row = [sh[h] EXCEPT !.player = new, !.logged = TRUE]
    OBVIOUS
  <1>11. DOMAIN row = ShFields /\ row.player = new /\ row.logged = TRUE
    BY <1>3, <1>8, <1>10 DEF ListsInv, Rows, ShFields
  <1>12. [sh EXCEPT ![h].player = new, ![h].logged = TRUE] = [sh EXCEPT ![h] = row]
    <2>1. h \in DOMAIN sh /\ DOMAIN sh[h] = ShFields
      BY <1>3, <1>8, SetOf DEF ListsInv, Rows
    <2> QED
      BY <1>10, <2>1
  <1>13. /\ sh' = IF existing = 0 THEN [sh EXCEPT ![h] = row]
                  ELSE [[sh EXCEPT ![h] = row] EXCEPT ![existing] = Gone]
         /\ shandles' = Without(shandles, existing) /\ nhandles' = Without(nhandles, existing)
    BY <1>7, <1>12 DEF bf_switch_player
  <1>14. /\ ListsInv' /\ ToSet(shandles') = ToSet(shandles) \ {existing}
         /\ h \in ToSet(shandles') /\ sh'[h] = row
         /\ \A g \in ToSet(shandles') : g # h => sh'[g] = sh[g] /\ sh[g].player # new
         /\ existing # 0 => existing \in ToSet(shandles) /\ sh[existing].player = new
    <2>1. /\ ListsInv /\ h \in ToSet(shandles) /\ new \in User
          /\ existing = find_shandle(new) /\ existing # h
          /\ UNCHANGED did /\ job'.open # 1 /\ loop'.at # "connect"
      BY <1>1, <1>2, <1>3, <1>5, <1>7, <1>8, <1>9
    <2>2. Owned(row, new) /\ Replaced(h, row, existing)
      BY <1>11, <1>13 DEF Owned, Replaced
    <2> QED
      BY ONLY <2>1, <2>2, TakeOver
  <1>15. /\ DOMAIN db = {"users", "online"} /\ db.users \subseteq User
         /\ Known(sh, shandles, db.online, db.users, 0)
    BY <1>4 DEF HandleInv, OnlineInv
  <1>16. DOMAIN db' = {"users", "online"} /\ db'.users = db.users
         /\ db'.online = (db.online \ {old}) \cup {new}
    BY <1>1, <1>15
  <1>17. Known(sh', shandles', db'.online, db'.users, 0)
    <2>1. ASSUME NEW u \in db'.online \cap db'.users
          PROVE  \E g \in ToSet(shandles') : sh'[g].player = u
      <3>1. CASE u = new
        BY <1>11, <1>14, <3>1
      <3>2. CASE u # new
        <4>1. u # old /\ u \in db.online /\ u \in db.users
          BY <1>16, <3>2
        <4>2. PICK g \in ToSet(shandles) : sh[g].player = u
          BY <1>15, <4>1 DEF Known
        <4>a. 0 \notin ToSet(shandles)
          BY <1>3, FindIs
        <4>3. g # h /\ g # existing
          BY <1>8, <1>14, <3>2, <4>1, <4>2, <4>a
        <4> QED
          BY <1>14, <4>2, <4>3
      <3> QED
        BY <3>1, <3>2
    <2>2. ASSUME NEW g \in ToSet(shandles'), sh'[g].player \in User
          PROVE  sh'[g].player \in db'.online
      <3>1. CASE g = h
        BY <1>11, <1>14, <1>16, <3>1
      <3>2. CASE g # h
        <4>1. sh'[g] = sh[g] /\ g \in ToSet(shandles) /\ g # 0
          BY <1>3, <1>14, <3>2, FindIs
        <4>2. sh[g].player \in db.online
          BY <1>15, <2>2, <4>1 DEF Known
        <4>3. sh[g].player # old
          BY <1>3, <1>8, <3>2, <4>1 DEF ListsInv, Rows
        <4> QED
          BY <1>16, <4>1, <4>2, <4>3
      <3> QED
        BY <3>1, <3>2
    <2> QED
      BY <2>1, <2>2 DEF Known
  <1>18. OnlineInv'
    BY <1>1, <1>6, <1>15, <1>16, <1>17 DEF HandleInv, OnlineInv
  <1>19. CursorInv'
    BY <1>1, <1>2, <1>6 DEF CursorInv
  <1> QED
    BY <1>14, <1>18, <1>19 DEF HandleInv

\* open_network_connection has its connection.
LEMMA HandleOpened ==
  ASSUME TimerInv, LookupInv, HandleInv, NEW ok \in BOOLEAN, OpenFinish(ok)
  PROVE  HandleInv'
  <1>1. loop.at = "connect" /\ Go("verb") /\ UNCHANGED <<job, db, disk>>
    BY DEF OpenFinish
  <1>2. DOMAIN loop = LoopFields /\ job.open = 0 /\ ListsInv /\ did.conns < MaxConn
    BY <1>1 DEF TimerInv, LookupInv, HandleInv, ListsInv
  <1>3. loop'.at = "verb" /\ loop'.h = loop.h /\ loop'.next = loop.next
    BY <1>1, <1>2, GoIs
  <1>4. Busy /\ Busy' /\ Leaving' = Leaving /\ Joining' = Joining /\ Skip' = Skip
    BY <1>1, <1>3 DEF Busy, Leaving, Joining, Skip
  <1>5. CASE ok
    <2>1. PICK oid, print, outbound, listens : NewConnection(oid, print, outbound, listens)
      <3>1. NewConnection(SYSTEM_OBJECT, FALSE, TRUE, FALSE)
        BY <1>5 DEF OpenFinish
      <3> QED
        BY <3>1, Zenon
    <2>2. job'.open # 1 /\ loop'.at # "connect"
      BY <1>1, <1>2, <1>3
    <2>3. /\ ListsInv'
          /\ ToSet(shandles') = ToSet(shandles) \cup {did.conns + 1}
          /\ \A g \in ToSet(shandles) : sh'[g] = sh[g]
          /\ sh'[did.conns + 1].player \notin User
      BY ONLY <1>2, <2>1, <2>2, NewLists
    <2>4. PICK h : h = did.conns + 1
      OBVIOUS
    <2>5. OnlineInv'
      BY <1>1, <1>4, <2>3, <2>4, NewKnown
    <2>6. Leaving => job.h \in ToSet(shandles)
      BY DEF HandleInv, CursorInv, Cursor
    <2>7. Cursor(loop, shandles) => Cursor(loop', shandles')
      BY <1>3, <2>3 DEF Cursor
    <2>8. CursorInv'
      BY <1>1, <1>3, <1>4, <2>3, <2>6, <2>7 DEF HandleInv, CursorInv
    <2> QED
      BY <2>3, <2>5, <2>8 DEF HandleInv
  <1>6. CASE ~ok
    <2>1. UNCHANGED <<sh, shandles, nhandles, did>>
      BY <1>6 DEF OpenFinish
    <2>2. SameLists
      BY <1>2, <2>1, Unchanged
    <2> QED
      BY <1>1, <1>2, <1>3, <1>4, <2>2, BusyFrame
  <1> QED
    BY <1>5, <1>6

LEMMA HandleRecycle ==
  ASSUME TimerInv, HandleInv, NEW u \in User, RecycleUser(u)
  PROVE  HandleInv'
  <1>1. /\ InVerb("recycle") /\ Called /\ UNCHANGED <<sh, shandles, nhandles, did, loop, disk>>
        /\ db' = [db EXCEPT !.users = db.users \ {u}]
    BY DEF RecycleUser
  <1>2. /\ DOMAIN job' = JobFields /\ job'.open = job.open /\ job'.then = job.then
        /\ job'.h = job.h /\ job'.name = job.name
    BY <1>1 DEF Called, TimerInv, JobFields
  <1>3. Leaving' = Leaving /\ Joining' = Joining /\ Skip' = Skip
    BY <1>1, <1>2 DEF Leaving, Joining, Skip, Busy
  <1>4. /\ DOMAIN db' = {"users", "online"} /\ db'.users = db.users \ {u}
        /\ db'.online = db.online
    BY <1>1 DEF HandleInv, OnlineInv
  <1>5. ListsInv'
    BY <1>1, <1>2 DEF HandleInv, ListsInv
  <1>6. CursorInv'
    BY <1>1, <1>2, <1>3, <1>4 DEF HandleInv, CursorInv
  <1>7. OnlineInv'
    BY <1>1, <1>3, <1>4 DEF HandleInv, OnlineInv, Known
  <1> QED
    BY <1>5, <1>6, <1>7 DEF HandleInv

\* A built-in that leaves connections, users and the loop's cursors alone.
LEMMA QuietCall ==
  ASSUME TimerInv, LookupInv, HandleInv, loop.at = "verb", SameLists, UNCHANGED <<db, disk>>,
         DOMAIN job' = JobFields, job'.open = 0, job'.then = job.then, job'.h = job.h,
         job'.name = job.name, loop'.at = "verb", loop'.h = loop.h, loop'.next = loop.next
  PROVE  HandleInv'
  <1>1. Busy /\ Busy' /\ loop'.at \notin {"undefined", "connect"} /\ job'.open # 1
    BY DEF Busy
  <1> QED
    BY <1>1, BusyFrame

LEMMA HandleCall ==
  ASSUME "switch" \notin NotifierCalls, TimerInv, LookupInv, HandleInv, CallStep
  PROVE  HandleInv'
  <1>0. /\ DOMAIN loop = LoopFields /\ DOMAIN job = JobFields /\ ListsInv
        /\ (loop.at # "lookup" => job.open = 0)
    BY DEF TimerInv, LookupInv, HandleInv
  <1>a. ASSUME NEW call, InVerb(call), Called
        PROVE  /\ loop.at = "verb" /\ DOMAIN job' = JobFields /\ job'.open = 0
               /\ job'.then = job.then /\ job'.h = job.h /\ job'.name = job.name
    BY <1>0, <1>a DEF InVerb, Called, JobFields
  <1>1. ASSUME NEW h \in Handle, NEW room \in Rooms, NEW no_flush \in BOOLEAN,
               bf_notify(h, no_flush, room)
        PROVE  HandleInv'
    <2>1. /\ loop.at = "verb"
          /\ UNCHANGED <<sh, shandles, nhandles, did, loop, job, db, disk>>
      BY <1>1 DEF bf_notify, InVerb
    <2> QED
      BY <1>0, <2>1, Unchanged, QuietCall
  <1>2. ASSUME NEW h \in Handle, boot_player(h) PROVE HandleInv'
    <2>1. PICK row : row = [sh[h] EXCEPT !.disconnect_me = TRUE]
      OBVIOUS
    <2>2. /\ InVerb("boot") /\ Called /\ UNCHANGED <<shandles, nhandles, did, loop, db, disk>>
          /\ h \in ToSet(shandles) /\ sh' = [sh EXCEPT ![h].disconnect_me = TRUE]
      BY <1>2 DEF boot_player
    <2>3. h \in DOMAIN sh /\ DOMAIN sh[h] = ShFields /\ DOMAIN did = DidFields
      BY <1>0, <2>2, SetOf DEF ListsInv, Rows
    <2>4. sh' = [sh EXCEPT ![h] = row] /\ SameRow(row, sh[h])
      BY <2>1, <2>2, <2>3 DEF SameRow, ShFields
    <2>5. SameLists
      BY <1>0, <2>2, <2>3, <2>4, OtherFields
    <2>6. /\ loop.at = "verb" /\ DOMAIN job' = JobFields /\ job'.open = 0
          /\ job'.then = job.then /\ job'.h = job.h /\ job'.name = job.name
      BY <1>a, <2>2
    <2> QED
      BY <2>2, <2>5, <2>6, QuietCall
  <1>3. ASSUME NEW h \in Handle, NEW value \in BOOLEAN, bf_set_connection_option(h, value)
        PROVE  HandleInv'
    <2>1. /\ InVerb("binary") /\ Called
          /\ UNCHANGED <<sh, shandles, nhandles, did, loop, db, disk>>
      BY <1>3 DEF bf_set_connection_option
    <2>2. /\ loop.at = "verb" /\ DOMAIN job' = JobFields /\ job'.open = 0
          /\ job'.then = job.then /\ job'.h = job.h /\ job'.name = job.name
      BY <1>a, <2>1
    <2> QED
      BY <1>0, <2>1, <2>2, Unchanged, QuietCall
  <1>4. ASSUME NEW u \in User, RecycleUser(u) PROVE HandleInv'
    BY <1>4, HandleRecycle
  <1>5. ASSUME NEW u \in User, NEW h \in ToSet(shandles), bf_switch_player(sh[h].player, u)
        PROVE  HandleInv'
    <2>1. PICK old : old = sh[h].player
      OBVIOUS
    <2>2. bf_switch_player(old, u)
      BY <1>5, <2>1
    <2> QED
      BY <2>2, HandleSwitch
  <1>6. ASSUME NEW port \in Port, bf_listen(port) \/ bf_unlisten(port) PROVE HandleInv'
    <2>1. /\ InVerb("listen") /\ Called
          /\ UNCHANGED <<sh, shandles, nhandles, did, loop, db, disk>>
      BY <1>6 DEF bf_listen, bf_unlisten
    <2>2. /\ loop.at = "verb" /\ DOMAIN job' = JobFields /\ job'.open = 0
          /\ job'.then = job.then /\ job'.h = job.h /\ job'.name = job.name
      BY <1>a, <2>1
    <2> QED
      BY <1>0, <2>1, <2>2, Unchanged, QuietCall
  <1>7. CASE bf_dump_database \/ bf_shutdown
    <2>1. /\ InVerb("dump") \/ InVerb("shutdown")
          /\ Called /\ UNCHANGED <<sh, shandles, nhandles, did, db, disk>>
          /\ loop'.at = loop.at /\ loop'.h = loop.h /\ loop'.next = loop.next
      BY <1>0, <1>7 DEF bf_dump_database, bf_shutdown, LoopFields
    <2>2. /\ loop.at = "verb" /\ DOMAIN job' = JobFields /\ job'.open = 0
          /\ job'.then = job.then /\ job'.h = job.h /\ job'.name = job.name
      BY <1>a, <2>1
    <2> QED
      BY <1>0, <2>1, <2>2, Unchanged, QuietCall
  <1>8. CASE Compute
    <2>1. /\ loop.at = "verb" /\ UNCHANGED <<sh, shandles, nhandles, did, loop, db, disk>>
          /\ DOMAIN job' = JobFields /\ job'.open = job.open
          /\ job'.then = job.then /\ job'.h = job.h /\ job'.name = job.name
      BY <1>0, <1>8 DEF Compute, JobFields
    <2> QED
      BY <1>0, <2>1, Unchanged, QuietCall
  <1>9. CASE OpenStart
    <2>1. /\ InVerb("open") /\ did.conns < MaxConn /\ Go("lookup")
          /\ UNCHANGED <<sh, shandles, nhandles, did, db, disk>>
          /\ job' = [job EXCEPT !.calls = job.calls - 1, !.open = 1]
      BY <1>9 DEF OpenStart
    <2>2. /\ job'.open = 1 /\ job'.then = job.then /\ job'.h = job.h /\ job'.name = job.name
          /\ loop.at = "verb" /\ loop'.at = "lookup" /\ loop'.h = loop.h /\ loop'.next = loop.next
      BY <1>0, <2>1, GoIs DEF InVerb, JobFields
    <2>3. Busy /\ Busy'
      BY <2>2 DEF Busy
    <2> QED
      BY <1>0, <2>1, <2>2, <2>3, Unchanged, BusyFrame
  <1>10. ASSUME NEW b \in BOOLEAN, OpenConnects(b) PROVE HandleInv'
    <2>1. /\ loop.at = "lookup" /\ job.open = 1 /\ (Go("connect") \/ Go("verb"))
          /\ UNCHANGED <<sh, shandles, nhandles, did, db, disk>>
          /\ job' = [job EXCEPT !.open = 0]
      BY <1>10 DEF OpenConnects
    <2>2. /\ job'.open = 0 /\ job'.then = job.then /\ job'.h = job.h /\ job'.name = job.name
          /\ loop'.at \in {"connect", "verb"} /\ loop'.h = loop.h /\ loop'.next = loop.next
          /\ did.conns < MaxConn
      BY <1>0, <2>1, GoIs DEF JobFields, ListsInv
    <2>3. Busy /\ Busy' /\ loop'.at # "undefined"
      BY <2>1, <2>2 DEF Busy
    <2> QED
      BY <1>0, <2>1, <2>2, <2>3, Unchanged, BusyFrame
  <1>11. ASSUME NEW b \in BOOLEAN, OpenFinish(b) PROVE HandleInv'
    BY <1>11, HandleOpened
  <1> QED
    BY <1>1, <1>2, <1>3, <1>4, <1>5, <1>6, <1>7, <1>8, <1>9, <1>10, <1>11 DEF CallStep

-----------------------------------------------------------------------------
(* The end of a verb.                                                      *)

\* server_close, and the loop of main_loop, free the handle and go on.
LEMMA HandleFreed ==
  ASSUME TimerInv, HandleInv, loop.at = "verb", Leaving, job' = NoJob, Freed(job.h),
         UNCHANGED <<did, db, disk>>, NEW where \in {"io", "sweep"},
         loop' = [Moved(shandles', loop.next) EXCEPT !.at = IF @ = "verb" THEN where ELSE @]
  PROVE  HandleInv'
  <1>0. DOMAIN loop = LoopFields /\ ListsInv /\ CursorInv
    BY DEF TimerInv, HandleInv
  <1>1. /\ Cursor(loop, shandles) /\ job.h = loop.h /\ loop.h # 0
        /\ sh[job.h].player \notin db.online
    BY <1>0 DEF CursorInv
  <1>2. job'.open # 1 /\ job'.then = "none"
    BY DEF NoJob
  <1>3. PICK list, next, m : list = shandles' /\ next = loop.next /\ m = Moved(list, next)
    OBVIOUS
  <1>4. DOMAIN m = LoopFields /\ m.at \in {"verb", "undefined"}
    BY <1>0, <1>3, MovedIs
  <1>5. loop' = [m EXCEPT !.at = IF m.at = "verb" THEN where ELSE m.at]
    BY <1>3
  <1>6. /\ loop'.at = (IF m.at = "verb" THEN where ELSE m.at)
        /\ loop'.h = m.h /\ loop'.next = m.next
    BY <1>4, <1>5 DEF LoopFields
  <1>7. PICK h : h = job.h
    OBVIOUS
  <1>8. /\ ListsInv' /\ ToSet(shandles') = ToSet(shandles) \ {h}
        /\ \A g \in ToSet(shandles') : sh'[g] = sh[g]
    <2>1. Freed(h) /\ loop'.at # "connect"
      BY <1>4, <1>6, <1>7
    <2> QED
      BY <1>0, <1>2, <2>1, FreedLists
  <1>9. list \in Seq(Handle) /\ Distinct(list) /\ next \in ToSet(list) \cup {0}
    BY <1>1, <1>3, <1>7, <1>8 DEF ListsInv, Cursor
  <1>10. m.at = "verb" /\ Cursor(m, list)
    BY <1>0, <1>3, <1>9, MovedCursor
  <1>11. loop'.at = where /\ Cursor(loop', shandles')
    BY <1>3, <1>6, <1>10 DEF Cursor
  <1>12. ~Busy' /\ Skip' = 0 /\ ~Leaving' /\ ~Joining'
    BY <1>11 DEF Busy, Skip, Leaving, Joining
  <1>13. OnlineInv'
    <2>1. Skip \in {0, h} /\ sh[h].player \notin db.online \cap db.users
      BY <1>1, <1>7 DEF Skip
    <2> QED
      BY <1>8, <1>12, <2>1, FreedKnown
  <1>14. CursorInv'
    BY <1>11, <1>12 DEF CursorInv
  <1> QED
    BY <1>8, <1>13, <1>14 DEF HandleInv

\* do_login_command returned a user (player_connected).
LEMMA HandleLogin ==
  ASSUME TimerInv, LookupInv, HandleInv, NEW u \in User, NEW room, player_connected(u, room)
  PROVE  HandleInv'
  <1>1. /\ loop.at = "verb" /\ job.then = "login" /\ job.h \in ToSet(shandles)
        /\ sh[job.h].player < 0 /\ u \in db.users /\ UNCHANGED <<loop, disk, did>>
    BY DEF player_connected, Ends, Logs
  <1>2. DOMAIN loop = LoopFields /\ ListsInv
    BY DEF TimerInv, HandleInv
  <1>3. Skip = 0
    BY <1>1 DEF Skip, Leaving, Joining
  <1>4. PICK h, existing, moved, row :
          /\ h = job.h /\ existing = find_shandle(u)
          /\ moved = (existing # 0 /\ sh[existing].listener # sh[h].listener)
          /\ row = [sh[h] EXCEPT !.player = u, !.logged = TRUE,
                                 !.disconnect_me = sh[h].disconnect_me \/ moved]
    OBVIOUS
  <1>5. u \in Int /\ u > 0
    BY ConnectionsAssumption
  <1>6. h \in ToSet(shandles) /\ sh[h].player < 0 /\ sh[h].player \notin User
    BY <1>1, <1>4, ConnectionsAssumption
  <1>7. h \in DOMAIN sh /\ DOMAIN sh[h] = ShFields
    BY <1>2, <1>6, SetOf DEF ListsInv, Rows
  <1>8. existing # h
    <2>1. existing = 0 \/ sh[existing].player = u
      BY <1>2, <1>4, FindIs
    <2>2. 0 \notin ToSet(shandles)
      BY <1>2, FindIs
    <2> QED
      BY <1>6, <2>1, <2>2
  <1>9. Owned(row, u)
    BY <1>4, <1>7 DEF Owned, ShFields
  <1>10. Replaced(h, row, existing)
    <2>1. [sh EXCEPT ![h].player = u, ![h].logged = TRUE,
                     ![h].disconnect_me = @ \/ moved] = [sh EXCEPT ![h] = row]
      BY <1>4, <1>7
    <2> QED
      BY <1>4, <2>1, ZenonT(60) DEF player_connected, Replaced
  <1>11. \/ Run("user_connected", u, h, "tasks", db)
         \/ Run("user_client_disconnected", u, h, "connected", db)
         \/ Run("user_reconnected", u, h, "tasks", db)
    BY <1>4 DEF player_connected
  <1>12. /\ job'.open = 0 /\ job'.h = h /\ job'.then \in {"tasks", "connected"}
         /\ job'.then = "connected" => job'.name = "user_client_disconnected"
    BY <1>11, RunNotOpen
  <1>13. /\ ListsInv' /\ ToSet(shandles') = ToSet(shandles) \ {existing}
         /\ h \in ToSet(shandles') /\ sh'[h] = row
         /\ \A g \in ToSet(shandles') : g # h => sh'[g] = sh[g] /\ sh[g].player # u
         /\ existing # 0 => existing \in ToSet(shandles) /\ sh[existing].player = u
    <2>1. existing = find_shandle(u) /\ UNCHANGED did /\ job'.open # 1 /\ loop'.at # "connect"
      BY <1>1, <1>4, <1>12
    <2>2. u \in User
      OBVIOUS
    <2> QED
      BY ONLY <1>2, <1>6, <1>8, <1>9, <1>10, <2>1, <2>2, TakeOver
  <1>14. /\ DOMAIN db = {"users", "online"} /\ db.users \subseteq User
         /\ Known(sh, shandles, db.online, db.users, 0)
    BY <1>3 DEF HandleInv, OnlineInv
  <1>15. ASSUME NEW v \in db.online \cap db.users, v # u
         PROVE  \E g \in ToSet(shandles') : sh'[g].player = v
    <2>1. PICK g \in ToSet(shandles) : sh[g].player = v
      BY <1>14 DEF Known
    <2>2. g # h
      BY <1>6, <1>14, <2>1
    <2>3. g # existing
      <3>1. 0 \notin ToSet(shandles)
        BY <1>2, FindIs
      <3> QED
        BY <1>13, <1>15, <2>1, <3>1
    <2> QED
      BY <1>13, <2>1, <2>2, <2>3
  <1>16. ASSUME NEW g \in ToSet(shandles'), g # h, sh'[g].player \in User
         PROVE  sh'[g].player \in db.online /\ sh'[g].player # u
    <2>1. g \in ToSet(shandles) /\ g # 0
      BY <1>2, <1>13, FindIs
    <2> QED
      BY <1>13, <1>14, <1>16, <2>1 DEF Known
  <1>17. sh'[h].player = u
    BY <1>9, <1>13 DEF Owned
  <1>18. OnlineInv'
    <2>1. CASE Run("user_connected", u, h, "tasks", db) \/ Run("user_reconnected", u, h, "tasks", db)
      <3>1. DOMAIN db' = {"users", "online"} /\ db'.users = db.users
            /\ db'.online = db.online \cup {u}
        BY <1>14, <2>1 DEF Run, Offline, Online
      <3>2. Skip' = 0
        BY <2>1, RunNotOpen DEF Skip, Leaving, Joining
      <3>3. Known(sh', shandles', db'.online, db'.users, 0)
        BY <1>13, <1>15, <1>16, <1>17, <3>1 DEF Known
      <3> QED
        BY <1>1, <1>14, <3>1, <3>2, <3>3 DEF HandleInv, OnlineInv
    <2>2. CASE Run("user_client_disconnected", u, h, "connected", db)
      <3>1. DOMAIN db' = {"users", "online"} /\ db'.users = db.users
            /\ db'.online = db.online \ {u}
        BY <1>14, <2>2 DEF Run, Offline, Online
      <3>2. Skip' = h
        BY <1>1, <2>2, RunNotOpen DEF Skip, Leaving, Joining, Busy
      <3>3. Known(sh', shandles', db'.online, db'.users, h)
        BY <1>13, <1>15, <1>16, <3>1 DEF Known
      <3> QED
        BY <1>1, <1>14, <3>1, <3>2, <3>3 DEF HandleInv, OnlineInv
    <2> QED
      BY <1>11, <2>1, <2>2
  <1>19. CursorInv'
    <2>1. ~Leaving'
      BY <1>12 DEF Leaving
    <2>2. Joining' => job'.h \in ToSet(shandles') /\ Notifies(job'.name)
      BY <1>12, <1>13 DEF Joining, Notifies, Offline
    <2> QED
      BY <1>1, <2>1, <2>2 DEF CursorInv
  <1> QED
    BY <1>13, <1>18, <1>19 DEF HandleInv

\* The new listener hears of the user that was redirected.
LEMMA HandleRedirected ==
  ASSUME TimerInv, LookupInv, HandleInv, EndRedirected PROVE HandleInv'
  <1>1. loop.at = "verb" /\ job.then = "connected" /\ UNCHANGED <<shandles, nhandles, did, disk>>
    BY DEF EndRedirected, Ends
  <1>2. ListsInv /\ Joining /\ Skip = job.h
    BY <1>1 DEF HandleInv, Joining, Busy, Skip
  <1>3. job.h \in ToSet(shandles)
    BY <1>2 DEF HandleInv, CursorInv
  <1>4. PICK h, row, p : h = job.h /\ row = [sh[h] EXCEPT !.disconnect_me = FALSE]
                         /\ p = sh[h].player
    OBVIOUS
  <1>5. /\ sh' = [sh EXCEPT ![h].disconnect_me = FALSE] /\ UNCHANGED loop
        /\ Run("user_connected", p, h, "tasks", db)
    BY <1>3, <1>4 DEF EndRedirected
  <1>6. h \in DOMAIN sh /\ DOMAIN sh[h] = ShFields /\ DOMAIN did = DidFields
    BY <1>2, <1>3, <1>4, SetOf DEF ListsInv, Rows
  <1>7. sh' = [sh EXCEPT ![h] = row] /\ SameRow(row, sh[h])
    BY <1>4, <1>5, <1>6 DEF SameRow, ShFields
  <1>8. SameLists
    BY <1>1, <1>2, <1>3, <1>4, <1>6, <1>7, OtherFields
  <1>9. job'.open = 0 /\ job'.then = "tasks"
    BY <1>5, RunNotOpen
  <1>10. ListsInv'
    BY <1>1, <1>2, <1>5, <1>8, <1>9, ListsKept
  <1>11. ~Leaving' /\ ~Joining' /\ Skip' = 0
    BY <1>9 DEF Leaving, Joining, Skip
  <1>12. /\ DOMAIN db = {"users", "online"} /\ db.users \subseteq User
         /\ Known(sh, shandles, db.online, db.users, h)
    BY <1>2, <1>4 DEF HandleInv, OnlineInv
  <1>13. DOMAIN db' = {"users", "online"} /\ db'.users = db.users
         /\ db'.online = db.online \cup {p}
    BY <1>5, <1>12 DEF Run, Offline, Online
  <1>14. \A g \in ToSet(shandles) : sh'[g].player = sh[g].player
    BY <1>8 DEF SameLists, SameRow
  <1>15. Known(sh', shandles', db'.online, db'.users, 0)
    BY <1>1, <1>3, <1>4, <1>12, <1>13, <1>14 DEF Known
  <1>16. OnlineInv'
    BY <1>1, <1>11, <1>12, <1>13, <1>15 DEF HandleInv, OnlineInv
  <1>17. CursorInv'
    BY <1>1, <1>5, <1>11 DEF CursorInv
  <1> QED
    BY <1>10, <1>16, <1>17 DEF HandleInv

LEMMA HandleEnd ==
  ASSUME TimerInv, LookupInv, HandleInv, EndStep PROVE HandleInv'
  <1>0. DOMAIN loop = LoopFields /\ ListsInv /\ CursorInv
    BY DEF TimerInv, HandleInv
  <1>1. CASE EndClose
    <2>1. loop.at = "verb" /\ job' = NoJob /\ Freed(job.h) /\ UNCHANGED <<did, db, disk>>
          /\ job.then = "close"
      BY <1>1 DEF EndClose, Ends, Stop
    <2>2. Leaving
      BY <2>1 DEF Leaving, Busy
    <2>3. job.h \in ToSet(shandles)
      BY <1>0, <2>2 DEF CursorInv, Cursor
    <2>4. loop' = [Moved(nhandles', loop.next) EXCEPT !.at = IF @ = "verb" THEN "io" ELSE @]
      BY <1>1, <2>3 DEF EndClose
    <2>5. nhandles' = shandles'
      BY <1>0, <2>1 DEF Freed, ListsInv
    <2> QED
      BY <2>1, <2>2, <2>4, <2>5, HandleFreed
  <1>2. CASE EndSwept
    <2>1. loop.at = "verb" /\ job' = NoJob /\ Freed(job.h) /\ UNCHANGED <<did, db, disk>>
          /\ job.then = "swept"
      BY <1>2 DEF EndSwept, Ends, Stop
    <2>2. Leaving
      BY <2>1 DEF Leaving, Busy
    <2>3. job.h \in ToSet(shandles)
      BY <1>0, <2>2 DEF CursorInv, Cursor
    <2>4. loop' = [Moved(shandles', loop.next) EXCEPT !.at = IF @ = "verb" THEN "sweep" ELSE @]
      BY <1>2, <2>3 DEF EndSwept
    <2> QED
      BY <2>1, <2>2, <2>4, HandleFreed
  <1>3. CASE EndTask \/ EndLoginFails
    <2>1. /\ loop.at = "verb" /\ job.then \in {"tasks", "wait", "login"} /\ job' = NoJob
          /\ UNCHANGED <<sh, shandles, nhandles, did, db, disk>>
          /\ Go("tasks") \/ Go("wait")
      BY <1>3 DEF EndTask, EndLoginFails, Ends, Stop
    <2>2. loop'.at \in {"tasks", "wait"} /\ job'.open # 1
      BY <1>0, <2>1, GoIs DEF NoJob
    <2>3. ~Busy' /\ Skip = 0
      BY <2>1, <2>2 DEF Busy, Skip, Leaving, Joining
    <2> QED
      BY <1>0, <2>1, <2>2, <2>3, Unchanged, FreeFrame
  <1>4. ASSUME NEW u \in User, NEW room \in Rooms, player_connected(u, room) PROVE HandleInv'
    BY <1>4, HandleLogin
  <1> QED
    BY <1>1, <1>2, <1>3, <1>4, HandleRedirected DEF EndStep

-----------------------------------------------------------------------------
(* The server starts, and everything else that happens.                    *)

LEMMA HandleInit == ASSUME Init PROVE HandleInv
  <1>1. ToSet(<<>>) = {}
    BY DEF ToSet
  <1>2. <<>> \in Seq(Handle) /\ DOMAIN <<>> = {}
    OBVIOUS
  <1>3. /\ sh = [h \in Handle |-> Gone] /\ shandles = <<>> /\ nhandles = <<>>
        /\ loop = At("top") /\ job = NoJob
        /\ db = [users |-> User, online |-> {}] /\ disk = [db |-> db, conns |-> {}]
        /\ did = [conns |-> 0, tasks |-> 0, bytes |-> 0, restarts |-> 0, unconnected |-> -2]
    BY DEF Init
  <1>4. loop.at = "top" /\ job.open = 0
    BY <1>3 DEF At, NoJob
  <1>5. ~Leaving /\ ~Joining
    BY <1>4 DEF Leaving, Joining, Busy
  <1>6. DOMAIN did = DidFields /\ did.conns = 0 /\ did.unconnected = -2
    BY <1>3 DEF DidFields
  <1>7. ListsInv
    BY <1>1, <1>2, <1>3, <1>4, <1>6, ConnectionsAssumption DEF ListsInv, Rows, Distinct
  <1>8. CursorInv
    BY <1>4, <1>5 DEF CursorInv
  <1>9. OnlineInv
    BY <1>1, <1>3 DEF OnlineInv, Known
  <1> QED
    BY <1>7, <1>8, <1>9 DEF HandleInv

\* What a dump says of users and connections agrees.
Dumped(saved) ==
  /\ DOMAIN saved = {"db", "conns"} /\ DOMAIN saved.db = {"users", "online"}
  /\ saved.db.users \subseteq User /\ saved.db.online \cap saved.db.users \subseteq saved.conns

LEMMA HandleRestart ==
  ASSUME HandleInv, NEW saved, Dumped(saved), Restart(saved)
  PROVE  HandleInv'
  <1>1. ToSet(<<>>) = {}
    BY DEF ToSet
  <1>2. <<>> \in Seq(Handle) /\ DOMAIN <<>> = {}
    OBVIOUS
  <1>3. /\ sh' = [h \in Handle |-> Gone] /\ shandles' = <<>> /\ nhandles' = <<>>
        /\ loop' = At("top") /\ job' = NoJob
        /\ db' = [saved.db EXCEPT !.online = saved.db.online \ saved.conns] /\ disk' = saved
        /\ did' = [did EXCEPT !.restarts = did.restarts + 1, !.unconnected = -2]
    BY DEF Restart
  <1>4. loop'.at = "top" /\ job'.open = 0
    BY <1>3 DEF At, NoJob
  <1>5. ~Leaving' /\ ~Joining'
    BY <1>4 DEF Leaving, Joining, Busy
  <1>6. DOMAIN did' = DidFields /\ did'.conns = did.conns /\ did'.unconnected = -2
    BY <1>3 DEF DidFields, HandleInv, ListsInv
  <1>7. ListsInv'
    BY <1>1, <1>2, <1>3, <1>4, <1>6 DEF ListsInv, Rows, Distinct, HandleInv
  <1>8. CursorInv'
    BY <1>4, <1>5 DEF CursorInv
  <1>9. DOMAIN db' = {"users", "online"} /\ db'.users = saved.db.users
        /\ db'.online = saved.db.online \ saved.conns
    BY <1>3 DEF Dumped
  <1>10. OnlineInv'
    BY <1>1, <1>3, <1>9 DEF OnlineInv, Known, Dumped
  <1> QED
    BY <1>7, <1>8, <1>10 DEF HandleInv

\* Of the dumps that panic and the end of the server make.
LEMMA DumpedNow ==
  ASSUME HandleInv, Restart([db |-> db, conns |-> write_active_connections])
  PROVE  HandleInv'
  <1>1. PICK saved : saved = [db |-> db, conns |-> write_active_connections]
    OBVIOUS
  <1>2. Dumped(saved)
    <2>1. DOMAIN saved = {"db", "conns"} /\ saved.db = db /\ saved.conns = write_active_connections
      BY <1>1
    <2>2. db.online \cap db.users \subseteq write_active_connections
      BY DEF HandleInv, OnlineInv, Known, write_active_connections
    <2> QED
      BY <2>1, <2>2 DEF Dumped, HandleInv, OnlineInv
  <1>3. Restart(saved)
    BY <1>1
  <1> QED
    BY <1>2, <1>3, HandleRestart

\* Steps beside the server's thread.
LEMMA Beside ==
  ASSUME LookupInv, HandleInv, SameLists, UNCHANGED <<db, disk>>,
         job'.open = job.open, job'.then = job.then, job'.h = job.h, job'.name = job.name,
         loop'.at = loop.at, loop'.h = loop.h, loop'.next = loop.next
  PROVE  HandleInv'
  <1>1. Busy' = Busy
    BY DEF Busy
  <1>2. loop.at # "undefined" /\ (job.open = 1 \/ loop.at = "connect" => did.conns < MaxConn)
    BY DEF HandleInv, CursorInv, ListsInv
  <1>3. CASE Busy
    BY <1>1, <1>2, <1>3, BusyFrame
  <1>4. CASE ~Busy
    <2>1. job.open # 1 /\ Skip = 0
      BY <1>4 DEF Busy, LookupInv, Skip, Leaving, Joining
    <2>2. loop.at \in {"io", "sweep"} => Cursor(loop', shandles)
      BY DEF HandleInv, CursorInv, Cursor
    <2> QED
      BY <1>1, <1>2, <1>4, <2>1, <2>2, FreeFrame
  <1> QED
    BY <1>3, <1>4

LEMMA HandleNext ==
  ASSUME "switch" \notin NotifierCalls, TimerInv, LookupInv, HandleInv, [Next]_vars
  PROVE  HandleInv'
  <1>0. /\ DOMAIN loop = LoopFields /\ DOMAIN job = JobFields /\ TimersOk(tm)
        /\ (loop.at # "connect" => NoTimeouts(tm)) /\ ListsInv
        /\ (loop.at # "lookup" => job.open = 0)
    BY DEF TimerInv, HandleInv, LookupInv
  <1>a. /\ DOMAIN sh = Handle /\ DOMAIN did = DidFields
        /\ \A h \in ToSet(shandles) : h \in Handle /\ DOMAIN sh[h] = ShFields
    BY <1>0, SetOf DEF ListsInv, Rows
  <1>1. CASE ClientStep
    <2>1. /\ UNCHANGED <<sh, shandles, nhandles, loop, job, db, disk>>
          /\ did' = did \/ did' = [did EXCEPT !.bytes = did.bytes + 1]
      BY <1>1 DEF ClientStep, ClientConnects, ClientHangsUp, ClientSends
    <2>2. DOMAIN did' = DidFields /\ did'.conns = did.conns /\ did'.unconnected = did.unconnected
      BY <1>a, <2>1 DEF DidFields
    <2>3. SameLists
      BY <1>a, <2>1, <2>2 DEF SameLists, SameRow
    <2> QED
      BY <2>1, <2>3, Beside
  <1>2. CASE Tick
    <2>1. /\ UNCHANGED <<shandles, nhandles, did, loop, job, db, disk>>
          /\ sh' = [h \in Handle |-> IF sh[h] = Gone \/ "timeout" \notin does THEN sh[h]
               ELSE [sh[h] EXCEPT !.age = IF sh[h].age > ConnectTimeout THEN sh[h].age
                                          ELSE sh[h].age + 1]]
      BY <1>2 DEF Tick
    <2>2. ASSUME NEW h \in ToSet(shandles) PROVE SameRow(sh'[h], sh[h])
      BY <1>a, <2>1 DEF SameRow, ShFields
    <2>3. SameLists
      BY <1>a, <2>1, <2>2 DEF SameLists
    <2> QED
      BY <2>1, <2>3, Beside
  <1>3. CASE Alarm
    \* Only connect() is left by timeout_proc.
    <2>1. /\ UNCHANGED <<sh, shandles, nhandles, did, db, disk>> /\ tm.sigalrm
          /\ job'.open = job.open /\ job'.then = job.then /\ job'.h = job.h /\ job'.name = job.name
      BY <1>3, <1>0 DEF Alarm, JobFields
    <2>2. tm.active # <<>> /\ tm.active \in Seq(Timer)
      BY <1>0, <2>1 DEF TimersOk, Armed, TimerRecord
    <2>3. 1 \in DOMAIN tm.active /\ Head(tm.active) = tm.active[1]
      BY <2>2, LenProperties, HeadTailProperties, EmptySeq
    <2>4. SameLists
      BY <1>0, <2>1, Unchanged
    <2>5. CASE Head(tm.active).proc = checkpoint_timer
      <3>1. loop' = [loop EXCEPT !.checkpoint = TRUE]
        BY <1>3, <2>5 DEF Alarm
      <3>2. loop'.at = loop.at /\ loop'.h = loop.h /\ loop'.next = loop.next
        BY <1>0, <3>1 DEF LoopFields
      <3> QED
        BY <2>1, <2>4, <3>2, Beside
    <2>6. CASE Head(tm.active).proc # checkpoint_timer
      <3>1. loop.at = "connect"
        BY <1>0, <2>3, <2>6 DEF NoTimeouts
      <3>2. loop' = [loop EXCEPT !.at = "verb"]
        BY <1>3, <2>6 DEF Alarm
      <3>3. loop'.at = "verb" /\ loop'.h = loop.h /\ loop'.next = loop.next
        BY <1>0, <3>2 DEF LoopFields
      <3>4. Busy /\ Busy' /\ job'.open # 1
        BY <1>0, <2>1, <3>1, <3>3 DEF Busy
      <3> QED
        BY <2>1, <2>4, <3>3, <3>4, BusyFrame
    <2> QED
      BY <2>5, <2>6
  <1>4. CASE HelperProcesses \/ HelpersFail
    <2>1. UNCHANGED <<sh, shandles, nhandles, did, loop, job, db, disk>>
      BY <1>4 DEF HelperProcesses, HelpersFail, Elsewhere
    <2> QED
      BY <1>0, <2>1, Unchanged, Beside
  <1>5. CASE Crash
    <2>1. PICK saved : saved = disk
      OBVIOUS
    <2>2. Restart(saved) /\ Dumped(saved)
      BY <1>5, <2>1 DEF Crash, Dumped, HandleInv, OnlineInv
    <2> QED
      BY <2>2, HandleRestart
  <1>6. CASE panic \/ Shutdown
    BY <1>6, DumpedNow DEF panic, Shutdown
  <1>7. CASE UNCHANGED vars
    <2>1. UNCHANGED <<sh, shandles, nhandles, did, loop, job, db, disk>>
      BY <1>7 DEF vars
    <2> QED
      BY <1>0, <2>1, Unchanged, Beside
  <1> QED
    BY <1>1, <1>2, <1>3, <1>4, <1>5, <1>6, <1>7, HandleLoop, HandleCall, HandleEnd
    DEF Next, ServerStep

LEMMA HandleTheorem ==
  ASSUME "switch" \notin NotifierCalls
  PROVE  Spec => [](TimerInv /\ LookupInv /\ HandleInv)
  <1>1. Init => TimerInv /\ LookupInv /\ HandleInv
    BY TimerInit, LookupInit, HandleInit
  <1>2. TimerInv /\ LookupInv /\ HandleInv /\ [Next]_vars => (TimerInv /\ LookupInv /\ HandleInv)'
    BY TimerNext, LookupNext, HandleNext
  <1> QED
    BY <1>1, <1>2, PTL DEF Spec

\* Both handles of a connection are made and freed together, every connection has
\* a player of its own, and neither network_process_io nor main_loop follows a
\* pointer to a handle that was freed while a verb ran, as long as the verbs told
\* of connections do not call switch_player themselves.
THEOREM NoDanglingHandle ==
  ASSUME "switch" \notin NotifierCalls PROVE Spec => []HandlesSound
  <1>1. HandleInv => HandlesSound
    BY DEF HandleInv, ListsInv, CursorInv, Rows, HandlesSound
  <1> QED
    BY <1>1, HandleTheorem, PTL

\* Under the same condition the database knows, whenever the main loop begins, which
\* of its users are connected: whatever was booted, redirected, recycled, closed by
\* the client or timed out, and whichever dump the server was started from.
THEOREM DatabaseKnowsWhoIsOn ==
  ASSUME "switch" \notin NotifierCalls PROVE Spec => []OnlineKnown
  <1>1. HandleInv => OnlineKnown
    <2> SUFFICES ASSUME HandleInv, loop.at = "top"
                 PROVE  /\ db.online \cap db.users = {sh[h].player : h \in ToSet(shandles)} \cap db.users
                        /\ bf_connected_players \subseteq db.online
      BY DEF OnlineKnown
    <2>1. Known(sh, shandles, db.online, db.users, 0) /\ db.users \subseteq User
      BY DEF HandleInv, OnlineInv, Skip, Leaving, Joining, Busy
    <2>2. 0 \notin ToSet(shandles)
      BY FindIs DEF HandleInv
    <2>3. \A h \in ToSet(shandles) : sh[h].player \in User => sh[h].player \in db.online
      BY <2>1, <2>2 DEF Known
    <2>4. \A h \in ToSet(shandles) : sh[h].logged => sh[h].player \in User
      BY DEF HandleInv, ListsInv, Rows
    <2>5. bf_connected_players \subseteq db.online
      BY <2>3, <2>4 DEF bf_connected_players
    <2>6. db.online \cap db.users = {sh[h].player : h \in ToSet(shandles)} \cap db.users
      BY <2>1, <2>3 DEF Known
    <2> QED
      BY <2>5, <2>6
  <1> QED
    BY <1>1, HandleTheorem, PTL


-----------------------------------------------------------------------------
(* What goes over the network.                                             *)

\* A connection is being opened, for which there is a handle left.
Opening == job.open = 1 \/ loop.at = "connect"

NetInv ==
  /\ DOMAIN nh = Handle /\ DOMAIN did = DidFields
  /\ nhandles \in Seq(Handle) /\ Distinct(nhandles)
  /\ did.conns \in 0..MaxConn /\ \A h \in ToSet(nhandles) : h <= did.conns
  /\ Opening => did.conns < MaxConn
  /\ \A h \in ToSet(nhandles) : HandleOk(nh[h])

LEMMA RoomIsNat == ASSUME NEW room \in Rooms PROVE room \in Nat
  BY ConnectionsAssumption DEF Rooms

LEMMA NetFrame ==
  ASSUME NetInv, UNCHANGED nhandles, DOMAIN nh' = Handle, DOMAIN did' = DidFields,
         did'.conns = did.conns, Opening' => Opening,
         \A h \in ToSet(nhandles) : HandleOk(nh'[h])
  PROVE  NetInv'
  BY DEF NetInv

LEMMA NetSame ==
  ASSUME NetInv, UNCHANGED <<nh, nhandles>>, DOMAIN did' = DidFields,
         did'.conns = did.conns, Opening' => Opening
  PROVE  NetInv'
  BY NetFrame DEF NetInv

\* One handle changes, and stays sound if it is in the list.
LEMMA NetOne ==
  ASSUME NetInv, UNCHANGED nhandles, DOMAIN did' = DidFields, did'.conns = did.conns,
         Opening' => Opening, NEW h, NEW m, nh' = [nh EXCEPT ![h] = m],
         h \in Handle /\ HandleOk(nh[h]) => HandleOk(m)
  PROVE  NetInv'
  <1>1. DOMAIN nh' = Handle
    BY DEF NetInv
  <1>2. ASSUME NEW g \in ToSet(nhandles) PROVE HandleOk(nh'[g])
    <2>1. g \in Handle /\ HandleOk(nh[g])
      BY SetOf DEF NetInv
    <2>2. nh'[g] = IF g = h THEN m ELSE nh[g]
      BY <2>1 DEF NetInv
    <2> QED
      BY <2>1, <2>2
  <1> QED
    BY <1>1, <1>2, NetFrame

\* A handle goes, if it is there; the others stay as they were or stay sound.
LEMMA NetFreed ==
  ASSUME NetInv, UNCHANGED did, Opening' => Opening, NEW h, DOMAIN nh' = Handle,
         nhandles' = Without(nhandles, h),
         \A g \in Handle : g # h /\ HandleOk(nh[g]) => HandleOk(nh'[g])
  PROVE  NetInv'
  <1>1. /\ nhandles' \in Seq(Handle) /\ Distinct(nhandles')
        /\ ToSet(nhandles') = ToSet(nhandles) \ {h} /\ ToSet(nhandles) \subseteq Handle
    BY WithoutIs, SetOf DEF NetInv
  <1> QED
    BY <1>1 DEF NetInv

LEMMA NetFreedOne ==
  ASSUME NetInv, UNCHANGED did, Opening' => Opening, NEW h, Freed(h)
  PROVE  NetInv'
  <1>1. nh' = [nh EXCEPT ![h] = Gone] /\ nhandles' = Without(nhandles, h) /\ DOMAIN nh = Handle
    BY DEF Freed, NetInv
  <1>2. \A g \in Handle : g # h => nh'[g] = nh[g]
    BY <1>1
  <1>3. DOMAIN nh' = Handle /\ \A g \in Handle : g # h /\ HandleOk(nh[g]) => HandleOk(nh'[g])
    BY <1>1, <1>2
  <1> QED
    BY <1>1, <1>3, NetFreed

LEMMA NetNew ==
  ASSUME NetInv, did.conns < MaxConn, ~Opening', NEW oid, NEW print, NEW outbound, NEW listens,
         NewConnection(oid, print, outbound, listens)
  PROVE  NetInv'
  <1>1. PICK h, n : h = did.conns + 1 /\ n = [new_nhandle EXCEPT !.input_suspended = listens]
    OBVIOUS
  <1>2. /\ nh' = [nh EXCEPT ![h] = n] /\ nhandles' = <<h>> \o nhandles
        /\ did' = [did EXCEPT !.conns = h, !.unconnected = did.unconnected - 1]
    BY <1>1 DEF NewConnection
  <1>3. HandleOk(n)
    BY <1>1, NewOk
  <1>4. /\ did.conns \in Nat /\ MaxConn \in Nat /\ h \in Handle /\ h \in 0..MaxConn
        /\ \A g \in ToSet(nhandles) : g # h /\ g <= h
        /\ ToSet(nhandles) \subseteq Handle
    BY <1>1, SetOf, ConnectionsAssumption, SMTT(30) DEF NetInv, Handle
  <1>5. /\ nhandles' \in Seq(Handle) /\ Distinct(nhandles')
        /\ ToSet(nhandles') = ToSet(nhandles) \cup {h}
    BY <1>2, <1>4, PushIs DEF NetInv
  <1>6. DOMAIN nh' = Handle /\ nh'[h] = n /\ \A g \in ToSet(nhandles) : nh'[g] = nh[g]
    BY <1>2, <1>4 DEF NetInv
  <1>7. DOMAIN did' = DidFields /\ did'.conns = h
    BY <1>2 DEF NetInv, DidFields
  <1>8. \A g \in ToSet(nhandles') : HandleOk(nh'[g])
    BY <1>3, <1>5, <1>6 DEF NetInv
  <1>9. \A g \in ToSet(nhandles') : g <= did'.conns
    BY <1>4, <1>5, <1>7 DEF Handle
  <1> QED
    BY <1>4, <1>5, <1>6, <1>7, <1>8, <1>9 DEF NetInv

LEMMA NetInit == ASSUME Init PROVE NetInv
  <1>1. /\ nh = [h \in Handle |-> Gone] /\ nhandles = <<>>
        /\ did = [conns |-> 0, tasks |-> 0, bytes |-> 0, restarts |-> 0, unconnected |-> -2]
        /\ loop = At("top") /\ job = NoJob
    BY DEF Init
  <1>2. PICK none : none = nhandles
    OBVIOUS
  <1>3. none \in Seq(Handle) /\ DOMAIN none = {} /\ ToSet(none) = {}
    BY <1>1, <1>2 DEF ToSet
  <1>4. ~Opening
    BY <1>1 DEF Opening, At, NoJob
  <1>5. DOMAIN did = DidFields /\ did.conns = 0
    BY <1>1 DEF DidFields
  <1>6. 0 \in 0..MaxConn /\ DOMAIN nh = Handle
    BY <1>1, ConnectionsAssumption
  <1> QED
    BY <1>2, <1>3, <1>4, <1>5, <1>6 DEF NetInv, Distinct

LEMMA NetRestart == ASSUME NetInv, NEW saved, Restart(saved) PROVE NetInv'
  <1>1. /\ nh' = [h \in Handle |-> Gone] /\ nhandles' = <<>>
        /\ did' = [did EXCEPT !.restarts = @ + 1, !.unconnected = -2]
        /\ loop' = At("top") /\ job' = NoJob
    BY DEF Restart
  <1>2. PICK none : none = nhandles'
    OBVIOUS
  <1>3. none \in Seq(Handle) /\ DOMAIN none = {} /\ ToSet(none) = {}
    BY <1>1, <1>2 DEF ToSet
  <1>4. ~Opening'
    BY <1>1 DEF Opening, At, NoJob
  <1>5. DOMAIN did' = DidFields /\ did'.conns = did.conns /\ DOMAIN nh' = Handle
    BY <1>1 DEF DidFields, NetInv
  <1> QED
    BY <1>2, <1>3, <1>4, <1>5 DEF NetInv, Distinct


LEMMA RunsOpenNothing ==
  ASSUME NEW name, NEW player, NEW h, NEW then, NEW d, Run(name, player, h, then, d),
         loop'.at # "connect"
  PROVE  ~Opening'
  BY RunNotOpen DEF Opening

\* network_process_io at one handle.
LEMMA NetServes == ASSUME NetInv, TimerInv, LookupInv, NEW room \in Rooms, IoServes(room) PROVE NetInv'
  <1>1. PICK h, m : h = loop.h /\ m = Served(h, room).n
    OBVIOUS
  <1>2. nh' = [nh EXCEPT ![h] = m] /\ UNCHANGED <<nhandles, did, job>>
        /\ loop.at = "io" /\ loop' = Moved(nhandles, loop.next)
    BY <1>1 DEF IoServes
  <1>3. ASSUME HandleOk(nh[h]) PROVE HandleOk(m)
    <2>1. PICK in : in = IF h \in loop.rd THEN pull_input(nh[h]) ELSE [n |-> nh[h], ok |-> TRUE]
      OBVIOUS
    <2>2. m = (IF in.ok /\ h \in loop.wr THEN push_output(in.n, room) ELSE in).n
      BY <1>1, <2>1 DEF Served
    <2>3. in.n = pull_input(nh[h]).n \/ in.n = nh[h]
      BY <2>1
    <2>4. PICK n, p : n = nh[h] /\ p = in.n
      OBVIOUS
    <2>5. HandleOk(n) /\ (p = pull_input(n).n \/ p = n)
      BY <1>3, <2>3, <2>4
    <2>6. HandleOk(p)
      BY ONLY <2>5, PullOk
    <2>7. m = push_output(p, room).n \/ m = p
      BY <2>2, <2>4
    <2>8. room \in Nat
      BY RoomIsNat
    <2> QED
      BY ONLY <2>6, <2>7, <2>8, PushOk
  <1>4. ~Opening'
    BY <1>2, MovedIs DEF Opening, TimerInv, LookupInv
  <1>5. DOMAIN did' = DidFields /\ did'.conns = did.conns
    BY <1>2 DEF NetInv
  <1> QED
    BY <1>2, <1>3, <1>4, <1>5, NetOne

\* What the client does to its end, and the switches of a handle.
LEMMA NetSwitched ==
  ASSUME NetInv, UNCHANGED nhandles, DOMAIN did' = DidFields, did'.conns = did.conns,
         Opening' => Opening, NEW h,
         \/ \E c \in Chars : nh' = [nh EXCEPT ![h].wire = Append(@, c)]
         \/ \E up \in BOOLEAN : nh' = [nh EXCEPT ![h].hungup = up]
         \/ \E no \in BOOLEAN : nh' = [nh EXCEPT ![h].input_suspended = no]
         \/ \E value \in BOOLEAN : nh' = [nh EXCEPT ![h].binary = value]
  PROVE  NetInv'
  <1>1. PICK n : n = nh[h]
    OBVIOUS
  <1>2. PICK m : /\ nh' = [nh EXCEPT ![h] = m]
                 /\ \/ \E c \in Chars : m = [n EXCEPT !.wire = Append(n.wire, c)]
                    \/ \E up \in BOOLEAN : m = [n EXCEPT !.hungup = up]
                    \/ \E no \in BOOLEAN : m = [n EXCEPT !.input_suspended = no]
                    \/ \E value \in BOOLEAN : m = [n EXCEPT !.binary = value]
    BY <1>1
  <1>3. ASSUME HandleOk(n) PROVE HandleOk(m)
    <2>1. DOMAIN n = NFields /\ n.wire \in Texts /\ n.binary \in BOOLEAN
      BY <1>3 DEF HandleOk, OutOk, InputOk
    <2>2. /\ DOMAIN m = NFields
          /\ m.output = n.output /\ m.output_lines_flushed = n.output_lines_flushed
          /\ m.sent = n.sent /\ m.got = n.got /\ m.lost = n.lost /\ m.read = n.read
          /\ m.lines = n.lines
          /\ m.input = n.input /\ m.last_input_was_CR = n.last_input_was_CR
      BY <1>2, <2>1 DEF NFields
    <2>3. m.wire = n.wire \/ \E c \in Chars : m.wire = Append(n.wire, c)
      BY <1>2, <2>1 DEF NFields
    <2>4. m.wire \in Texts
      <3>1. CASE m.wire = n.wire
        BY ONLY <2>1, <3>1
      <3>2. CASE \E c \in Chars : m.wire = Append(n.wire, c)
        <4>1. PICK c \in Chars : m.wire = Append(n.wire, c)
          BY <3>2
        <4>2. n.wire \in Seq(Chars)
          BY ONLY <2>1 DEF Texts
        <4>3. m.wire \in Seq(Chars)
          BY ONLY <4>1, <4>2, AppendProperties
        <4> QED
          BY ONLY <4>3 DEF Texts
      <3> QED
        BY ONLY <2>3, <3>1, <3>2
    <2>5. m.binary \in BOOLEAN
      <3>1. m.binary = n.binary \/ \E value \in BOOLEAN : m.binary = value
        BY <1>2, <2>1 DEF NFields
      <3> QED
        BY ONLY <2>1, <3>1
    <2> QED
      BY ONLY <1>3, <2>2, <2>4, <2>5, SwitchedOk
  <1> QED
    BY <1>1, <1>2, <1>3, NetOne

LEMMA NetLoop == ASSUME TimerInv, LookupInv, NetInv, LoopStep PROVE NetInv'
  <1>0. DOMAIN loop = LoopFields /\ (loop.at # "lookup" => job.open = 0) /\ DOMAIN did = DidFields
    BY DEF TimerInv, LookupInv, NetInv
  <1>1. CASE Select
    BY <1>1, <1>0, NetSame DEF Select, Opening, LoopFields
  <1>2. CASE AcceptStart
    BY <1>2, <1>0, GoIs, NetSame DEF AcceptStart, Opening
  <1>3. CASE AcceptFinish
    <2>1. loop'.at = "accept" /\ UNCHANGED job /\ job.open = 0
      BY <1>3, <1>0 DEF AcceptFinish, LoopFields
    <2>2. ~Opening'
      BY <2>1 DEF Opening
    <2>3. \/ UNCHANGED <<nh, nhandles, did>>
          \/ did.conns < MaxConn /\ \E oid, print : NewConnection(oid, print, FALSE, TRUE)
      BY <1>3 DEF AcceptFinish
    <2> QED
      BY <1>0, <2>2, <2>3, NetNew, NetSame
  <1>4. CASE AcceptDone
    BY <1>4, <1>0, NetSame, MovedIs DEF AcceptDone, Opening, LoopFields
  <1>5. CASE IoDone
    BY <1>5, <1>0, NetSame, GoIs DEF IoDone, Opening
  <1>6. ASSUME NEW room \in Rooms, IoServes(room) PROVE NetInv'
    BY <1>6, NetServes
  <1>7. ASSUME NEW room \in Rooms, IoCloses(room) PROVE NetInv'
    BY <1>7, <1>0, NetSame, RunsOpenNothing, GoIs DEF IoCloses
  <1>8. CASE CheckpointStarted
    BY <1>8, <1>0, NetSame, RunsOpenNothing DEF CheckpointStarted, LoopFields
  <1>9. CASE Dump
    BY <1>9, <1>0, NetSame DEF Dump, Opening, LoopFields
  <1>10. CASE Shutdown
    BY <1>10, NetRestart DEF Shutdown
  <1>11. ASSUME NEW h \in Handle, RunInput(h) PROVE NetInv'
    <2>1. loop'.at = "verb" /\ UNCHANGED <<nhandles, did>>
          /\ nh' = [nh EXCEPT ![h].input_suspended = FALSE]
      BY <1>11, <1>0, GoIs DEF RunInput
    <2>2. \E name, then : Run(name, 0, h, then, db)
      BY <1>11 DEF RunInput
    <2>3. ~Opening'
      BY <2>1, <2>2, RunsOpenNothing
    <2>4. \E no \in BOOLEAN : nh' = [nh EXCEPT ![h].input_suspended = no]
      BY <2>1
    <2> QED
      BY <1>0, <2>1, <2>3, <2>4, NetSwitched
  <1>12. CASE RunTask
    BY <1>12, <1>0, NetSame, RunsOpenNothing, GoIs DEF RunTask, DidFields
  <1>13. CASE TasksDone
    BY <1>13, <1>0, NetSame, MovedIs DEF TasksDone, Opening, LoopFields
  <1>14. CASE SweepTells
    BY <1>14, <1>0, NetSame, RunsOpenNothing, GoIs DEF SweepTells
  <1>15. CASE SweepRecycled
    BY <1>15, <1>0, NetFreedOne, MovedIs DEF SweepRecycled, Sweeping, Opening
  <1>16. CASE SweepKeeps
    BY <1>16, <1>0, NetSame, MovedIs DEF SweepKeeps, Sweeping, Opening
  <1>17. CASE SweepDone
    BY <1>17, <1>0, NetSame, GoIs DEF SweepDone, Opening
  <1> QED
    BY <1>1, <1>2, <1>3, <1>4, <1>5, <1>6, <1>7, <1>8, <1>9, <1>10, <1>11, <1>12, <1>13,
       <1>14, <1>15, <1>16, <1>17 DEF LoopStep


LEMMA NetCall == ASSUME TimerInv, LookupInv, NetInv, CallStep PROVE NetInv'
  <1>0. /\ DOMAIN loop = LoopFields /\ DOMAIN job = JobFields /\ DOMAIN did = DidFields
        /\ DOMAIN nh = Handle /\ (loop.at # "lookup" => job.open = 0)
        /\ (Opening => did.conns < MaxConn)
    BY DEF TimerInv, LookupInv, NetInv
  <1>a. ASSUME Called PROVE job'.open = job.open
    BY <1>a, <1>0 DEF Called, JobFields
  <1>1. ASSUME NEW h \in Handle, NEW room \in Rooms, NEW no_flush \in BOOLEAN,
               bf_notify(h, no_flush, room)
        PROVE  NetInv'
    <2>1. PICK n, flush_ok : n = nh[h] /\ flush_ok = ~no_flush
      OBVIOUS
    <2>2. PICK m : m = enqueue_output(n, flush_ok, room).n
      OBVIOUS
    <2>3. nh' = [nh EXCEPT ![h] = m] /\ UNCHANGED <<nhandles, did, job, loop>>
      BY <1>1, <2>1, <2>2 DEF bf_notify
    <2>4. room \in Nat /\ flush_ok \in BOOLEAN
      BY <2>1, RoomIsNat
    <2>5. HandleOk(n) => HandleOk(m)
      BY ONLY <2>2, <2>4, EnqueueOk
    <2>6. Opening' => Opening
      BY <2>3 DEF Opening
    <2> QED
      BY <1>0, <2>1, <2>3, <2>5, <2>6, NetOne
  <1>2. ASSUME NEW h \in Handle, boot_player(h) PROVE NetInv'
    BY <1>2, <1>0, <1>a, NetSame DEF boot_player, Opening
  <1>3. ASSUME NEW h \in Handle, NEW value \in BOOLEAN, bf_set_connection_option(h, value)
        PROVE  NetInv'
    <2>1. \E v \in BOOLEAN : nh' = [nh EXCEPT ![h].binary = v]
      BY <1>3 DEF bf_set_connection_option
    <2>2. UNCHANGED <<nhandles, did, loop>> /\ (Opening' => Opening)
      BY <1>3, <1>a DEF bf_set_connection_option, Opening
    <2> QED
      BY <1>0, <2>1, <2>2, NetSwitched
  <1>4. ASSUME NEW u \in User, RecycleUser(u) PROVE NetInv'
    BY <1>4, <1>0, <1>a, NetSame DEF RecycleUser, Opening
  <1>5. ASSUME NEW h \in ToSet(shandles), NEW new \in User, bf_switch_player(sh[h].player, new)
        PROVE  NetInv'
    <2>1. PICK existing : existing = find_shandle(new)
      OBVIOUS
    <2>2. /\ nh' = IF existing = 0 THEN nh ELSE [nh EXCEPT ![existing] = Gone]
          /\ nhandles' = Without(nhandles, existing) /\ UNCHANGED <<did, loop>>
      BY <1>5, <2>1 DEF bf_switch_player
    <2>3. Opening' => Opening
      BY <1>5, <1>a DEF bf_switch_player, Opening
    <2>4. DOMAIN nh' = Handle /\ \A g \in Handle : g # existing => nh'[g] = nh[g]
      BY <1>0, <2>2
    <2>5. \A g \in Handle : g # existing /\ HandleOk(nh[g]) => HandleOk(nh'[g])
      BY <2>4
    <2> QED
      BY <2>2, <2>3, <2>4, <2>5, NetFreed
  <1>6. ASSUME NEW port \in Port, bf_listen(port) PROVE NetInv'
    BY <1>6, <1>0, <1>a, NetSame DEF bf_listen, Opening
  <1>7. ASSUME NEW port \in Port, bf_unlisten(port) PROVE NetInv'
    BY <1>7, <1>0, <1>a, NetSame DEF bf_unlisten, Opening
  <1>8. CASE bf_dump_database
    BY <1>8, <1>0, <1>a, NetSame DEF bf_dump_database, Opening, LoopFields
  <1>9. CASE bf_shutdown
    BY <1>9, <1>0, <1>a, NetSame DEF bf_shutdown, Opening, LoopFields
  <1>10. CASE Compute
    BY <1>10, <1>0, NetSame DEF Compute, Opening, JobFields
  <1>11. CASE OpenStart
    BY <1>11 DEF OpenStart, NetInv
  <1>12. ASSUME NEW b \in BOOLEAN, OpenConnects(b) PROVE NetInv'
    BY <1>12, <1>0, NetSame DEF OpenConnects, Opening
  <1>13. ASSUME NEW b \in BOOLEAN, OpenFinish(b) PROVE NetInv'
    <2>1. loop.at = "connect" /\ loop'.at = "verb" /\ UNCHANGED job
      BY <1>13, <1>0, GoIs DEF OpenFinish
    <2>2. ~Opening' /\ did.conns < MaxConn
      BY <1>0, <2>1 DEF Opening
    <2>3. \/ UNCHANGED <<nh, nhandles, did>>
          \/ NewConnection(SYSTEM_OBJECT, FALSE, TRUE, FALSE)
      BY <1>13 DEF OpenFinish
    <2> QED
      BY <1>0, <2>2, <2>3, NetNew, NetSame
  <1> QED
    BY <1>1, <1>2, <1>3, <1>4, <1>5, <1>6, <1>7, <1>8, <1>9, <1>10, <1>11, <1>12, <1>13 DEF CallStep

LEMMA NetEnd == ASSUME TimerInv, LookupInv, NetInv, EndStep PROVE NetInv'
  <1>0. DOMAIN loop = LoopFields /\ DOMAIN did = DidFields /\ DOMAIN nh = Handle
    BY DEF TimerInv, NetInv
  <1>a. ASSUME Stop PROVE job'.open = 0
    BY <1>a DEF Stop, NoJob
  <1>b. ASSUME NEW list, NEW where, where # "connect", loop.at = "verb",
               loop' = IF job.h \in ToSet(shandles)
                       THEN [Moved(list, loop.next) EXCEPT !.at = IF @ = "verb" THEN where ELSE @]
                       ELSE [loop EXCEPT !.at = "undefined"]
        PROVE  loop'.at # "connect"
    BY <1>b, <1>0, MovedIs DEF LoopFields
  <1>1. CASE EndClose
    BY <1>1, <1>a, <1>b, NetFreedOne DEF EndClose, Ends, Opening
  <1>2. CASE EndSwept
    BY <1>2, <1>a, <1>b, NetFreedOne DEF EndSwept, Ends, Opening
  <1>3. CASE EndTask
    BY <1>3, <1>0, <1>a, GoIs, NetSame DEF EndTask, Ends, Opening
  <1>4. CASE EndLoginFails
    BY <1>4, <1>0, <1>a, GoIs, NetSame DEF EndLoginFails, Ends, Opening
  <1>5. CASE EndRedirected
    <2>1. loop.at = "verb" /\ UNCHANGED <<nh, nhandles, did>>
      BY <1>5 DEF EndRedirected, Ends
    <2>2. CASE job.h \in ToSet(shandles)
      <3>1. Run("user_connected", sh[job.h].player, job.h, "tasks", db) /\ UNCHANGED loop
        BY <1>5, <2>2 DEF EndRedirected
      <3> QED
        BY <1>0, <2>1, <3>1, RunsOpenNothing, NetSame
    <2>3. CASE job.h \notin ToSet(shandles)
      <3>1. Stop /\ Go("undefined")
        BY <1>5, <2>3 DEF EndRedirected
      <3> QED
        BY <1>0, <1>a, <2>1, <3>1, GoIs, NetSame DEF Opening
    <2> QED
      BY <2>2, <2>3
  <1>6. ASSUME NEW u \in User, NEW room \in Rooms, player_connected(u, room) PROVE NetInv'
    <2>1. PICK h, existing, n : h = job.h /\ existing = find_shandle(u) /\ n = nh[h]
      OBVIOUS
    <2>2. PICK m : m = Told(n, sh[h].print, room)
      OBVIOUS
    <2>3. PICK told : told = [nh EXCEPT ![h] = m]
      OBVIOUS
    <2>4. /\ nh' = IF existing = 0 THEN told ELSE [told EXCEPT ![existing] = Gone]
          /\ nhandles' = Without(nhandles, existing) /\ UNCHANGED <<did, loop>> /\ loop.at = "verb"
      BY <1>6, <2>1, <2>2, <2>3 DEF player_connected, Ends
    <2>5. \E name, then : Run(name, u, job.h, then, db)
      BY <1>6 DEF player_connected
    <2>6. ~Opening'
      BY <2>4, <2>5, RunsOpenNothing
    <2>7. HandleOk(n) => HandleOk(m)
      <3>1. PICK yes : yes = TRUE
        OBVIOUS
      <3>2. yes \in BOOLEAN /\ room \in Nat
        BY <3>1, RoomIsNat
      <3>3. m = n \/ m = enqueue_output(n, yes, room).n
        BY <2>2, <3>1 DEF Told
      <3> QED
        BY ONLY <3>2, <3>3, EnqueueOk
    <2>8. DOMAIN told = Handle /\ \A g \in Handle : told[g] = IF g = h THEN m ELSE nh[g]
      BY <1>0, <2>3
    <2>9. DOMAIN nh' = Handle /\ \A g \in Handle : g # existing => nh'[g] = told[g]
      BY <2>4, <2>8
    <2>10. \A g \in Handle : g # existing /\ HandleOk(nh[g]) => HandleOk(nh'[g])
      BY <2>1, <2>7, <2>8, <2>9
    <2> QED
      BY <2>4, <2>6, <2>9, <2>10, NetFreed
  <1> QED
    BY <1>1, <1>2, <1>3, <1>4, <1>5, <1>6 DEF EndStep

LEMMA NetNext == ASSUME TimerInv, LookupInv, NetInv, [Next]_vars PROVE NetInv'
  <1>0. DOMAIN loop = LoopFields /\ DOMAIN job = JobFields /\ DOMAIN did = DidFields
    BY DEF TimerInv, NetInv
  <1>1. ASSUME NEW port \in Port, ClientConnects(port) PROVE NetInv'
    BY <1>1, <1>0, NetSame DEF ClientConnects, Opening
  <1>2. ASSUME NEW h \in Handle, ClientHangsUp(h) PROVE NetInv'
    <2>1. \E up \in BOOLEAN : nh' = [nh EXCEPT ![h].hungup = up]
      BY <1>2 DEF ClientHangsUp
    <2>2. UNCHANGED <<nhandles, did>> /\ (Opening' => Opening)
      BY <1>2 DEF ClientHangsUp, Opening
    <2> QED
      BY <1>0, <2>1, <2>2, NetSwitched
  <1>3. ASSUME NEW h \in Handle, NEW c \in {"x", "CR", "LF", "BS", "ctl"}, ClientSends(h, c) PROVE NetInv'
    <2>1. \E d \in Chars : nh' = [nh EXCEPT ![h].wire = Append(@, d)]
      BY <1>3 DEF ClientSends, Chars
    <2>2. UNCHANGED nhandles /\ (Opening' => Opening)
      BY <1>3 DEF ClientSends, Opening
    <2>3. DOMAIN did' = DidFields /\ did'.conns = did.conns
      BY <1>3, <1>0 DEF ClientSends, DidFields
    <2> QED
      BY <2>1, <2>2, <2>3, NetSwitched
  <1>4. CASE Tick
    BY <1>4, <1>0, NetSame DEF Tick, Opening
  <1>5. CASE Alarm
    <2>1. UNCHANGED <<nh, nhandles, did>> /\ job'.open = job.open
      BY <1>5, <1>0 DEF Alarm, JobFields
    <2>2. loop' = [loop EXCEPT !.checkpoint = TRUE] \/ loop' = [loop EXCEPT !.at = "verb"]
      BY <1>5 DEF Alarm
    <2>3. loop'.at \in {loop.at, "verb"}
      BY <1>0, <2>2 DEF LoopFields
    <2> QED
      BY <1>0, <2>1, <2>3, NetSame DEF Opening
  <1>6. CASE HelperProcesses \/ HelpersFail
    BY <1>6, <1>0, NetSame DEF HelperProcesses, HelpersFail, Elsewhere, Opening
  <1>7. CASE Crash \/ panic
    BY <1>7, NetRestart DEF Crash, panic
  <1>8. CASE UNCHANGED vars
    BY <1>8, <1>0, NetSame DEF vars, Opening
  <1> QED
    BY <1>1, <1>2, <1>3, <1>4, <1>5, <1>6, <1>7, <1>8, NetLoop, NetCall, NetEnd
    DEF Next, ServerStep, ClientStep

LEMMA NetTheorem == Spec => [](TimerInv /\ LookupInv /\ NetInv)
  <1>1. Init => TimerInv /\ LookupInv /\ NetInv
    BY TimerInit, LookupInit, NetInit
  <1>2. TimerInv /\ LookupInv /\ NetInv /\ [Next]_vars => (TimerInv /\ LookupInv /\ NetInv)'
    BY TimerNext, LookupNext, NetNext
  <1> QED
    BY <1>1, <1>2, PTL DEF Spec

\* Whatever a socket takes at a time and whenever the client hangs up, enqueue_output
\* drops lines only from a full queue, every line dropped is counted, and push_output
\* tells the client of all of them before it gets a later line; lines arrive in the
\* order in which they were sent, and none twice.
THEOREM EveryLossIsTold == Spec => []OutputTold
  <1>1. NetInv => OutputTold
    BY HandlePromises DEF NetInv, OutputTold
  <1> QED
    BY <1>1, NetTheorem, PTL

\* However read() cuts the client's bytes into pieces, and however the connection goes
\* to and from binary mode between them, the lines that pull_input hands over are those
\* of the bytes sent: each ends at CR, LF or CR LF, is edited by its backspaces alone,
\* and what waits in the buffer is the beginning of the next.
THEOREM LinesArriveWhole == Spec => []LinesFramed
  <1>1. NetInv => LinesFramed
    BY HandlePromises DEF NetInv, LinesFramed
  <1> QED
    BY <1>1, NetTheorem, PTL
=============================================================================
