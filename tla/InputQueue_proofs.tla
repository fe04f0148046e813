-------------------------- MODULE InputQueue_proofs --------------------------
(***************************************************************************)
(* Proofs about InputQueue for queues of any length: the pointers agree,   *)
(* and they implement the list of lines of InputList.                      *)
(***************************************************************************)
EXTENDS InputQueue, Lemmas, FiniteSetTheorems, SequenceTheorems

\* Place i ends a run of lines of one kind in the queue of m tasks p.
End(m, p, i) == i = m \/ kind[p[i + 1]] # kind[p[i]]

\* The m tasks of the queue are p[1], ..., p[m], and p[0] is the tqueue.
Queued(m, p) ==
  /\ m \in Nat /\ p \in [0..m -> 0..N]
  /\ p[0] = 0
  /\ \A i \in 1..m : p[i] \in Node
  /\ \A i, j \in 0..m : p[i] = p[j] => i = j
  /\ kind \in [Node -> Kinds \cup {"FREE"}]
  /\ \A n \in Node : kind[n] # "FREE" <=> \E i \in 1..m : n = p[i]

\* They are linked in this order.
Linked(m, p) ==
  /\ next \in [0..N -> 0..N]
  /\ \A i \in 0..(m - 1) : next[p[i]] = p[i + 1]
  /\ next[p[m]] = NULL
  /\ last_input = p[m]

\* The tqueue and the end of each run are linked to the next end of a run, the
\* other tasks to nothing.
Threaded(m, p) ==
  /\ itail \in [0..N -> 0..N]
  /\ \A i \in 0..(m - 1) : i = 0 \/ End(m, p, i) =>
       \E e \in (i + 1)..m : /\ itail[p[i]] = p[e] /\ End(m, p, e)
                             /\ \A f \in (i + 1)..(e - 1) : ~End(m, p, f)
  /\ \A i \in 1..m : i = m \/ ~End(m, p, i) => itail[p[i]] = NULL
  /\ \A n \in Node : kind[n] = "FREE" => itail[n] = NULL
  /\ m = 0 => itail[0] = NULL

\* last_itail is where the end of the last run is linked.
LastRun(m, p) ==
  \E l \in 0..m : /\ last_itail = p[l]
                  /\ l = 0 \/ End(m, p, l)
                  /\ l = 0 \/ l < m
                  /\ \A f \in (l + 1)..(m - 1) : ~End(m, p, f)

Rep(m, p) == Queued(m, p) /\ Linked(m, p) /\ Threaded(m, p) /\ LastRun(m, p)

Inv == \E m \in Nat : \E p \in [0..m -> 0..N] : Rep(m, p)

LEMMA InitInv ==
  Init => Inv
  <1> SUFFICES ASSUME Init PROVE Inv
    OBVIOUS
  <1> DEFINE p == [i \in 0..0 |-> 0]
  <1>1. p \in [0..0 -> 0..N] /\ p[0] = 0 /\ \A i \in 0..0 : i = 0
    BY NAssumption
  <1> HIDE DEF p
  <1>2. Queued(0, p)
    BY <1>1 DEF Init, Queued, Node
  <1>3. Linked(0, p)
    BY <1>1, NAssumption DEF Init, Linked, NULL
  <1>4. Threaded(0, p)
    BY <1>1, NAssumption DEF Init, Threaded, NULL, Node
  <1>5. LastRun(0, p)
    BY <1>1 DEF Init, LastRun
  <1> QED
    BY <1>1, <1>2, <1>3, <1>4, <1>5 DEF Inv, Rep

-----------------------------------------------------------------------------
(* enqueue_input_task                                                      *)

\* The places of the tasks when t has been put before the others.
Pushed(m, p, t) == [i \in 0..(m + 1) |-> IF i = 0 THEN 0 ELSE IF i = 1 THEN t ELSE p[i - 1]]

\* The same when t has been put behind the others.
Appended(m, p, t) == [i \in 0..(m + 1) |-> IF i = m + 1 THEN t ELSE p[i]]

LEMMA FrontKept ==
  ASSUME NEW m \in Nat, NEW p, Rep(m, p), NEW t \in Node, NEW k \in Kinds, EnqueueFront(t, k),
         NEW q, q = Pushed(m, p, t)
  PROVE  Rep(m + 1, q)' /\ m # 0
  <1>1. /\ Queued(m, p) /\ Linked(m, p) /\ Threaded(m, p) /\ LastRun(m, p)
        /\ p[0] = 0 /\ t # 0 /\ t \in 0..N /\ 0 \in 0..N
    BY NAssumption DEF Rep, Node, Queued
  <1>2. m # 0 /\ next[0] = p[1]
    BY <1>1 DEF EnqueueFront, Linked
  <1>3. \A i \in 0..m : p[i] # t /\ p[i] \in 0..N
    BY <1>1 DEF EnqueueFront, Fresh, Queued, Node
  <1>4. /\ q \in [0..(m + 1) -> 0..N] /\ q[0] = 0 /\ q[1] = t
        /\ \A i \in 1..m : q[i + 1] = p[i]
        /\ \A i \in 2..(m + 1) : q[i] = p[i - 1] /\ i - 1 \in 1..m
    BY <1>1, <1>3 DEF Pushed, Node
  <1>5. /\ kind' = [kind EXCEPT ![t] = k]
        /\ \A i \in 1..m : kind'[p[i]] = kind[p[i]]
        /\ kind'[t] = k
    BY <1>1, <1>3 DEF EnqueueFront, Queued
  <1>6. /\ \A i \in 1..m : End(m + 1, q, i + 1)' <=> End(m, p, i)
        /\ End(m + 1, q, 1)' <=> kind[p[1]] # k
    <2>1. \A i \in 1..m : i # m => q[(i + 1) + 1] = p[i + 1] /\ i + 1 \in 1..m
      <3> SUFFICES ASSUME NEW i \in 1..m, i # m PROVE q[(i + 1) + 1] = p[i + 1] /\ i + 1 \in 1..m
        OBVIOUS
      <3>1. i + 1 \in 1..m
        OBVIOUS
      <3> QED
        BY <1>4, <3>1
    <2>2. 1 \in 1..m /\ q[1 + 1] = p[1] /\ 1 # m + 1
      BY <1>2, <1>4
    <2>3. ASSUME NEW i \in 1..m PROVE End(m + 1, q, i + 1)' <=> End(m, p, i)
      <3>1. q[i + 1] = p[i] /\ kind'[p[i]] = kind[p[i]] /\ (i + 1 = m + 1 <=> i = m)
        BY <1>4, <1>5
      <3>2. i # m => /\ q[(i + 1) + 1] = p[i + 1]
                     /\ kind'[p[i + 1]] = kind[p[i + 1]]
        BY <1>5, <2>1
      <3> QED
        BY <3>1, <3>2 DEF End
    <2>4. End(m + 1, q, 1)' <=> kind[p[1]] # k
      BY <1>4, <1>5, <2>2 DEF End
    <2> QED
      BY <2>3, <2>4
  <1>7. Queued(m + 1, q)'
    <2>1. \A i \in 1..(m + 1) : q[i] \in Node
      <3>1. \A i \in 1..(m + 1) : i = 1 \/ i \in 2..(m + 1)
        OBVIOUS
      <3> QED
        BY <1>1, <1>4, <3>1 DEF Queued
    <2>2. \A i, j \in 0..(m + 1) : q[i] = q[j] => i = j
      <3> SUFFICES ASSUME NEW i \in 0..(m + 1), NEW j \in 0..(m + 1), q[i] = q[j] PROVE i = j
        OBVIOUS
      <3>1. i \in {0, 1} \/ i \in 2..(m + 1)
        OBVIOUS
      <3>2. j \in {0, 1} \/ j \in 2..(m + 1)
        OBVIOUS
      <3>3. \A x \in 2..(m + 1) : q[x] = p[x - 1] /\ x - 1 \in 1..m /\ q[x] # 0 /\ q[x] # t
        BY <1>1, <1>3, <1>4 DEF Queued, Node
      <3>4. CASE i \in 2..(m + 1) /\ j \in 2..(m + 1)
        <4>1. \A x, y \in 1..m : p[x] = p[y] => x = y
          BY <1>1 DEF Queued
        <4>2. i - 1 = j - 1
          BY <3>3, <3>4, <4>1
        <4> QED
          BY <3>4, <4>2
      <3>5. CASE i \in {0, 1} /\ j \in {0, 1}
        BY <1>1, <1>4, <3>5
      <3>6. CASE i \in {0, 1} /\ j \in 2..(m + 1)
        BY <1>4, <3>3, <3>6
      <3>7. CASE i \in 2..(m + 1) /\ j \in {0, 1}
        BY <1>4, <3>3, <3>7
      <3> QED
        BY ONLY <3>1, <3>2, <3>4, <3>5, <3>6, <3>7
    <2>3. ASSUME NEW n \in Node
          PROVE  kind'[n] # "FREE" <=> \E i \in 1..(m + 1) : n = q[i]
      <3>1. CASE n = t
        BY <1>4, <1>5, <3>1 DEF Kinds
      <3>2. CASE n # t
        <4>1. kind'[n] = kind[n]
          BY <1>1, <1>5, <3>2 DEF Queued
        <4>2. (\E i \in 1..(m + 1) : n = q[i]) <=> \E i \in 1..m : n = p[i]
          <5>1. ASSUME NEW i \in 1..(m + 1), n = q[i] PROVE \E j \in 1..m : n = p[j]
            <6>1. i \in 2..(m + 1)
              BY <1>4, <3>2, <5>1
            <6> QED
              BY <1>4, <5>1, <6>1
          <5>2. ASSUME NEW i \in 1..m, n = p[i] PROVE \E j \in 1..(m + 1) : n = q[j]
            BY <1>4, <5>2
          <5> QED
            BY <5>1, <5>2
        <4> QED
          BY <1>1, <4>1, <4>2 DEF Queued
      <3> QED
        BY <3>1, <3>2
    <2>4. kind' \in [Node -> Kinds \cup {"FREE"}] /\ m + 1 \in Nat
      BY <1>1, <1>5 DEF Queued
    <2> QED
      BY <1>4, <2>1, <2>2, <2>3, <2>4 DEF Queued
  <1>8. Linked(m + 1, q)'
    <2>1. /\ next' \in [0..N -> 0..N] /\ next'[0] = t /\ next'[t] = p[1]
          /\ \A i \in 1..m : next'[p[i]] = next[p[i]]
      <3>1. /\ next \in [0..N -> 0..N] /\ next' = [next EXCEPT ![t] = next[0], ![0] = t]
            /\ next[0] \in 0..N
        BY <1>1 DEF EnqueueFront, Linked
      <3>2. \A i \in 1..m : p[i] # 0 /\ p[i] # t /\ p[i] \in 0..N
        BY <1>1, <1>3 DEF Node, Queued
      <3> QED
        BY <1>1, <1>2, <3>1, <3>2
    <2>2. \A i \in 0..m : next'[q[i]] = q[i + 1]
      <3> SUFFICES ASSUME NEW i \in 0..m PROVE next'[q[i]] = q[i + 1]
        OBVIOUS
      <3>1. CASE i = 0
        BY <1>4, <2>1, <3>1
      <3>2. CASE i = 1
        BY <1>2, <1>4, <2>1, <3>2
      <3>3. CASE i \in 2..m
        <4>1. q[i] = p[i - 1] /\ q[i + 1] = p[(i - 1) + 1] /\ i - 1 \in 1..m /\ i - 1 \in 0..(m - 1)
          BY <1>4, <3>3
        <4>2. next'[p[i - 1]] = next[p[i - 1]] /\ next[p[i - 1]] = p[(i - 1) + 1]
          BY <1>1, <2>1, <4>1 DEF Linked
        <4> QED
          BY <4>1, <4>2
      <3> QED
        BY <3>1, <3>2, <3>3
    <2>3. q[m + 1] = p[m] /\ last_input' = p[m] /\ next'[p[m]] = NULL
      <3>1. m \in 1..m
        BY <1>2
      <3>2. q[m + 1] = p[m] /\ next'[p[m]] = next[p[m]]
        BY <1>4, <2>1, <3>1
      <3>3. last_input' = p[m] /\ next[p[m]] = NULL
        BY <1>1, <1>2 DEF EnqueueFront, Linked
      <3> QED
        BY <3>2, <3>3
    <2> QED
      BY <2>1, <2>2, <2>3 DEF Linked
  <1>9. ASSUME NEW j \in 0..(m - 1), j = 0 \/ End(m, p, j)
        PROVE  \E e \in (j + 2)..(m + 1) :
                 /\ itail[p[j]] = q[e] /\ End(m + 1, q, e)'
                 /\ \A f \in (j + 2)..(e - 1) : ~End(m + 1, q, f)'
    <2>1. PICK e \in (j + 1)..m : /\ itail[p[j]] = p[e] /\ End(m, p, e)
                                  /\ \A f \in (j + 1)..(e - 1) : ~End(m, p, f)
      BY <1>1, <1>9 DEF Threaded
    <2>2. itail[p[j]] = q[e + 1] /\ End(m + 1, q, e + 1)' /\ e + 1 \in (j + 2)..(m + 1)
      BY <1>4, <1>6, <2>1
    <2>3. ASSUME NEW f \in (j + 2)..((e + 1) - 1) PROVE ~End(m + 1, q, f)'
      <3>1. f - 1 \in (j + 1)..(e - 1) /\ f - 1 \in 1..m /\ (f - 1) + 1 = f
        OBVIOUS
      <3> QED
        BY <1>6, <2>1, <3>1
    <2> QED
      BY <2>2, <2>3
  <1>10. Threaded(m + 1, q)'
    <2>1. /\ itail' \in [0..N -> 0..N]
          /\ \A n \in Node \ {t} : itail'[n] = itail[n]
          /\ IF kind[p[1]] # k THEN itail'[0] = t /\ itail'[t] = itail[0]
                               ELSE itail'[0] = itail[0] /\ itail'[t] = NULL
      <3>1. itail \in [0..N -> 0..N] /\ NULL \in 0..N /\ \A n \in Node \ {t} : n \in 0..N /\ n # 0
        BY <1>1 DEF Threaded, Node, NULL
      <3>2. CASE kind[p[1]] # k
        <4>1. itail' = [itail EXCEPT ![t] = itail[0], ![0] = t]
          BY <1>2, <3>2 DEF EnqueueFront
        <4> QED
          BY <1>1, <3>1, <3>2, <4>1
      <3>3. CASE kind[p[1]] = k
        <4>1. itail' = [itail EXCEPT ![t] = NULL]
          BY <1>2, <3>3 DEF EnqueueFront
        <4> QED
          BY <1>1, <3>1, <3>3, <4>1
      <3> QED
        BY <3>2, <3>3
    <2>2. ASSUME NEW i \in 0..m, i = 0 \/ End(m + 1, q, i)'
          PROVE  \E e \in (i + 1)..(m + 1) :
                   /\ itail'[q[i]] = q[e] /\ End(m + 1, q, e)'
                   /\ \A f \in (i + 1)..(e - 1) : ~End(m + 1, q, f)'
      <3>1. CASE i = 0 /\ kind[p[1]] # k
        <4>1. 1 \in (i + 1)..(m + 1) /\ itail'[q[i]] = q[1] /\ End(m + 1, q, 1)'
              /\ \A f \in (i + 1)..(1 - 1) : ~End(m + 1, q, f)'
          BY <1>4, <1>6, <2>1, <3>1
        <4> QED
          BY <4>1
      <3>2. CASE i = 0 /\ kind[p[1]] = k
        <4>1. PICK e \in (0 + 2)..(m + 1) :
                     /\ itail[p[0]] = q[e] /\ End(m + 1, q, e)'
                     /\ \A f \in (0 + 2)..(e - 1) : ~End(m + 1, q, f)'
          BY <1>2, <1>9
        <4>2. \A f \in (i + 1)..(e - 1) : f = 1 \/ f \in (0 + 2)..(e - 1)
          BY <3>2
        <4>3. itail'[q[i]] = q[e] /\ e \in (i + 1)..(m + 1)
          BY <1>1, <1>4, <2>1, <3>2, <4>1
        <4>4. \A f \in (i + 1)..(e - 1) : ~End(m + 1, q, f)'
          BY <1>6, <3>2, <4>1, <4>2
        <4> QED
          BY <4>1, <4>3, <4>4
      <3>3. CASE i = 1
        <4>1. PICK e \in (0 + 2)..(m + 1) :
                     /\ itail[p[0]] = q[e] /\ End(m + 1, q, e)'
                     /\ \A f \in (0 + 2)..(e - 1) : ~End(m + 1, q, f)'
          BY <1>2, <1>9
        <4>2. kind[p[1]] # k
          BY <1>6, <2>2, <3>3
        <4>3. itail'[q[i]] = q[e]
          BY <1>1, <1>4, <2>1, <3>3, <4>1, <4>2
        <4> QED
          BY <3>3, <4>1, <4>3
      <3>4. CASE i \in 2..m
        <4>1. i - 1 \in 0..(m - 1) /\ (i - 1) + 1 = i /\ i - 1 \in 1..m /\ (i - 1) + 2 = i + 1
          BY <3>4
        <4>2. End(m, p, i - 1)
          BY <1>6, <2>2, <3>4, <4>1
        <4>3. PICK e \in (i + 1)..(m + 1) :
                     /\ itail[p[i - 1]] = q[e] /\ End(m + 1, q, e)'
                     /\ \A f \in (i + 1)..(e - 1) : ~End(m + 1, q, f)'
          BY <1>9, <4>1, <4>2
        <4>4. itail'[q[i]] = itail[p[i - 1]]
          <5>1. q[i] = p[i - 1] /\ p[i - 1] \in Node \ {t}
            BY <1>1, <1>3, <1>4, <3>4, <4>1 DEF Queued
          <5> QED
            BY <2>1, <5>1
        <4> QED
          BY <4>3, <4>4
      <3> QED
        BY <3>1, <3>2, <3>3, <3>4
    <2>3. ASSUME NEW i \in 1..(m + 1), i = m + 1 \/ ~End(m + 1, q, i)' PROVE itail'[q[i]] = NULL
      <3>1. CASE i = 1
        BY <1>2, <1>4, <1>6, <2>1, <2>3, <3>1
      <3>2. CASE i \in 2..(m + 1)
        <4>1. i - 1 \in 1..m /\ (i - 1) + 1 = i /\ (i = m + 1 => i - 1 = m) /\ q[i] = p[i - 1]
          BY <1>4, <3>2
        <4>2. i - 1 = m \/ ~End(m, p, i - 1)
          BY <1>6, <2>3, <4>1
        <4>3. itail[p[i - 1]] = NULL
          BY <1>1, <4>1, <4>2 DEF Threaded
        <4> QED
          BY <1>1, <1>3, <2>1, <4>1, <4>3 DEF Queued
      <3> QED
        BY <3>1, <3>2
    <2>4. ASSUME NEW n \in Node, kind'[n] = "FREE" PROVE itail'[n] = NULL
      <3>1. n # t /\ kind[n] = "FREE"
        BY <1>1, <1>5, <2>4 DEF Kinds, Queued
      <3> QED
        BY <1>1, <2>1, <3>1 DEF Threaded
    <2> QED
      BY <2>1, <2>2, <2>3, <2>4 DEF Threaded
  <1>11. LastRun(m + 1, q)'
    <2>1. PICK l \in 0..m : /\ last_itail = p[l]
                            /\ l = 0 \/ End(m, p, l)
                            /\ l = 0 \/ l < m
                            /\ \A f \in (l + 1)..(m - 1) : ~End(m, p, f)
      BY <1>1 DEF LastRun
    <2>2. ASSUME NEW f \in (l + 2)..m PROVE ~End(m + 1, q, f)'
      <3>1. f - 1 \in (l + 1)..(m - 1) /\ f - 1 \in 1..m /\ (f - 1) + 1 = f
        OBVIOUS
      <3> QED
        BY <1>6, <2>1, <3>1
    <2>3. CASE l = 0 /\ kind[p[1]] = k
      <3>1. last_itail' = q[0]
        BY <1>1, <1>2, <1>4, <2>1, <2>3 DEF EnqueueFront
      <3>2. \A f \in (0 + 1)..((m + 1) - 1) : f = 1 \/ f \in (l + 2)..m
        BY <2>3
      <3>3. \A f \in (0 + 1)..((m + 1) - 1) : ~End(m + 1, q, f)'
        BY <1>6, <2>2, <2>3, <3>2
      <3> QED
        BY <3>1, <3>3 DEF LastRun
    <2>4. CASE l = 0 /\ kind[p[1]] # k
      <3>1. last_itail' = q[1] /\ 1 \in 0..(m + 1) /\ 1 < m + 1 /\ End(m + 1, q, 1)'
        BY <1>1, <1>2, <1>4, <1>6, <2>1, <2>4 DEF EnqueueFront
      <3>2. \A f \in (1 + 1)..((m + 1) - 1) : ~End(m + 1, q, f)'
        BY <2>2, <2>4
      <3> QED
        BY <3>1, <3>2 DEF LastRun
    <2>5. CASE l # 0
      <3>1. last_itail # 0
        BY <1>1, <2>1, <2>5 DEF Queued
      <3>2. last_itail' = last_itail /\ l \in 1..m
        BY <2>5, <3>1 DEF EnqueueFront
      <3>3. last_itail' = q[l + 1] /\ l + 1 \in 0..(m + 1) /\ l + 1 < m + 1 /\ End(m + 1, q, l + 1)'
        BY <1>4, <1>6, <2>1, <2>5, <3>2
      <3>4. \A f \in ((l + 1) + 1)..((m + 1) - 1) : ~End(m + 1, q, f)'
        BY <2>2
      <3> QED
        BY <3>3, <3>4 DEF LastRun
    <2> QED
      BY <2>3, <2>4, <2>5
  <1> QED
    BY <1>2, <1>7, <1>8, <1>10, <1>11 DEF Rep

\* Behind the others.  p[s] is the end of the last run but one afterwards.
LEMMA BackKept ==
  ASSUME NEW m \in Nat, NEW p, Rep(m, p), NEW t \in Node, NEW k \in Kinds, EnqueueBack(t, k),
         NEW q, q = Appended(m, p, t)
  PROVE  Rep(m + 1, q)'
  <1>1. /\ Queued(m, p) /\ Linked(m, p) /\ Threaded(m, p) /\ LastRun(m, p)
        /\ p[0] = 0 /\ t # 0 /\ t \in 0..N /\ 0 \in 0..N
    BY NAssumption DEF Rep, Node, Queued
  <1>2. \A i \in 0..m : p[i] # t /\ p[i] \in 0..N
    BY <1>1 DEF EnqueueBack, Fresh, Queued, Node
  <1>3. /\ q \in [0..(m + 1) -> 0..N] /\ q[0] = 0 /\ q[m + 1] = t
        /\ \A i \in 0..m : q[i] = p[i]
    BY <1>1, <1>2 DEF Appended
  <1>4. \A i \in 0..(m + 1) : i = m + 1 \/ i \in 0..m
    OBVIOUS
  <1>5. /\ kind' = [kind EXCEPT ![t] = k]
        /\ \A i \in 1..m : kind'[p[i]] = kind[p[i]]
        /\ kind'[t] = k
    BY <1>1, <1>2 DEF EnqueueBack, Queued
  <1>6. /\ \A i \in 1..(m - 1) : End(m + 1, q, i)' <=> End(m, p, i)
        /\ m # 0 => (End(m + 1, q, m)' <=> kind[p[m]] # k)
        /\ End(m + 1, q, m + 1)'
    <2>1. \A i \in 1..(m - 1) : i \in 1..m /\ i + 1 \in 1..m /\ i # m + 1 /\ i # m
      OBVIOUS
    <2>2. m # m + 1 /\ (m # 0 => m \in 1..m)
      OBVIOUS
    <2> QED
      BY <1>3, <1>5, <2>1, <2>2 DEF End
  <1>7. Queued(m + 1, q)'
    <2>1. \A i \in 1..(m + 1) : q[i] \in Node
      BY <1>1, <1>3, <1>4 DEF Queued
    <2>2. \A i, j \in 0..(m + 1) : q[i] = q[j] => i = j
      BY <1>1, <1>2, <1>3, <1>4 DEF Queued
    <2>3. ASSUME NEW n \in Node
          PROVE  kind'[n] # "FREE" <=> \E i \in 1..(m + 1) : n = q[i]
      <3>1. CASE n = t
        BY <1>3, <1>5, <3>1 DEF Kinds
      <3>2. CASE n # t
        <4>1. kind'[n] = kind[n]
          BY <1>1, <1>5, <3>2 DEF Queued
        <4>2. (\E i \in 1..(m + 1) : n = q[i]) <=> \E i \in 1..m : n = p[i]
          BY <1>3, <1>4, <3>2
        <4> QED
          BY <1>1, <4>1, <4>2 DEF Queued
      <3> QED
        BY <3>1, <3>2
    <2> QED
      BY <1>1, <1>3, <1>5, <2>1, <2>2, <2>3 DEF Queued
  <1>8. Linked(m + 1, q)'
    <2>1. next' = [next EXCEPT ![p[m]] = t, ![t] = NULL] /\ last_input' = t
      BY <1>1 DEF EnqueueBack, Linked
    <2>2. /\ next' \in [0..N -> 0..N] /\ next'[t] = NULL /\ next'[p[m]] = t
          /\ \A n \in 0..N : n # t /\ n # p[m] => next'[n] = next[n]
      BY <1>1, <1>2, <2>1 DEF Linked, NULL
    <2>3. ASSUME NEW i \in 0..m PROVE next'[q[i]] = q[i + 1]
      <3>1. CASE i = m
        BY <1>3, <2>2, <3>1
      <3>2. CASE i # m
        <4>1. i \in 0..(m - 1) /\ i + 1 \in 0..m /\ m \in 0..m
          BY <3>2
        <4>2. p[i] # p[m] /\ p[i] # t /\ p[i] \in 0..N
          BY <1>1, <1>2, <3>2, <4>1 DEF Queued
        <4>3. next[p[i]] = p[i + 1]
          BY <1>1, <4>1 DEF Linked
        <4> QED
          BY <1>3, <2>2, <4>1, <4>2, <4>3
      <3> QED
        BY <3>1, <3>2
    <2>4. (m + 1) - 1 = m
      OBVIOUS
    <2> QED
      BY <1>3, <2>1, <2>2, <2>3, <2>4 DEF Linked
  <1>9. PICK l \in 0..m : /\ last_itail = p[l]
                          /\ l = 0 \/ End(m, p, l)
                          /\ l = 0 \/ l < m
                          /\ \A f \in (l + 1)..(m - 1) : ~End(m, p, f)
    BY <1>1 DEF LastRun
  <1>10. m # 0 => itail[p[l]] = p[m] /\ next[0] # NULL
    <2> SUFFICES ASSUME m # 0 PROVE itail[p[l]] = p[m] /\ next[0] # NULL
      OBVIOUS
    <2>1. next[0] # NULL
      BY <1>1 DEF Linked, Queued, Node, NULL
    <2>2. l \in 0..(m - 1)
      BY <1>9
    <2>3. PICK e \in (l + 1)..m : itail[p[l]] = p[e] /\ End(m, p, e)
      BY <1>1, <1>9, <2>2 DEF Threaded
    <2>4. e = m
      BY <1>9, <2>3
    <2> QED
      BY <2>1, <2>3, <2>4
  <1>11. PICK s \in 0..m :
           /\ itail' = [itail EXCEPT ![t] = NULL, ![p[s]] = t] /\ last_itail' = p[s]
           /\ s = 0 \/ (End(m + 1, q, s)' /\ End(m, p, s))
           /\ \A f \in (s + 1)..m : ~End(m + 1, q, f)'
    <2>1. CASE m = 0
      <3>1. next[0] = NULL /\ l = 0
        BY <1>1, <2>1 DEF Linked
      <3>2. itail' = [itail EXCEPT ![t] = NULL, ![p[0]] = t] /\ last_itail' = p[0]
        BY <1>9, <3>1 DEF EnqueueBack
      <3>3. 0 \in 0..m /\ \A f \in (0 + 1)..m : ~End(m + 1, q, f)'
        BY <2>1
      <3> QED
        BY <3>2, <3>3
    <2>2. CASE m # 0 /\ kind[p[m]] # k
      <3>1. itail' = [itail EXCEPT ![t] = NULL, ![p[m]] = t] /\ last_itail' = p[m]
        BY <1>9, <1>10, <2>2 DEF EnqueueBack
      <3>2. End(m + 1, q, m)' /\ End(m, p, m) /\ m \in 0..m
            /\ \A f \in (m + 1)..m : ~End(m + 1, q, f)'
        BY <1>6, <2>2 DEF End
      <3> QED
        BY <3>1, <3>2
    <2>3. CASE m # 0 /\ kind[p[m]] = k
      <3>1. itail' = [itail EXCEPT ![t] = NULL, ![p[l]] = t] /\ last_itail' = p[l]
        BY <1>9, <1>10, <2>3 DEF EnqueueBack
      <3>2. l = 0 \/ (End(m + 1, q, l)' /\ End(m, p, l))
        BY <1>6, <1>9
      <3>3. ASSUME NEW f \in (l + 1)..m PROVE ~End(m + 1, q, f)'
        <4>1. f = m \/ (f \in (l + 1)..(m - 1) /\ f \in 1..(m - 1))
          OBVIOUS
        <4> QED
          BY <1>6, <1>9, <2>3, <4>1
      <3> QED
        BY <3>1, <3>2, <3>3
    <2> QED
      BY <2>1, <2>2, <2>3
  <1>12. /\ itail' \in [0..N -> 0..N] /\ itail'[t] = NULL /\ itail'[p[s]] = t
         /\ \A n \in 0..N : n # t /\ n # p[s] => itail'[n] = itail[n]
    BY <1>1, <1>2, <1>11 DEF Threaded, NULL
  <1>13. \A i \in 0..m : i # s => itail'[p[i]] = itail[p[i]]
    BY <1>1, <1>2, <1>12 DEF Queued
  <1>14. Threaded(m + 1, q)'
    <2>1. ASSUME NEW i \in 0..m, i = 0 \/ End(m + 1, q, i)'
          PROVE  \E e \in (i + 1)..(m + 1) :
                   /\ itail'[q[i]] = q[e] /\ End(m + 1, q, e)'
                   /\ \A f \in (i + 1)..(e - 1) : ~End(m + 1, q, f)'
      <3>1. CASE i = s
        <4>1. m + 1 \in (i + 1)..(m + 1) /\ (m + 1) - 1 = m
          OBVIOUS
        <4> QED
          BY <1>3, <1>6, <1>11, <1>12, <3>1, <4>1
      <3>2. CASE i # s
        <4>1. i < s
          BY <1>11, <2>1, <3>2
        <4>2. i \in 0..(m - 1) /\ (i = 0 \/ End(m, p, i))
          BY <1>6, <2>1, <4>1
        <4>3. PICK e \in (i + 1)..m : /\ itail[p[i]] = p[e] /\ End(m, p, e)
                                      /\ \A f \in (i + 1)..(e - 1) : ~End(m, p, f)
          BY <1>1, <4>2 DEF Threaded
        <4>4. e <= s
          BY <1>11, <4>1, <4>3
        <4>5. End(m + 1, q, e)'
          BY <1>6, <1>11, <4>3, <4>4
        <4>6. \A f \in (i + 1)..(e - 1) : ~End(m + 1, q, f)'
          BY <1>6, <4>3
        <4>7. itail'[q[i]] = q[e] /\ e \in (i + 1)..(m + 1)
          BY <1>3, <1>13, <3>2, <4>3
        <4> QED
          BY <4>5, <4>6, <4>7
      <3> QED
        BY <3>1, <3>2
    <2>2. ASSUME NEW i \in 1..(m + 1), i = m + 1 \/ ~End(m + 1, q, i)' PROVE itail'[q[i]] = NULL
      <3>1. CASE i = m + 1
        BY <1>3, <1>12, <3>1
      <3>2. CASE i # m + 1
        <4>1. i \in 0..m /\ i \in 1..m /\ i # s
          BY <1>11, <2>2, <3>2
        <4>2. i = m \/ ~End(m, p, i)
          BY <1>6, <2>2, <3>2
        <4>3. itail[p[i]] = NULL
          BY <1>1, <4>1, <4>2 DEF Threaded
        <4> QED
          BY <1>3, <1>13, <4>1, <4>3
      <3> QED
        BY <3>1, <3>2
    <2>3. ASSUME NEW n \in Node, kind'[n] = "FREE" PROVE itail'[n] = NULL
      <3>1. n # t /\ kind[n] = "FREE" /\ n \in 0..N
        BY <1>1, <1>5, <2>3 DEF Kinds, Queued, Node
      <3>2. n # p[s]
        <4>1. s = 0 \/ s \in 1..m
          OBVIOUS
        <4> QED
          BY <1>1, <3>1, <4>1 DEF Queued, Node
      <3> QED
        BY <1>1, <1>12, <3>1, <3>2 DEF Threaded
    <2> QED
      BY <1>12, <2>1, <2>2, <2>3 DEF Threaded
  <1>15. LastRun(m + 1, q)'
    BY <1>3, <1>11 DEF LastRun
  <1> QED
    BY <1>7, <1>8, <1>14, <1>15 DEF Rep

-----------------------------------------------------------------------------
(* dequeue_input_task                                                      *)

\* The places of the tasks when the task at place d + 1 has gone.
Dropped(m, p, d) == [i \in 0..(m - 1) |-> IF i <= d THEN p[i] ELSE p[i + 1]]

\* d is the tqueue's place, or that of the end of the first run.
FirstRun(m, p, d) ==
  d = 0 \/ (End(m, p, d) /\ itail[0] = p[d] /\ \A f \in 1..(d - 1) : ~End(m, p, f))

LEMMA DropKept ==
  ASSUME NEW m \in Nat, NEW p, Rep(m, p), NEW d \in 0..(m - 1), FirstRun(m, p, d),
         Unlink(p[d + 1], p[d]), NEW q, q = Dropped(m, p, d)
  PROVE  Rep(m - 1, q)'
  <1> DEFINE t == p[d + 1]
  <1>1. /\ Queued(m, p) /\ Linked(m, p) /\ Threaded(m, p) /\ LastRun(m, p)
        /\ p[0] = 0 /\ 0 \in 0..N /\ NULL = 0
    BY NAssumption DEF Rep, Queued, NULL
  <1>2. /\ m - 1 \in Nat /\ m # 0
        /\ d \in 0..m /\ d + 1 \in 0..m /\ d + 1 \in 1..m
        /\ \A i \in 0..(m - 1) : i \in 0..m /\ i + 1 \in 0..m /\ i + 1 \in 1..m
    OBVIOUS
  <1>3. /\ t \in Node /\ t \in 0..N /\ t # 0 /\ p[d] # t /\ p[d] \in 0..N
        /\ \A i \in 0..m : p[i] \in 0..N /\ (i # d + 1 => p[i] # t) /\ (i # d => p[i] # p[d])
    BY <1>1, <1>2 DEF Queued, Node
  <1>4. /\ q \in [0..(m - 1) -> 0..N] /\ q[0] = 0
        /\ \A i \in 0..d : q[i] = p[i]
        /\ \A i \in (d + 1)..(m - 1) : q[i] = p[i + 1]
    BY <1>1, <1>2, <1>3 DEF Dropped
  <1>5. /\ kind' = [kind EXCEPT ![t] = "FREE"]
        /\ \A n \in Node : n # t => kind'[n] = kind[n]
        /\ \A i \in 1..m : i # d + 1 => kind'[p[i]] = kind[p[i]]
    BY <1>1, <1>3 DEF Unlink, Queued
  <1> HIDE DEF t
  <1>6. \A i \in 0..(m - 1) : i \in 0..d \/ i \in (d + 1)..(m - 1)
    OBVIOUS
  <1>7. Queued(m - 1, q)'
    <2>1. \A i \in 1..(m - 1) : q[i] \in Node /\ q[i] # t
      <3> SUFFICES ASSUME NEW i \in 1..(m - 1) PROVE q[i] \in Node /\ q[i] # t
        OBVIOUS
      <3>1. \/ i \in 0..d /\ i \in 1..m /\ i # d + 1
            \/ i \in (d + 1)..(m - 1) /\ i + 1 \in 1..m /\ i + 1 # d + 1
        OBVIOUS
      <3> QED
        BY <1>1, <1>3, <1>4, <3>1 DEF Queued
    <2>2. ASSUME NEW i \in 0..(m - 1), NEW j \in 0..(m - 1), q[i] = q[j] PROVE i = j
      <3>1. \A x \in 0..(m - 1) : \/ x \in 0..d /\ q[x] = p[x] /\ x \in 0..m
                                  \/ x > d /\ q[x] = p[x + 1] /\ x + 1 \in 0..m
        BY <1>4, <1>6
      <3>2. \A x, y \in 0..m : p[x] = p[y] => x = y
        BY <1>1 DEF Queued
      <3> QED
        BY <2>2, <3>1, <3>2
    <2>3. ASSUME NEW n \in Node
          PROVE  kind'[n] # "FREE" <=> \E i \in 1..(m - 1) : n = q[i]
      <3>1. CASE n = t
        BY <1>1, <1>5, <2>1, <3>1 DEF Queued
      <3>2. CASE n # t
        <4>1. ASSUME NEW i \in 1..m, n = p[i] PROVE \E j \in 1..(m - 1) : n = q[j]
          <5>1. i # d + 1
            BY <3>2, <4>1 DEF t
          <5>2. CASE i <= d
            <6>1. i \in 0..d /\ i \in 1..(m - 1)
              BY <5>2
            <6> QED
              BY <1>4, <4>1, <6>1
          <5>3. CASE i > d + 1
            <6>1. i - 1 \in (d + 1)..(m - 1) /\ i - 1 \in 1..(m - 1) /\ (i - 1) + 1 = i
              BY <5>3
            <6> QED
              BY <1>4, <4>1, <6>1
          <5> QED
            BY <5>1, <5>2, <5>3
        <4>2. ASSUME NEW j \in 1..(m - 1), n = q[j] PROVE \E i \in 1..m : n = p[i]
          <5>1. \/ j \in 0..d /\ j \in 1..m
                \/ j \in (d + 1)..(m - 1) /\ j + 1 \in 1..m
            OBVIOUS
          <5> QED
            BY <1>4, <4>2, <5>1
        <4>3. kind'[n] = kind[n]
          BY <1>5, <3>2
        <4> QED
          BY <1>1, <4>1, <4>2, <4>3 DEF Queued
      <3> QED
        BY <3>1, <3>2
    <2>4. kind' \in [Node -> Kinds \cup {"FREE"}]
      BY <1>1, <1>5 DEF Queued
    <2> QED
      BY <1>2, <1>4, <2>1, <2>2, <2>3, <2>4 DEF Queued
  <1>8. Linked(m - 1, q)'
    <2>1. /\ next' = [next EXCEPT ![p[d]] = next[t], ![t] = NULL]
          /\ last_input' = IF next[t] = NULL THEN p[d] ELSE last_input
      BY DEF Unlink, t
    <2>2. /\ next' \in [0..N -> 0..N] /\ next'[p[d]] = next[t]
          /\ \A n \in 0..N : n # t /\ n # p[d] => next'[n] = next[n]
      BY <1>1, <1>3, <2>1 DEF Linked
    <2>3. next[t] = IF d + 1 = m THEN NULL ELSE p[(d + 1) + 1]
      <3>1. d + 1 # m => d + 1 \in 0..(m - 1)
        OBVIOUS
      <3> QED
        BY <1>1, <3>1 DEF Linked, t
    <2>4. ASSUME NEW i \in 0..((m - 1) - 1) PROVE next'[q[i]] = q[i + 1]
      <3>1. CASE i < d
        <4>1. i \in 0..d /\ i + 1 \in 0..d /\ i \in 0..(m - 1) /\ i # d /\ i # d + 1 /\ i \in 0..m
          BY <3>1
        <4>2. next[p[i]] = p[i + 1]
          BY <1>1, <4>1 DEF Linked
        <4> QED
          BY <1>3, <1>4, <2>2, <4>1, <4>2
      <3>2. CASE i = d
        <4>1. d \in 0..d /\ d + 1 # m /\ d + 1 \in (d + 1)..(m - 1)
          BY <3>2
        <4> QED
          BY <1>4, <2>2, <2>3, <3>2, <4>1
      <3>3. CASE i > d
        <4>1. /\ i \in (d + 1)..(m - 1) /\ i + 1 \in (d + 1)..(m - 1)
              /\ i + 1 \in 0..(m - 1) /\ i + 1 \in 0..m /\ i + 1 # d /\ i + 1 # d + 1
          BY <3>3
        <4>2. next[p[i + 1]] = p[(i + 1) + 1]
          BY <1>1, <4>1 DEF Linked
        <4> QED
          BY <1>3, <1>4, <2>2, <4>1, <4>2
      <3> QED
        BY <3>1, <3>2, <3>3
    <2>5. next'[q[m - 1]] = NULL /\ last_input' = q[m - 1]
      <3>1. CASE d + 1 = m
        <4>1. m - 1 = d /\ d \in 0..d
          BY <3>1
        <4> QED
          BY <1>4, <2>1, <2>2, <2>3, <3>1, <4>1
      <3>2. CASE d + 1 # m
        <4>1. m - 1 \in (d + 1)..(m - 1) /\ (m - 1) + 1 = m /\ m \in 0..m /\ m # d /\ m # d + 1
              /\ (d + 1) + 1 \in 1..m
          BY <3>2
        <4>2. next[t] # NULL
          BY <1>1, <2>3, <3>2, <4>1 DEF Queued, Node
        <4>3. q[m - 1] = p[m] /\ p[m] # t /\ p[m] # p[d] /\ p[m] \in 0..N
          BY <1>3, <1>4, <4>1
        <4>4. last_input' = last_input /\ last_input = p[m] /\ next[p[m]] = NULL
          BY <1>1, <2>1, <4>2 DEF Linked
        <4> QED
          BY <2>2, <4>3, <4>4
      <3> QED
        BY <3>1, <3>2
    <2> QED
      BY <2>2, <2>4, <2>5 DEF Linked
  <1>9. /\ \A i \in (d + 1)..(m - 1) : End(m - 1, q, i)' <=> End(m, p, i + 1)
        /\ \A i \in 1..(d - 1) : ~End(m - 1, q, i)' /\ ~End(m, p, i)
        /\ d # 0 => (End(m - 1, q, d)' <=> d + 1 = m \/ ~End(m, p, d + 1)) /\ End(m, p, d)
    <2>1. ASSUME NEW i \in (d + 1)..(m - 1) PROVE End(m - 1, q, i)' <=> End(m, p, i + 1)
      <3>1. CASE i = m - 1
        BY <3>1 DEF End
      <3>2. CASE i # m - 1
        <4>1. /\ i + 1 \in (d + 1)..(m - 1) /\ i + 1 \in 1..m /\ (i + 1) + 1 \in 1..m
              /\ i + 1 # d + 1 /\ (i + 1) + 1 # d + 1 /\ i + 1 # m
          BY <3>2
        <4>2. /\ q[i] = p[i + 1] /\ q[i + 1] = p[(i + 1) + 1]
              /\ kind'[p[i + 1]] = kind[p[i + 1]] /\ kind'[p[(i + 1) + 1]] = kind[p[(i + 1) + 1]]
          BY <1>4, <1>5, <4>1
        <4> QED
          BY <3>2, <4>1, <4>2 DEF End
      <3> QED
        BY <3>1, <3>2
    <2>2. ASSUME NEW i \in 1..(d - 1) PROVE ~End(m - 1, q, i)' /\ ~End(m, p, i)
      <3>1. ~End(m, p, i) /\ d # 0
        BY DEF FirstRun
      <3>2. /\ i \in 0..d /\ i + 1 \in 0..d /\ i \in 1..m /\ i + 1 \in 1..m
            /\ i # d + 1 /\ i + 1 # d + 1 /\ i # m - 1
        OBVIOUS
      <3>3. /\ q[i] = p[i] /\ q[i + 1] = p[i + 1]
            /\ kind'[p[i]] = kind[p[i]] /\ kind'[p[i + 1]] = kind[p[i + 1]]
        BY <1>4, <1>5, <3>2
      <3> QED
        BY <3>1, <3>2, <3>3 DEF End
    <2>3. ASSUME d # 0
          PROVE  (End(m - 1, q, d)' <=> d + 1 = m \/ ~End(m, p, d + 1)) /\ End(m, p, d)
      <3>1. End(m, p, d) /\ d # m
        BY <2>3 DEF FirstRun
      <3>2. CASE d + 1 = m
        BY <3>1, <3>2 DEF End
      <3>3. CASE d + 1 # m
        <4>1. /\ d \in 0..d /\ d \in 1..m /\ d + 1 \in (d + 1)..(m - 1) /\ (d + 1) + 1 \in 1..m
              /\ d # d + 1 /\ (d + 1) + 1 # d + 1 /\ d # m - 1
          BY <2>3, <3>3
        <4>2. /\ q[d] = p[d] /\ q[d + 1] = p[(d + 1) + 1]
              /\ kind'[p[d]] = kind[p[d]] /\ kind'[p[(d + 1) + 1]] = kind[p[(d + 1) + 1]]
          BY <1>4, <1>5, <4>1
        <4>3. kind[p[d + 1]] # kind[p[d]]
          BY <3>1 DEF End
        <4>4. {kind[p[d]], kind[p[d + 1]], kind[p[(d + 1) + 1]]} \subseteq Kinds
          BY <1>1, <1>2, <4>1 DEF Queued
        <4>5. kind[p[(d + 1) + 1]] # kind[p[d]] <=> kind[p[(d + 1) + 1]] = kind[p[d + 1]]
          BY <4>3, <4>4 DEF Kinds
        <4> QED
          BY <3>1, <3>3, <4>1, <4>2, <4>5 DEF End
      <3> QED
        BY <3>2, <3>3
    <2> QED
      BY <2>1, <2>2, <2>3
  <1>10. ASSUME NEW j \in d..(m - 1), j = 0 \/ End(m, p, j)
         PROVE  \E e \in (j + 1)..m :
                  /\ itail[p[j]] = p[e] /\ End(m, p, e)
                  /\ \A f \in (j + 1)..(e - 1) : ~End(m, p, f)
                  /\ e > d + 1 => /\ itail[p[j]] = q[e - 1] /\ End(m - 1, q, e - 1)'
                                  /\ e - 1 \in (d + 1)..(m - 1)
                                  /\ \A f \in (d + 1)..(e - 2) : f >= j => ~End(m - 1, q, f)'
    <2>1. j \in 0..(m - 1)
      OBVIOUS
    <2>2. PICK e \in (j + 1)..m : /\ itail[p[j]] = p[e] /\ End(m, p, e)
                                  /\ \A f \in (j + 1)..(e - 1) : ~End(m, p, f)
      BY <1>1, <1>10, <2>1 DEF Threaded
    <2>3. ASSUME e > d + 1
          PROVE  /\ itail[p[j]] = q[e - 1] /\ End(m - 1, q, e - 1)'
                 /\ e - 1 \in (d + 1)..(m - 1)
                 /\ \A f \in (d + 1)..(e - 2) : f >= j => ~End(m - 1, q, f)'
      <3>1. e - 1 \in (d + 1)..(m - 1) /\ (e - 1) + 1 = e
        BY <2>3
      <3>2. itail[p[j]] = q[e - 1] /\ End(m - 1, q, e - 1)'
        BY <1>4, <1>9, <2>2, <3>1
      <3>3. ASSUME NEW f \in (d + 1)..(e - 2), f >= j PROVE ~End(m - 1, q, f)'
        <4>1. f \in (d + 1)..(m - 1) /\ f + 1 \in (j + 1)..(e - 1)
          BY <3>3
        <4> QED
          BY <1>9, <2>2, <4>1
      <3> QED
        BY <3>1, <3>2, <3>3
    <2> QED
      BY <2>2, <2>3
  <1>11. t = itail[p[d]] <=> End(m, p, d + 1)
    <2>1. d \in d..(m - 1) /\ (d = 0 \/ End(m, p, d))
      BY DEF FirstRun
    <2>2. PICK e \in (d + 1)..m : /\ itail[p[d]] = p[e] /\ End(m, p, e)
                                  /\ \A f \in (d + 1)..(e - 1) : ~End(m, p, f)
      BY <1>10, <2>1
    <2>3. t = p[e] <=> e = d + 1
      BY <1>1, <1>2 DEF Queued, t
    <2> QED
      BY <2>2, <2>3
  <1>12. PICK l \in 0..(m - 1) : /\ last_itail = p[l]
                                 /\ l = 0 \/ End(m, p, l)
                                 /\ \A f \in (l + 1)..(m - 1) : ~End(m, p, f)
    BY <1>1, <1>2 DEF LastRun
  <1>13. \A i \in 1..m : i = m \/ ~End(m, p, i) => itail[p[i]] = NULL
    BY <1>1 DEF Threaded
  <1>14. \A n \in Node : kind'[n] = "FREE" => n = t \/ (itail[n] = NULL /\ n # p[d] /\ n # 0 /\ n \in 0..N)
    <2>1. d = 0 \/ d \in 1..m
      OBVIOUS
    <2> QED
      BY <1>1, <1>5, <2>1 DEF Threaded, Node, Queued
  \* The task is not the last of its run.
  <1>15. CASE ~End(m, p, d + 1)
    <2>1. UNCHANGED <<itail, last_itail>> /\ d + 1 # m /\ itail \in [0..N -> 0..N]
      BY <1>1, <1>11, <1>15 DEF Unlink, End, t, Threaded
    <2>2. ASSUME NEW j \in d..(m - 1), j = 0 \/ End(m, p, j)
          PROVE  \E e \in (d + 1)..(m - 1) :
                   /\ itail[p[j]] = q[e] /\ End(m - 1, q, e)' /\ j <= e
                   /\ \A f \in (d + 1)..(e - 1) : f >= j => ~End(m - 1, q, f)'
      <3>1. PICK e \in (j + 1)..m :
                 /\ End(m, p, e)
                 /\ e > d + 1 => /\ itail[p[j]] = q[e - 1] /\ End(m - 1, q, e - 1)'
                                 /\ e - 1 \in (d + 1)..(m - 1)
                                 /\ \A f \in (d + 1)..(e - 2) : f >= j => ~End(m - 1, q, f)'
        BY <1>10, <2>2
      <3>2. e > d + 1 /\ (e - 1) - 1 = e - 2 /\ j <= e - 1
        BY <1>15, <3>1
      <3> QED
        BY <3>1, <3>2
    <2>3. ASSUME NEW i \in 0..((m - 1) - 1), i = 0 \/ End(m - 1, q, i)'
          PROVE  \E e \in (i + 1)..(m - 1) :
                   /\ itail[q[i]] = q[e] /\ End(m - 1, q, e)'
                   /\ \A f \in (i + 1)..(e - 1) : ~End(m - 1, q, f)'
      <3>1. CASE i = 0 /\ d # 0
        <4>1. itail[q[i]] = q[d] /\ d \in (i + 1)..(m - 1) /\ End(m - 1, q, d)'
          BY <1>4, <1>9, <1>15, <3>1 DEF FirstRun
        <4> QED
          BY <1>9, <3>1, <4>1
      <3>2. CASE i = d
        <4>1. d \in d..(m - 1) /\ (d = 0 \/ End(m, p, d)) /\ q[d] = p[d]
          BY <1>4, <1>9
        <4>2. PICK e \in (d + 1)..(m - 1) :
                 /\ itail[p[d]] = q[e] /\ End(m - 1, q, e)'
                 /\ \A f \in (d + 1)..(e - 1) : f >= d => ~End(m - 1, q, f)'
          BY <2>2, <4>1
        <4> QED
          BY <3>2, <4>1, <4>2
      <3>3. CASE i > d
        <4>1. /\ i + 1 \in d..(m - 1) /\ i \in (d + 1)..(m - 1) /\ i + 1 # 0
              /\ q[i] = p[i + 1]
          BY <1>4, <3>3
        <4>2. End(m, p, i + 1)
          BY <1>9, <2>3, <3>3, <4>1
        <4>3. PICK e \in (d + 1)..(m - 1) :
                 /\ itail[p[i + 1]] = q[e] /\ End(m - 1, q, e)' /\ i + 1 <= e
                 /\ \A f \in (d + 1)..(e - 1) : f >= i + 1 => ~End(m - 1, q, f)'
          BY <2>2, <4>1, <4>2
        <4> QED
          BY <3>3, <4>1, <4>3
      <3>4. CASE i # 0 /\ i < d
        BY <1>9, <2>3, <3>4
      <3> QED
        BY <3>1, <3>2, <3>3, <3>4
    <2>4. ASSUME NEW i \in 1..(m - 1), i = m - 1 \/ ~End(m - 1, q, i)' PROVE itail[q[i]] = NULL
      <3>1. CASE i < d
        <4>1. i \in 1..(d - 1) /\ i \in 0..d /\ i \in 1..m
          BY <3>1
        <4> QED
          BY <1>4, <1>9, <1>13, <4>1
      <3>2. CASE i = d
        BY <1>9, <1>15, <2>1, <2>4, <3>2
      <3>3. CASE i > d
        <4>1. i \in (d + 1)..(m - 1) /\ i + 1 \in 1..m /\ (i = m - 1 => i + 1 = m)
          BY <3>3
        <4> QED
          BY <1>4, <1>9, <1>13, <2>4, <4>1
      <3> QED
        BY <3>1, <3>2, <3>3
    <2>5. itail[t] = NULL
      BY <1>2, <1>13, <1>15 DEF t
    <2>6. Threaded(m - 1, q)'
      <3>1. m - 1 # 0
        BY <2>1
      <3> QED
        BY <1>14, <2>1, <2>3, <2>4, <2>5, <3>1 DEF Threaded
    <2>7. LastRun(m - 1, q)'
      <3>1. CASE l <= d
        <4>1. l = d
          BY <1>9, <1>12, <3>1
        <4>2. q[l] = p[l] /\ l \in 0..(m - 1) /\ l < m - 1 /\ (l = 0 \/ End(m - 1, q, l)')
          BY <1>4, <1>9, <1>15, <2>1, <4>1
        <4>3. ASSUME NEW f \in (l + 1)..((m - 1) - 1) PROVE ~End(m - 1, q, f)'
          <5>1. f \in (d + 1)..(m - 1) /\ f + 1 \in (l + 1)..(m - 1)
            BY <4>1
          <5> QED
            BY <1>9, <1>12, <5>1
        <4> QED
          BY <1>12, <2>1, <4>2, <4>3 DEF LastRun
      <3>2. CASE l > d
        <4>1. l # d + 1
          BY <1>12, <1>15, <3>2
        <4>2. l - 1 \in (d + 1)..(m - 1) /\ (l - 1) + 1 = l /\ l - 1 < m - 1 /\ l - 1 \in 0..(m - 1)
          BY <3>2, <4>1
        <4>3. q[l - 1] = p[l] /\ End(m - 1, q, l - 1)'
          BY <1>4, <1>9, <1>12, <3>2, <4>2
        <4>4. ASSUME NEW f \in ((l - 1) + 1)..((m - 1) - 1) PROVE ~End(m - 1, q, f)'
          <5>1. f \in (d + 1)..(m - 1) /\ f + 1 \in (l + 1)..(m - 1)
            BY <4>2
          <5> QED
            BY <1>9, <1>12, <5>1
        <4> QED
          BY <1>12, <2>1, <4>2, <4>3, <4>4 DEF LastRun
      <3> QED
        BY <3>1, <3>2
    <2> QED
      BY <1>7, <1>8, <2>6, <2>7 DEF Rep
  \* It is all of the last run.
  <1>16. CASE d + 1 = m
    <2>1. /\ m - 1 = d /\ End(m, p, d + 1) /\ itail[t] = NULL /\ itail \in [0..N -> 0..N]
      BY <1>1, <1>2, <1>13, <1>16 DEF End, t, Threaded
    <2>2. /\ itail' = [itail EXCEPT ![p[d]] = NULL]
          /\ last_itail' = IF itail'[last_itail] = NULL THEN 0 ELSE last_itail
      BY <1>11, <2>1 DEF Unlink, t
    <2>3. /\ itail' \in [0..N -> 0..N] /\ itail'[p[d]] = NULL
          /\ \A n \in 0..N : n # p[d] => itail'[n] = itail[n]
      BY <1>1, <1>3, <2>1, <2>2
    <2>4. last_itail' = 0
      <3>1. l = d
        BY <1>9, <1>12, <1>16
      <3> QED
        BY <1>12, <2>2, <2>3, <3>1
    <2>5. LastRun(m - 1, q)'
      <3>1. 0 \in 0..(m - 1) /\ \A f \in (0 + 1)..((m - 1) - 1) : f \in 1..(d - 1)
        BY <2>1
      <3> QED
        BY <1>4, <1>9, <2>4, <3>1 DEF LastRun
    <2>6. Threaded(m - 1, q)'
      <3>1. ASSUME NEW i \in 0..((m - 1) - 1), i = 0 \/ End(m - 1, q, i)'
            PROVE  \E e \in (i + 1)..(m - 1) :
                     /\ itail'[q[i]] = q[e] /\ End(m - 1, q, e)'
                     /\ \A f \in (i + 1)..(e - 1) : ~End(m - 1, q, f)'
        <4>1. d # 0 /\ i = 0
          BY <1>9, <2>1, <3>1
        <4>2. itail[0] = p[d] /\ p[d] # 0 /\ d \in (i + 1)..(m - 1) /\ q[d] = p[d]
          BY <1>1, <1>2, <1>4, <2>1, <4>1 DEF FirstRun, Queued
        <4>3. itail'[q[i]] = q[d] /\ End(m - 1, q, d)'
          BY <1>1, <1>4, <1>9, <2>1, <2>3, <4>1, <4>2
        <4> QED
          BY <1>9, <4>1, <4>2, <4>3
      <3>2. ASSUME NEW i \in 1..(m - 1), i = m - 1 \/ ~End(m - 1, q, i)' PROVE itail'[q[i]] = NULL
        <4>1. i \in 0..d /\ i \in 0..m /\ i \in 1..m
          BY <2>1
        <4>2. CASE i = d
          BY <1>4, <2>3, <4>1, <4>2
        <4>3. CASE i # d
          <5>1. i \in 1..(d - 1)
            BY <2>1, <4>3
          <5>2. q[i] = p[i] /\ p[i] # p[d] /\ p[i] \in 0..N
            BY <1>3, <1>4, <4>1, <4>3
          <5>3. itail[p[i]] = NULL
            BY <1>9, <1>13, <4>1, <5>1
          <5> QED
            BY <2>3, <5>2, <5>3
        <4> QED
          BY <4>2, <4>3
      <3>3. ASSUME NEW n \in Node, kind'[n] = "FREE" PROVE itail'[n] = NULL
        BY <1>3, <1>14, <2>1, <2>3, <3>3
      <3>4. m - 1 = 0 => itail'[0] = NULL
        BY <1>1, <2>1, <2>3
      <3> QED
        BY <2>3, <3>1, <3>2, <3>3, <3>4 DEF Threaded
    <2> QED
      BY <1>7, <1>8, <2>5, <2>6 DEF Rep
  \* It is all of a run that others follow: the runs on its sides become one.
  <1>17. CASE End(m, p, d + 1) /\ d + 1 # m
    <2>1. d + 1 \in d..(m - 1) /\ d + 1 # 0 /\ itail \in [0..N -> 0..N]
      BY <1>1, <1>17 DEF Threaded
    <2>2. PICK e \in ((d + 1) + 1)..m :
               /\ itail[p[d + 1]] = p[e]
               /\ e > d + 1 => /\ itail[p[d + 1]] = q[e - 1] /\ End(m - 1, q, e - 1)'
                               /\ e - 1 \in (d + 1)..(m - 1)
                               /\ \A f \in (d + 1)..(e - 2) : f >= d + 1 => ~End(m - 1, q, f)'
      BY <1>10, <1>17, <2>1
    <2>3. /\ itail[t] = q[e - 1] /\ End(m - 1, q, e - 1)' /\ e - 1 \in (d + 1)..(m - 1)
          /\ \A f \in (d + 1)..((e - 1) - 1) : ~End(m - 1, q, f)'
          /\ itail[t] # NULL /\ itail[t] \in 0..N
      <3>1. e > d + 1 /\ (e - 1) - 1 = e - 2 /\ e \in 1..m
        OBVIOUS
      <3> QED
        BY <1>1, <2>2, <3>1 DEF t, Queued, Node
    <2>4. /\ itail' = [[itail EXCEPT ![p[d]] = NULL] EXCEPT ![0] = itail[t], ![t] = NULL]
          /\ last_itail' = IF itail'[last_itail] = NULL THEN 0 ELSE last_itail
      BY <1>11, <1>17, <2>3 DEF Unlink, t
    <2>5. /\ itail' \in [0..N -> 0..N] /\ itail'[0] = itail[t] /\ itail'[t] = NULL
          /\ d # 0 => itail'[p[d]] = NULL
          /\ \A n \in 0..N : n # 0 /\ n # t /\ n # p[d] => itail'[n] = itail[n]
      <3>1. d # 0 => p[d] # 0
        BY <1>1, <1>2 DEF Queued
      <3> QED
        BY <1>1, <1>3, <2>1, <2>3, <2>4, <3>1
    <2>6. \A i \in 1..m : i # d /\ i # d + 1 => itail'[p[i]] = itail[p[i]]
      <3>1. \A i \in 1..m : i \in 0..m /\ p[i] # 0
        BY <1>1 DEF Queued, Node
      <3> QED
        BY <1>3, <2>5, <3>1
    <2>7. ASSUME NEW f \in 1..((e - 1) - 1) PROVE ~End(m - 1, q, f)'
      <3>1. f \in 1..(d - 1) \/ (f = d /\ d # 0) \/ f \in (d + 1)..((e - 1) - 1)
        OBVIOUS
      <3> QED
        BY <1>9, <1>17, <2>3, <3>1
    <2>8. ASSUME NEW i \in 0..((m - 1) - 1), i = 0 \/ End(m - 1, q, i)'
          PROVE  \E x \in (i + 1)..(m - 1) :
                   /\ itail'[q[i]] = q[x] /\ End(m - 1, q, x)'
                   /\ \A f \in (i + 1)..(x - 1) : ~End(m - 1, q, f)'
      <3>1. CASE i = 0
        <4>1. e - 1 \in (i + 1)..(m - 1) /\ itail'[q[i]] = q[e - 1]
          BY <1>4, <2>3, <2>5, <3>1
        <4> QED
          BY <2>3, <2>7, <3>1, <4>1
      <3>2. CASE i # 0 /\ i <= d
        BY <1>9, <1>17, <2>8, <3>2
      <3>3. CASE i > d
        <4>1. /\ i + 1 \in d..(m - 1) /\ i \in (d + 1)..(m - 1) /\ i + 1 # 0
              /\ i + 1 \in 1..m /\ i + 1 # d /\ i + 1 # d + 1
          BY <3>3
        <4>2. End(m, p, i + 1) /\ q[i] = p[i + 1]
          BY <1>4, <1>9, <2>8, <3>3, <4>1
        <4>3. PICK x \in ((i + 1) + 1)..m :
                 x > d + 1 => /\ itail[p[i + 1]] = q[x - 1] /\ End(m - 1, q, x - 1)'
                              /\ x - 1 \in (d + 1)..(m - 1)
                              /\ \A f \in (d + 1)..(x - 2) : f >= i + 1 => ~End(m - 1, q, f)'
          BY <1>10, <4>1, <4>2
        <4>4. x > d + 1 /\ x - 1 \in (i + 1)..(m - 1) /\ (x - 1) - 1 = x - 2
              /\ \A f \in (i + 1)..((x - 1) - 1) : f \in (d + 1)..(x - 2) /\ f >= i + 1
          BY <3>3
        <4>5. itail'[q[i]] = itail[p[i + 1]]
          BY <2>6, <4>1, <4>2
        <4> QED
          BY <4>3, <4>4, <4>5
      <3> QED
        BY <3>1, <3>2, <3>3
    <2>9. ASSUME NEW i \in 1..(m - 1), i = m - 1 \/ ~End(m - 1, q, i)' PROVE itail'[q[i]] = NULL
      <3>1. CASE i < d
        <4>1. i \in 1..(d - 1) /\ i \in 0..d /\ i \in 1..m /\ i # d /\ i # d + 1
          BY <3>1
        <4> QED
          BY <1>4, <1>9, <1>13, <2>6, <4>1
      <3>2. CASE i = d
        <4>1. d # 0 /\ d \in 0..d
          BY <3>2
        <4> QED
          BY <1>4, <2>5, <3>2, <4>1
      <3>3. CASE i > d
        <4>1. /\ i \in (d + 1)..(m - 1) /\ i + 1 \in 1..m /\ (i = m - 1 => i + 1 = m)
              /\ i + 1 # d /\ i + 1 # d + 1
          BY <3>3
        <4> QED
          BY <1>4, <1>9, <1>13, <2>6, <2>9, <4>1
      <3> QED
        BY <3>1, <3>2, <3>3
    <2>10. ASSUME NEW n \in Node, kind'[n] = "FREE" PROVE itail'[n] = NULL
      BY <1>14, <2>5, <2>10
    <2>11. Threaded(m - 1, q)'
      <3>1. m - 1 # 0
        BY <1>17
      <3> QED
        BY <2>5, <2>8, <2>9, <2>10, <3>1 DEF Threaded
    <2>12. l >= d + 1
      BY <1>12, <1>17, <2>1
    <2>13. ASSUME NEW f \in 1..(m - 2), f >= l PROVE ~End(m - 1, q, f)'
      <3>1. f \in (d + 1)..(m - 1) /\ f + 1 \in (l + 1)..(m - 1)
        BY <2>12, <2>13
      <3> QED
        BY <1>9, <1>12, <3>1
    <2>14. CASE l = d + 1
      <3>1. last_itail' = 0
        BY <1>12, <2>4, <2>5, <2>14 DEF t
      <3>2. ASSUME NEW f \in (0 + 1)..((m - 1) - 1) PROVE ~End(m - 1, q, f)'
        <4>1. f \in 1..(d - 1) \/ (f = d /\ d # 0) \/ (f \in 1..(m - 2) /\ f >= l)
          BY <2>14
        <4> QED
          BY <1>9, <1>17, <2>13, <4>1
      <3>3. LastRun(m - 1, q)'
        <4>1. 0 \in 0..(m - 1)
          OBVIOUS
        <4> QED
          BY <1>4, <3>1, <3>2, <4>1 DEF LastRun
      <3> QED
        BY <1>7, <1>8, <2>11, <3>3 DEF Rep
    <2>15. CASE l > d + 1
      <3>1. /\ l \in d..(m - 1) /\ l \in 1..m /\ l # d /\ l # d + 1 /\ l # 0
            /\ l - 1 \in (d + 1)..(m - 1) /\ (l - 1) + 1 = l /\ l - 1 < m - 1 /\ l - 1 \in 0..(m - 1)
        BY <2>15
      <3>2. PICK x \in (l + 1)..m : itail[p[l]] = p[x]
        BY <1>10, <1>12, <3>1
      <3>3. itail'[p[l]] # NULL
        BY <1>1, <2>6, <3>1, <3>2 DEF Queued, Node
      <3>4. last_itail' = q[l - 1] /\ End(m - 1, q, l - 1)'
        BY <1>4, <1>9, <1>12, <2>4, <3>1, <3>3
      <3>5. \A f \in ((l - 1) + 1)..((m - 1) - 1) : ~End(m - 1, q, f)'
        BY <2>13, <3>1
      <3>6. LastRun(m - 1, q)'
        BY <3>1, <3>4, <3>5 DEF LastRun
      <3> QED
        BY <1>7, <1>8, <2>11, <3>6 DEF Rep
    <2> QED
      BY <2>12, <2>14, <2>15
  <1> QED
    BY <1>15, <1>16, <1>17

\* Where dequeue_input_task looks: everything before it is not wanted, and what
\* hangs there, if anything does, is.
LEMMA SlotFound ==
  ASSUME NEW m \in Nat, NEW p, Rep(m, p), NEW how \in Kinds \cup {"FIRST"}
  PROVE  \E d \in 0..m : /\ SlotOf(how) = p[d] /\ FirstRun(m, p, d)
                         /\ \A i \in 1..d : kind[p[i]] \notin Wanted(how)
                         /\ d < m => kind[p[d + 1]] \in Wanted(how)
  <1>1. Queued(m, p) /\ Linked(m, p) /\ Threaded(m, p) /\ p[0] = 0 /\ NULL = 0
    BY DEF Rep, Queued, NULL
  <1>2. \A i \in 1..m : kind[p[i]] \in Kinds
    BY <1>1 DEF Queued
  <1>3. m # 0 => next[0] = p[1] /\ next[0] # NULL /\ 1 \in 1..m
    BY <1>1 DEF Linked, Queued, Node
  <1>4. m = 0 => next[0] = NULL
    BY <1>1 DEF Linked
  <1>5. CASE how = "FIRST" \/ m = 0 \/ kind[p[1]] = how
    <2>1. SlotOf(how) = p[0]
      BY <1>1, <1>3, <1>4, <1>5 DEF SlotOf
    <2>2. 0 < m => kind[p[0 + 1]] \in Wanted(how)
      BY <1>2, <1>5 DEF Wanted
    <2>3. 0 \in 0..m /\ \A i \in 1..0 : kind[p[i]] \notin Wanted(how)
      OBVIOUS
    <2> QED
      BY <2>1, <2>2, <2>3 DEF FirstRun
  <1>6. CASE how # "FIRST" /\ m # 0 /\ kind[p[1]] # how
    <2>1. PICK e \in (0 + 1)..m : /\ itail[p[0]] = p[e] /\ End(m, p, e)
                                  /\ \A f \in (0 + 1)..(e - 1) : ~End(m, p, f)
      <3>1. 0 \in 0..(m - 1)
        BY <1>6
      <3> QED
        BY <1>1, <3>1 DEF Threaded
    <2>2. SlotOf(how) = p[e] /\ FirstRun(m, p, e)
      BY <1>1, <1>3, <1>6, <2>1 DEF SlotOf, FirstRun
    <2> DEFINE S == {i \in 1..m : kind[p[i]] = kind[p[1]]}
    <2>3. 1..e \subseteq S
      <3>1. 1 \in S /\ 1 \in Int /\ e \in Int
        BY <1>3, <1>6
      <3>2. ASSUME NEW n \in 1..(e - 1), n \in S PROVE n + 1 \in S
        <4>1. n + 1 \in 1..m /\ ~End(m, p, n)
          BY <2>1
        <4> QED
          BY <3>2, <4>1 DEF End
      <3> HIDE DEF S
      <3> QED
        BY <3>1, <3>2, UpInduction
    <2>4. \A i \in 1..e : kind[p[i]] \notin Wanted(how)
      BY <1>6, <2>3 DEF Wanted
    <2>5. e < m => kind[p[e + 1]] \in Wanted(how)
      <3> SUFFICES ASSUME e < m PROVE kind[p[e + 1]] = how
        BY <1>6 DEF Wanted
      <3>1. e \in 1..e /\ e \in 1..m /\ e + 1 \in 1..m /\ 1 \in 1..m /\ how \in Kinds
        BY <1>6
      <3>2. kind[p[e + 1]] # kind[p[1]]
        BY <2>1, <2>3, <3>1 DEF End
      <3> QED
        BY <1>2, <1>6, <3>1, <3>2 DEF Kinds
    <2> QED
      BY <2>2, <2>4, <2>5
  <1> QED
    BY <1>5, <1>6

-----------------------------------------------------------------------------
(* What following the pointers gives.                                      *)

LEMMA ChainIs ==
  ASSUME NEW m \in Nat, NEW p, NEW links,
         p[0] = 0, \A i \in 1..m : p[i] \in Node,
         \A i, j \in 0..m : p[i] = p[j] => i = j,
         \A i \in 0..(m - 1) : links[p[i]] = p[i + 1], links[p[m]] = NULL
  PROVE  m <= N /\ Chain(links) = [i \in 1..m |-> p[i]]
  <1>1. m <= N
    <2> DEFINE f == [i \in 1..m |-> p[i]]
    <2>1. f \in Injection(1..m, Node)
      BY DEF Injection, IsInjective
    <2>2. /\ IsFiniteSet(1..m) /\ Cardinality(1..m) = m
          /\ IsFiniteSet(Node) /\ Cardinality(Node) = N
      BY NAssumption, FS_Interval DEF Node
    <2> HIDE DEF f
    <2>3. Cardinality(1..m) <= Cardinality(Node)
      BY <2>1, <2>2, FS_Injection
    <2> QED
      BY <2>2, <2>3
  <1> DEFINE at[i \in 0..N] == IF i = 0 THEN links[0]
                               ELSE IF at[i - 1] = NULL THEN NULL ELSE links[at[i - 1]]
             F(g) == [i \in 0..N |-> IF i = 0 THEN links[0]
                                     ELSE IF g[i - 1] = NULL THEN NULL ELSE links[g[i - 1]]]
             s == [i \in 0..N |-> IF i < m THEN p[i + 1] ELSE NULL]
  <1>2. s = F(s)
    <2>1. ASSUME NEW i \in 0..N PROVE s[i] = F(s)[i]
      <3>1. CASE i = 0
        BY <3>1, NAssumption
      <3>2. CASE i # 0 /\ i <= m
        <4>1. i - 1 \in 0..N /\ i - 1 < m /\ (i - 1) + 1 = i /\ i \in 1..m
          BY <3>2, NAssumption
        <4>2. s[i - 1] = p[i] /\ s[i - 1] # NULL
          BY <4>1 DEF Node, NULL
        <4>3. links[p[i]] = IF i < m THEN p[i + 1] ELSE NULL
          BY <3>2
        <4> QED
          BY <3>2, <4>2, <4>3
      <3>3. CASE i > m
        <4>1. i - 1 \in 0..N /\ ~(i - 1 < m) /\ i # 0
          BY <3>3, NAssumption
        <4> QED
          BY <3>3, <4>1
      <3> QED
        BY <3>1, <3>2, <3>3
    <2> QED
      BY <2>1
  <1>3. at = F(at)
    <2>1. \E g : g = F(g)
      BY <1>2
    <2> QED
      BY <2>1

  <1>4. Chain(links) = [i \in 1..Cardinality({j \in 0..N : at[j] # NULL}) |-> at[i - 1]]
    BY DEF Chain
  <1> HIDE DEF at
  <1>5. \A i \in 0..N : at[i] = s[i]
    <2> DEFINE T == {i \in 0..N : at[i] # s[i]}
    <2> SUFFICES ASSUME T # {} PROVE FALSE
      OBVIOUS
    <2>1. T \subseteq Nat
      BY NAssumption
    <2>2. PICK x \in T : \A y \in T : x <= y
      BY <2>1, LeastNumber
    <2>3. x # 0
      BY <1>2, <1>3, NAssumption
    <2>4. x - 1 \in 0..N /\ x \in 0..N /\ at[x - 1] = s[x - 1]
      BY <2>2, <2>3, NAssumption
    <2>5. at[x] = F(at)[x] /\ s[x] = F(s)[x]
      BY <1>2, <1>3
    <2> QED
      BY <2>2, <2>3, <2>4, <2>5
  <1>6. {j \in 0..N : at[j] # NULL} = 0..(m - 1)
    <2>1. \A j \in 0..N : s[j] # NULL <=> j < m
      BY DEF Node, NULL
    <2> HIDE DEF s
    <2>2. \A j \in 0..N : at[j] # NULL <=> j < m
      BY <1>5, <2>1
    <2>3. \A j \in 0..(m - 1) : j \in 0..N /\ j < m
      BY <1>1, NAssumption
    <2>4. \A j \in 0..N : j < m => j \in 0..(m - 1)
      BY NAssumption
    <2> QED
      BY <2>2, <2>3, <2>4
  <1>7. Cardinality(0..(m - 1)) = m
    BY FS_Interval
  <1>8. \A i \in 1..m : at[i - 1] = p[i]
    BY <1>1, <1>5, NAssumption
  <1>9. Chain(links) = [i \in 1..m |-> at[i - 1]]
    BY <1>4, <1>6, <1>7
  <1> QED
    BY <1>1, <1>8, <1>9

\* In a state that p stands for, following next gives p, and the ends of runs
\* are where they are in p.
LEMMA InputIs ==
  ASSUME NEW m \in Nat, NEW p, Rep(m, p)
  PROVE  /\ Input = [i \in 1..m |-> p[i]]
         /\ RunEnds = {i \in 1..m : End(m, p, i)}
  <1>1. Input = [i \in 1..m |-> p[i]]
    <2>1. /\ p[0] = 0 /\ \A i \in 1..m : p[i] \in Node
          /\ \A i, j \in 0..m : p[i] = p[j] => i = j
      BY DEF Rep, Queued
    <2>2. (\A i \in 0..(m - 1) : next[p[i]] = p[i + 1]) /\ next[p[m]] = NULL
      BY DEF Rep, Linked
    <2>3. Chain(next) = [i \in 1..m |-> p[i]]
      BY <2>1, <2>2, ChainIs
    <2> QED
      BY <2>3 DEF Input
  <1> DEFINE w == [i \in 1..m |-> p[i]]
  <1>2. /\ DOMAIN w = 1..m /\ Len(w) = m
        /\ \A i \in 1..m : w[i] = p[i]
        /\ \A i \in 1..m : i # m => w[i + 1] = p[i + 1]
    <2>1. w \in Seq(Node)
      BY DEF Rep, Queued
    <2> QED
      BY <2>1
  <1> HIDE DEF w
  <1>3. RunEnds = {i \in DOMAIN w : i = Len(w) \/ kind[w[i + 1]] # kind[w[i]]}
    BY <1>1 DEF RunEnds, w
  <1>4. RunEnds = {i \in 1..m : End(m, p, i)}
    BY <1>2, <1>3 DEF End
  <1> QED
    BY <1>1, <1>4

LEMMA InvSound ==
  Inv => ListSound
  <1> SUFFICES ASSUME NEW m \in Nat, NEW p \in [0..m -> 0..N], Rep(m, p) PROVE ListSound
    BY DEF Inv
  <1>1. Queued(m, p) /\ Linked(m, p) /\ Threaded(m, p) /\ LastRun(m, p) /\ p[0] = 0 /\ NULL = 0
    BY DEF Rep, Queued, NULL
  <1> DEFINE w == Input
             ends == RunEnds
             Later(i) == {e \in ends : e > i}
             EndAfter(i) == IF Later(i) = {} THEN NULL ELSE w[Min(Later(i))]
             before == ends \ {Len(w)}
  <1>2. /\ DOMAIN w = 1..m /\ Len(w) = m /\ \A i \in 1..m : w[i] = p[i]
        /\ ends = {i \in 1..m : End(m, p, i)}
        /\ m = 0 <=> w = <<>>
    <2>1. w = [i \in 1..m |-> p[i]] /\ w \in Seq(Node)
      BY <1>1, InputIs DEF Queued
    <2> QED
      BY <2>1, InputIs
  <1> HIDE DEF w, ends
  <1>3. {n \in Node : kind[n] # "FREE"} = ToSet(w)
    BY <1>1, <1>2 DEF Queued, ToSet
  <1>4. IsInjective(w)
    BY <1>1, <1>2 DEF Queued, IsInjective
  <1>5. last_input = IF w = <<>> THEN 0 ELSE Last(w)
    BY <1>1, <1>2 DEF Linked, Last
  <1>6. ASSUME NEW i \in 0..m, i = 0 \/ End(m, p, i) PROVE itail[p[i]] = EndAfter(i)
    <2>1. CASE i = m
      <3>1. Later(i) = {}
        BY <1>2, <2>1
      <3>2. itail[p[i]] = NULL
        BY <1>1, <2>1 DEF Threaded
      <3> QED
        BY <3>1, <3>2
    <2>2. CASE i # m
      <3>1. PICK e \in (i + 1)..m : /\ itail[p[i]] = p[e] /\ End(m, p, e)
                                    /\ \A f \in (i + 1)..(e - 1) : ~End(m, p, f)
        BY <1>1, <1>6, <2>2 DEF Threaded
      <3> DEFINE L == Later(i)
      <3>2. e \in L /\ e \in Nat /\ L \subseteq Nat /\ \A x \in L : e <= x
        BY <1>2, <3>1
      <3>3. Min(L) = e
        <4> HIDE DEF L
        <4>1. Min(L) \in L /\ \A y \in L : Min(L) <= y
          BY <3>2, MinOfNumbers
        <4>2. Min(L) \in Nat /\ Min(L) <= e /\ e <= Min(L)
          BY <3>2, <4>1
        <4> QED
          BY <3>2, <4>2
      <3> QED
        BY <1>2, <3>1, <3>2, <3>3
    <2> QED
      BY <2>1, <2>2
  <1>7. itail[0] = EndAfter(0)
    <2>1. 0 \in 0..m
      OBVIOUS
    <2> HIDE DEF EndAfter
    <2>2. itail[p[0]] = EndAfter(0)
      BY <1>6, <2>1
    <2> QED
      BY <1>1, <2>2
  <1>8. ASSUME NEW i \in DOMAIN w PROVE itail[w[i]] = IF i \in ends THEN EndAfter(i) ELSE NULL
    <2>1. i \in 1..m /\ i \in 0..m /\ w[i] = p[i]
      BY <1>2
    <2>2. CASE i \in ends
      <3>1. End(m, p, i)
        BY <1>2, <2>2
      <3> HIDE DEF EndAfter
      <3> QED
        BY <1>6, <2>1, <2>2, <3>1
    <2>3. CASE i \notin ends
      BY <1>1, <1>2, <2>1, <2>3 DEF Threaded
    <2> QED
      BY <2>2, <2>3
  <1>9. last_itail = IF before = {} THEN 0 ELSE w[Max(before)]
    <2>1. PICK l \in 0..m : /\ last_itail = p[l]
                            /\ l = 0 \/ End(m, p, l)
                            /\ l = 0 \/ l < m
                            /\ \A f \in (l + 1)..(m - 1) : ~End(m, p, f)
      BY <1>1 DEF LastRun
    <2>2. \A x \in before : x \in 1..m /\ x <= l
      BY <1>2, <2>1
    <2>3. CASE l = 0
      BY <1>1, <2>1, <2>2, <2>3
    <2>4. CASE l # 0
      <3>1. l \in before /\ l \in Int /\ before \subseteq Int
        BY <1>2, <2>1, <2>4
      <3> HIDE DEF before
      <3>2. Max(before) \in before /\ \A y \in before : Max(before) >= y
        BY <2>2, <3>1, MaxOfBounded
      <3>3. Max(before) = l
        <4>1. Max(before) \in Int /\ Max(before) >= l /\ Max(before) <= l
          BY <2>2, <3>1, <3>2
        <4> QED
          BY <3>1, <4>1
      <3> QED
        BY <1>2, <2>1, <2>2, <3>1, <3>3
    <2> QED
      BY <2>3, <2>4
  <1>10. HasOob <=> \E n \in Node : kind[n] = "OOB"
    <2>1. PICK d \in 0..m : /\ SlotOf("OOB") = p[d]
                            /\ \A i \in 1..d : kind[p[i]] \notin Wanted("OOB")
                            /\ d < m => kind[p[d + 1]] \in Wanted("OOB")
      BY SlotFound DEF Kinds
    <2>2. (\E n \in Node : kind[n] = "OOB") <=> d < m
      <3>1. ASSUME NEW n \in Node, kind[n] = "OOB" PROVE d < m
        <4>1. PICK i \in 1..m : n = p[i]
          BY <1>1, <3>1 DEF Queued
        <4> QED
          BY <2>1, <3>1, <4>1 DEF Wanted
      <3>2. ASSUME d < m PROVE \E n \in Node : kind[n] = "OOB"
        <4>1. d + 1 \in 1..m /\ kind[p[d + 1]] = "OOB"
          BY <2>1, <3>2 DEF Wanted
        <4> QED
          BY <1>1, <4>1 DEF Queued
      <3> QED
        BY <3>1, <3>2
    <2>3. d < m <=> next[p[d]] # NULL
      <3>1. d < m => d \in 0..(m - 1) /\ d + 1 \in 1..m
        OBVIOUS
      <3>2. ~(d < m) => d = m
        OBVIOUS
      <3> QED
        BY <1>1, <3>1, <3>2 DEF Linked, Queued, Node
    <2>4. HasOob <=> next[SlotOf("OOB")] # NULL
      BY DEF HasOob, SlotOf, NULL
    <2> QED
      BY <2>1, <2>2, <2>3, <2>4
  <1> QED
    BY <1>3, <1>4, <1>5, <1>7, <1>8, <1>9, <1>10 DEF ListSound, w, ends

-----------------------------------------------------------------------------
(* Each step keeps the invariant, and is a step of the list.               *)

\* What the tasks p are as lines, if their kinds are kd.
LinesOf(m, p, kd) == [i \in 1..m |-> [id |-> p[i], kind |-> kd[p[i]]]]

LEMMA LinesNow ==
  ASSUME NEW m \in Nat, NEW p, Rep(m, p)
  PROVE  Lines = LinesOf(m, p, kind)
  <1> DEFINE w == [i \in 1..m |-> p[i]]
  <1>1. Input = w /\ DOMAIN w = 1..m /\ \A i \in 1..m : w[i] = p[i]
    BY InputIs
  <1> HIDE DEF w
  <1>2. Lines = [i \in DOMAIN w |-> [id |-> w[i], kind |-> kind[w[i]]]]
    BY <1>1 DEF Lines
  <1> QED
    BY <1>1, <1>2 DEF LinesOf

LEMMA LinesNext ==
  ASSUME NEW m \in Nat, NEW p, Rep(m, p)'
  PROVE  Lines' = LinesOf(m, p, kind')
  <1> DEFINE w == [i \in 1..m |-> p[i]]
  <1>1. /\ p[0] = 0 /\ \A i \in 1..m : p[i] \in Node
        /\ \A i, j \in 0..m : p[i] = p[j] => i = j
    BY DEF Rep, Queued
  <1>2. (\A i \in 0..(m - 1) : next'[p[i]] = p[i + 1]) /\ next'[p[m]] = NULL
    BY DEF Rep, Linked
  <1>3. Input' = w /\ DOMAIN w = 1..m /\ \A i \in 1..m : w[i] = p[i]
    BY <1>1, <1>2, ChainIs DEF Input
  <1>4. Lines' = [i \in DOMAIN Input' |-> [id |-> Input'[i], kind |-> kind'[Input'[i]]]]
    BY DEF Lines
  <1> QED
    BY <1>3, <1>4 DEF LinesOf

LEMMA FrontStep ==
  ASSUME NEW m \in Nat, NEW p, Rep(m, p), NEW t \in Node, NEW k \in Kinds, EnqueueFront(t, k)
  PROVE  Inv' /\ Abstract!Put(t, k, TRUE)
  <1> DEFINE q == Pushed(m, p, t)
  <1>1. Rep(m + 1, q)' /\ m + 1 \in Nat
    BY FrontKept
  <1>2. Inv'
    BY <1>1 DEF Inv, Rep, Queued
  <1>3. Lines = LinesOf(m, p, kind) /\ Lines' = LinesOf(m + 1, q, kind')
    BY <1>1, LinesNow, LinesNext
  <1>4. /\ \A i \in 1..m : p[i] # t /\ p[i] \in Node
        /\ kind' = [kind EXCEPT ![t] = k] /\ kind \in [Node -> Kinds \cup {"FREE"}]
        /\ result' = result
    BY DEF EnqueueFront, Fresh, Rep, Queued
  <1>5. LinesOf(m + 1, q, kind') = <<[id |-> t, kind |-> k]>> \o LinesOf(m, p, kind)
    <2> DEFINE r == [id |-> t, kind |-> k]
               w == LinesOf(m, p, kind)
               v == LinesOf(m + 1, q, kind')
               Line == [id : Node, kind : Kinds \cup {"FREE"}]
    <2>1. w \in Seq(Line) /\ Len(w) = m
      BY <1>4 DEF LinesOf
    <2>2. \A i \in 1..(m + 1) : v[i] = IF i = 1 THEN r ELSE w[i - 1]
      <3>1. ASSUME NEW i \in 1..(m + 1) PROVE v[i] = IF i = 1 THEN r ELSE w[i - 1]
        <4>1. v[i] = [id |-> q[i], kind |-> kind'[q[i]]]
          BY DEF LinesOf
        <4>2. CASE i = 1
          BY <1>4, <4>1, <4>2 DEF Pushed
        <4>3. CASE i # 1
          <5>1. i - 1 \in 1..m /\ q[i] = p[i - 1]
            BY <4>3 DEF Pushed
          <5>2. kind'[p[i - 1]] = kind[p[i - 1]]
            BY <1>4, <5>1
          <5> QED
            BY <4>1, <4>3, <5>1, <5>2 DEF LinesOf
        <4> QED
          BY <4>2, <4>3
      <3> QED
        BY <3>1
    <2>3. r \in Line /\ v = [i \in 1..(m + 1) |-> v[i]]
      BY DEF LinesOf
    <2> HIDE DEF r, w, v, Line
    <2>4. v = <<r>> \o w
      <3>1. <<r>> \in Seq(Line) /\ Len(<<r>>) = 1 /\ <<r>>[1] = r
        BY <2>3
      <3>2. /\ <<r>> \o w \in Seq(Line) /\ Len(<<r>> \o w) = m + 1
            /\ \A i \in 1..(m + 1) : (<<r>> \o w)[i] = IF i <= 1 THEN r ELSE w[i - 1]
        BY <2>1, <3>1, ConcatProperties
      <3>3. \A i \in 1..(m + 1) : (i <= 1 <=> i = 1) /\ v[i] = (<<r>> \o w)[i]
        BY <2>2, <3>2
      <3>4. v \in Seq(Line) /\ Len(v) = m + 1
        <4>1. \A i \in 1..(m + 1) : v[i] \in Line
          BY <3>2, <3>3
        <4> QED
          BY <2>3, <4>1
      <3> QED
        BY <3>2, <3>3, <3>4, SeqEqual
    <2> QED
      BY <2>4 DEF r, w, v
  <1>6. t \notin Abstract!Ids
    BY <1>3, <1>4 DEF Abstract!Ids, LinesOf
  <1> QED
    BY <1>2, <1>3, <1>4, <1>5, <1>6 DEF Abstract!Put

LEMMA BackStep ==
  ASSUME NEW m \in Nat, NEW p, Rep(m, p), NEW t \in Node, NEW k \in Kinds, EnqueueBack(t, k)
  PROVE  Inv' /\ Abstract!Put(t, k, FALSE)
  <1> DEFINE q == Appended(m, p, t)
  <1>1. Rep(m + 1, q)' /\ m + 1 \in Nat
    BY BackKept
  <1>2. Inv'
    BY <1>1 DEF Inv, Rep, Queued
  <1>3. Lines = LinesOf(m, p, kind) /\ Lines' = LinesOf(m + 1, q, kind')
    BY <1>1, LinesNow, LinesNext
  <1>4. /\ \A i \in 1..m : p[i] # t /\ p[i] \in Node
        /\ kind' = [kind EXCEPT ![t] = k] /\ kind \in [Node -> Kinds \cup {"FREE"}]
        /\ result' = result
    BY DEF EnqueueBack, Fresh, Rep, Queued
  <1>5. LinesOf(m + 1, q, kind') = Append(LinesOf(m, p, kind), [id |-> t, kind |-> k])
    <2> DEFINE r == [id |-> t, kind |-> k]
               w == LinesOf(m, p, kind)
               v == LinesOf(m + 1, q, kind')
               Line == [id : Node, kind : Kinds \cup {"FREE"}]
    <2>1. w \in Seq(Line) /\ Len(w) = m
      BY <1>4 DEF LinesOf
    <2>2. \A i \in 1..(m + 1) : v[i] = IF i = m + 1 THEN r ELSE w[i]
      <3>1. ASSUME NEW i \in 1..(m + 1) PROVE v[i] = IF i = m + 1 THEN r ELSE w[i]
        <4>1. v[i] = [id |-> q[i], kind |-> kind'[q[i]]]
          BY DEF LinesOf
        <4>2. CASE i = m + 1
          BY <1>4, <4>1, <4>2 DEF Appended
        <4>3. CASE i # m + 1
          <5>1. i \in 1..m /\ q[i] = p[i]
            BY <4>3 DEF Appended
          <5>2. kind'[p[i]] = kind[p[i]]
            BY <1>4, <5>1
          <5> QED
            BY <4>1, <4>3, <5>1, <5>2 DEF LinesOf
        <4> QED
          BY <4>2, <4>3
      <3> QED
        BY <3>1
    <2>3. r \in Line /\ v = [i \in 1..(m + 1) |-> v[i]]
      BY DEF LinesOf
    <2> HIDE DEF r, w, v, Line
    <2>4. v = Append(w, r)
      <3>1. /\ Append(w, r) \in Seq(Line) /\ Len(Append(w, r)) = m + 1
            /\ \A i \in 1..m : Append(w, r)[i] = w[i]
            /\ Append(w, r)[m + 1] = r
        BY <2>1, <2>3, AppendProperties
      <3>2. \A i \in 1..(m + 1) : v[i] = Append(w, r)[i]
        BY <2>2, <3>1
      <3>3. v \in Seq(Line) /\ Len(v) = m + 1
        BY <2>3, <3>1, <3>2
      <3> QED
        BY <3>1, <3>2, <3>3, SeqEqual
    <2> QED
      BY <2>4 DEF r, w, v
  <1>6. t \notin Abstract!Ids
    BY <1>3, <1>4 DEF Abstract!Ids, LinesOf
  <1> QED
    BY <1>2, <1>3, <1>4, <1>5, <1>6 DEF Abstract!Put

LEMMA PointersUnchanged ==
  ASSUME NEW m \in Nat, NEW p, Rep(m, p), UNCHANGED <<kind, next, itail, last_input, last_itail>>
  PROVE  Rep(m, p)'
  <1>1. \A i : End(m, p, i)' <=> End(m, p, i)
    BY DEF End
  <1>2. Queued(m, p)' /\ Linked(m, p)'
    BY DEF Rep, Queued, Linked
  <1>3. Threaded(m, p)'
    BY <1>1 DEF Rep, Threaded
  <1>4. LastRun(m, p)'
    BY <1>1 DEF Rep, LastRun
  <1> QED
    BY <1>2, <1>3, <1>4 DEF Rep

LEMMA DequeueStep ==
  ASSUME NEW m \in Nat, NEW p, Rep(m, p), NEW how \in Kinds \cup {"FIRST"}, Dequeue(how)
  PROVE  Inv' /\ Abstract!Take(Wanted(how))
  <1>1. PICK d \in 0..m : /\ SlotOf(how) = p[d] /\ FirstRun(m, p, d)
                          /\ \A i \in 1..d : kind[p[i]] \notin Wanted(how)
                          /\ d < m => kind[p[d + 1]] \in Wanted(how)
    BY SlotFound
  <1>2. /\ p \in [0..m -> 0..N] /\ \A i \in 1..m : p[i] \in Node
        /\ \A i, j \in 0..m : p[i] = p[j] => i = j
        /\ kind \in [Node -> Kinds \cup {"FREE"}]
    BY DEF Rep, Queued
  <1> DEFINE w == LinesOf(m, p, kind)
             I == {i \in 1..Len(w) : w[i].kind \in Wanted(how)}
             first == Abstract!SelectInSeq(w, LAMBDA line : line.kind \in Wanted(how))
             Line == [id : Node, kind : Kinds \cup {"FREE"}]
  <1>3. Lines = w
    BY LinesNow
  <1>4. w \in Seq(Line) /\ Len(w) = m /\ \A i \in 1..m : w[i] = [id |-> p[i], kind |-> kind[p[i]]]
    BY <1>2 DEF LinesOf
  <1>5. Abstract!Take(Wanted(how)) <=>
          /\ Lines' = IF first = 0 THEN w ELSE Abstract!RemoveAt(w, first)
          /\ result' = [wanted |-> Wanted(how), id |-> IF first = 0 THEN 0 ELSE w[first].id]
    BY <1>3 DEF Abstract!Take
  <1>6. first = IF I # {} THEN Min(I) ELSE 0
    BY DEF Abstract!SelectInSeq, Abstract!Min, Min
  <1> HIDE DEF first
  <1>7. CASE d = m
    <2>1. next[p[d]] = NULL /\ NULL = 0
      BY <1>7 DEF Rep, Linked, NULL
    <2>2. /\ UNCHANGED <<kind, next, itail, last_input, last_itail>>
          /\ result' = [wanted |-> Wanted(how), id |-> 0]
      BY <1>1, <2>1 DEF Dequeue
    <2>3. Rep(m, p)'
      BY <2>2, PointersUnchanged
    <2>4. Inv'
      BY <1>2, <2>3 DEF Inv
    <2>5. I = {}
      BY <1>1, <1>4, <1>7
    <2>6. Lines' = w
      BY <2>2, <2>3, LinesNext
    <2> HIDE DEF w, I
    <2> QED
      BY <1>5, <1>6, <2>2, <2>4, <2>5, <2>6
  <1>8. CASE d # m
    <2> DEFINE q == Dropped(m, p, d)
    <2>1. /\ d \in 0..(m - 1) /\ d + 1 \in 1..m /\ m - 1 \in Nat
          /\ next[p[d]] = p[d + 1] /\ p[d + 1] # NULL
      BY <1>2, <1>8 DEF Rep, Linked, Node, NULL
    <2>2. /\ Unlink(p[d + 1], p[d])
          /\ result' = [wanted |-> Wanted(how), id |-> p[d + 1]]
      BY <1>1, <2>1 DEF Dequeue
    <2>3. Rep(m - 1, q)'
      BY <1>1, <2>1, <2>2, DropKept
    <2>4. Inv'
      BY <2>1, <2>3 DEF Inv, Rep, Queued
    <2>5. Lines' = LinesOf(m - 1, q, kind')
      BY <2>1, <2>3, LinesNext
    <2>6. first = d + 1
      <3>1. d + 1 \in I /\ I \subseteq Nat /\ \A x \in I : d + 1 <= x
        BY <1>1, <1>4, <1>8, <2>1
      <3> HIDE DEF I
      <3>2. Min(I) \in I /\ \A y \in I : Min(I) <= y
        BY <3>1, MinOfNumbers
      <3>3. Min(I) \in Nat /\ d + 1 \in Nat /\ Min(I) <= d + 1 /\ d + 1 <= Min(I)
        BY <3>1, <3>2
      <3> QED
        BY <1>6, <3>1, <3>3
    <2>7. Abstract!RemoveAt(w, d + 1) = LinesOf(m - 1, q, kind')
      <3> DEFINE v == LinesOf(m - 1, q, kind')
                 a == SubSeq(w, 1, d)
                 b == SubSeq(w, d + 2, m)
      <3>1. Abstract!RemoveAt(w, d + 1) = a \o b
        <4>1. (d + 1) - 1 = d /\ (d + 1) + 1 = d + 2
          OBVIOUS
        <4> QED
          BY <1>4, <4>1 DEF Abstract!RemoveAt
      <3>2. ASSUME NEW i \in 1..(m - 1) PROVE v[i] = IF i <= d THEN w[i] ELSE w[i + 1]
        <4>1. v[i] = [id |-> q[i], kind |-> kind'[q[i]]] /\ q[i] = IF i <= d THEN p[i] ELSE p[i + 1]
          BY DEF LinesOf, Dropped
        <4>2. i \in 1..m /\ i + 1 \in 1..m /\ i \in 0..m /\ i + 1 \in 0..m /\ d + 1 \in 0..m
          BY <2>1
        <4>3. q[i] # p[d + 1] /\ q[i] \in Node
          BY <1>2, <4>1, <4>2
        <4>4. kind'[q[i]] = kind[q[i]]
          BY <1>2, <2>2, <4>3 DEF Unlink
        <4> QED
          BY <1>4, <4>1, <4>2, <4>4
      <3>3. v = [i \in 1..(m - 1) |-> v[i]]
        BY DEF LinesOf
      <3> HIDE DEF v, w
      <3>4. /\ a \in Seq(Line) /\ Len(a) = d /\ \A i \in 1..d : a[i] = w[i]
        <4>1. \A i \in 1..d : w[i] \in Line
          BY <1>4, <2>1
        <4> QED
          BY <4>1, SubSeqProperties
      <3>5. /\ b \in Seq(Line) /\ Len(b) = (m - 1) - d /\ \A i \in 1..((m - 1) - d) : b[i] = w[(d + 1) + i]
        <4>1. \A i \in (d + 2)..m : w[i] \in Line
          BY <1>4, <2>1
        <4>2. d + 2 \in Int /\ m \in Int
          OBVIOUS
        <4>3. /\ b \in Seq(Line) /\ Len(b) = IF d + 2 <= m THEN m - (d + 2) + 1 ELSE 0
              /\ \A i \in 1..(m - (d + 2) + 1) : b[i] = w[(d + 2) + i - 1]
          BY <4>1, <4>2, SubSeqProperties
        <4>4. m - (d + 2) + 1 = (m - 1) - d /\ \A i \in Int : (d + 2) + i - 1 = (d + 1) + i
          OBVIOUS
        <4> QED
          BY <2>1, <4>3, <4>4
      <3> HIDE DEF a, b, Line
      <3>6. /\ a \o b \in Seq(Line) /\ Len(a \o b) = m - 1
            /\ \A i \in 1..(m - 1) : (a \o b)[i] = IF i <= d THEN a[i] ELSE b[i - d]
        <4>1. Len(a) + Len(b) = m - 1
          BY <2>1, <3>4, <3>5
        <4> QED
          <5>1. /\ a \o b \in Seq(Line) /\ Len(a \o b) = Len(a) + Len(b)
                /\ \A i \in 1..(Len(a) + Len(b)) :
                     (a \o b)[i] = IF i <= Len(a) THEN a[i] ELSE b[i - Len(a)]
            BY <3>4, <3>5, ConcatProperties
          <5>2. Len(a) = d
            BY <3>4
          <5> QED
            BY <4>1, <5>1, <5>2
      <3>7. ASSUME NEW i \in 1..(m - 1) PROVE (a \o b)[i] = v[i]
        <4>1. CASE i <= d
          BY <3>2, <3>4, <3>6, <4>1
        <4>2. CASE ~(i <= d)
          <5>1. i - d \in 1..((m - 1) - d) /\ (d + 1) + (i - d) = i + 1
            BY <4>2
          <5>2. b[i - d] = w[i + 1]
            BY <3>5, <5>1
          <5> QED
            BY <3>2, <3>6, <4>2, <5>2
        <4> QED
          BY <4>1, <4>2
      <3>8. v \in Seq(Line) /\ Len(v) = m - 1
        <4>1. ASSUME NEW i \in 1..(m - 1) PROVE v[i] \in Line
          <5>1. i \in 1..Len(a \o b) /\ v[i] = (a \o b)[i]
            BY <3>6, <3>7
          <5> QED
            BY <3>6, <5>1, ElementOfSeq
        <4> QED
          BY <2>1, <3>3, <4>1
      <3>9. a \o b = v
        BY <3>6, <3>7, <3>8, SeqEqual
      <3> QED
        BY <3>1, <3>9 DEF v
    <2>8. w[d + 1].id = p[d + 1] /\ d + 1 # 0
      BY <1>4, <2>1
    <2> HIDE DEF w, I, q
    <2> QED
      BY <1>5, <2>2, <2>4, <2>5, <2>6, <2>7, <2>8
  <1> QED
    BY <1>7, <1>8

LEMMA StepKept ==
  ASSUME Inv, [Next]_vars
  PROVE  Inv' /\ [Abstract!Next]_<<Lines, result>>
  <1> PICK m \in Nat : \E p \in [0..m -> 0..N] : Rep(m, p)
    BY DEF Inv
  <1> PICK p \in [0..m -> 0..N] : Rep(m, p)
    OBVIOUS
  <1>1. ASSUME NEW t \in Node, NEW k \in Kinds, EnqueueFront(t, k)
        PROVE  Inv' /\ [Abstract!Next]_<<Lines, result>>
    BY <1>1, FrontStep DEF Abstract!Next
  <1>2. ASSUME NEW t \in Node, NEW k \in Kinds, EnqueueBack(t, k)
        PROVE  Inv' /\ [Abstract!Next]_<<Lines, result>>
    BY <1>2, BackStep DEF Abstract!Next
  <1>3. ASSUME NEW how \in Kinds \cup {"FIRST"}, Dequeue(how)
        PROVE  Inv' /\ [Abstract!Next]_<<Lines, result>>
    <2>1. Wanted(how) \in {{k} : k \in Kinds} \cup {Kinds}
      BY DEF Wanted, Kinds
    <2> QED
      BY <1>3, <2>1, DequeueStep DEF Abstract!Next
  <1>4. CASE UNCHANGED vars
    <2>1. Rep(m, p)'
      BY <1>4, PointersUnchanged DEF vars
    <2>2. UNCHANGED <<Lines, result>>
      BY <1>4 DEF vars, Lines, Input, Chain
    <2> QED
      BY <2>1, <2>2 DEF Inv
  <1> QED
    BY <1>1, <1>2, <1>3, <1>4 DEF Next

\* However lines are put at either end of a tqueue's input and taken from it, the
\* list, its last pointer, the itail queue through the ends of its runs and the
\* last slot of that agree (enqueue_input_task, dequeue_input_task), for queues
\* of any length.
THEOREM PointersAgree == Spec => []ListSound
  <1>1. Inv /\ [Next]_vars => Inv'
    BY StepKept
  <1> QED
    BY <1>1, InitInv, InvSound, PTL DEF Spec

\* The pointers of a tqueue implement the list of lines of InputList: who asks
\* for a line gets the first of the kind wanted, nothing only if there is none,
\* and no line is lost, doubled or overtaken by another of its kind.
THEOREM QueueIsList == Spec => ImplementsList
  <1>1. Init => Abstract!Init
    <2> SUFFICES ASSUME Init PROVE Abstract!Init
      OBVIOUS
    <2>0. PICK m \in Nat : \E p \in [0..m -> 0..N] : Rep(m, p)
      BY InitInv DEF Inv
    <2>1. PICK p \in [0..m -> 0..N] : Rep(m, p)
      BY <2>0
    <2>2. m = 0
      <3>1. m # 0 => 1 \in 1..m
        OBVIOUS
      <3> QED
        BY <2>1, <3>1 DEF Rep, Queued, Init
    <2>3. Lines = <<>>
      BY <2>1, <2>2, LinesNow DEF LinesOf
    <2> QED
      BY <2>3 DEF Init, Abstract!Init
  <1>2. Inv /\ [Next]_vars => [Abstract!Next]_<<Lines, result>>
    BY StepKept
  <1>3. Inv /\ [Next]_vars => Inv'
    BY StepKept
  <1> QED
    BY <1>1, <1>2, <1>3, InitInv, PTL DEF Spec, ImplementsList, Abstract!Spec
=============================================================================
