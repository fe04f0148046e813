---------------------------- MODULE Tasks_proofs ----------------------------
(***************************************************************************)
(* Proofs about Tasks, for any number of queues, tasks, players and lines. *)
(***************************************************************************)
EXTENDS Tasks, Lemmas, FiniteSetTheorems

\* The workloads in which the server is not restarted.
OneLifetime == \A work \in Workloads : "restart" \notin work.calls

\* Whether switch_player is called, which leaves ready tasks on idle queues.
Moving == "switch_player" \in does.calls

\* run_ready_tasks would not take a line from a queue like r.
Quiet(r) ==
  \/ r.input = <<>>
  \/ /\ r.hold /\ r.reading = NoVm
     /\ r.no_oob \/ \A line \in ToSet(r.input) : line.kind # "OOB"

\* What an idle queue must be like, and what every queue must be like.
IdleRow(r, moving) ==
  /\ Quiet(r)
  /\ r.reading # NoVm => ~is_out_of_input(r)
  /\ ~moving => r.bg = <<>>
LiveRow(r) ==
  /\ r.susp /\ r.connected => r.input # <<>>
  /\ r.connected => r.player # NOTHING
  /\ r.player \in Conn => r.bg = <<>> /\ r.num_bg = 0

OneQueue(w) ==
  \A p, q \in Live(w) :
    p # q => w.queue[p].player # w.queue[q].player \/ w.queue[p].player = NOTHING

\* The world between two calls; within one, the queues in but are exempted.
SoundBut(w, moving, but) ==
  /\ w \in Worlds
  /\ ListsSound(w)
  /\ OneQueue(w)
  /\ \A q \in w.idle \ but : IdleRow(w.queue[q], moving)
  /\ \A q \in Live(w) : LiveRow(w.queue[q])
Sound(w, moving) == SoundBut(w, moving, {})

\* What the server's thread relies on while it runs task c.
Threads ==
  [id : TaskId \cup {0}, progr : User \cup {NOTHING}, q : Queue \cup {0},
   login : BOOLEAN, closing : Queue \cup {0}]
Thread(w, where, c) ==
  /\ where \in {"loop", "ready", "task"} /\ c \in Threads
  /\ where # "task" => c = NoTask
  /\ where = "task" => c.id \in TaskId /\ c.progr \in User
  /\ c.q # 0 => w.active # <<>> /\ w.active[1] = c.q
  /\ c.closing # 0 => c.q = 0 /\ c.closing \in Live(w)
  /\ c.login => c.q # 0

-----------------------------------------------------------------------------
(* Types.                                                                  *)

LEMMA WorldFields ==
  ASSUME NEW w \in Worlds
  PROVE  /\ w.queue \in [Queue -> TQueues] /\ w.active \in Seq(Queue)
         /\ w.idle \subseteq Queue /\ w.waiting \in Seq(Tasks)
         /\ w = [queue |-> w.queue, active |-> w.active, idle |-> w.idle,
                 waiting |-> w.waiting]
  BY DEF Worlds

LEMMA RowFields ==
  ASSUME NEW r \in TQueues
  PROVE  /\ r.player \in User \cup Conn \cup {NOTHING} /\ r.connected \in BOOLEAN
         /\ r.input \in Seq(Lines) /\ r.susp \in BOOLEAN /\ r.bg \in Seq(Tasks)
         /\ r.usage \in -1..MaxUsage /\ r.usage \in Int /\ r.num_bg \in Int
         /\ r.hold \in BOOLEAN /\ r.no_oob \in BOOLEAN
         /\ r.reading \in Vms \cup {NoVm} /\ r.parsing \in BOOLEAN
  BY TaskAssumption DEF TQueues

\* The places of a list of queues are numbers from 1.
LEMMA ActiveList ==
  ASSUME NEW w \in Worlds
  PROVE  /\ Len(w.active) \in Nat /\ DOMAIN w.active = 1..Len(w.active)
         /\ \A i \in 1..Len(w.active) : w.active[i] \in Queue
         /\ ToSet(w.active) \subseteq Queue /\ Live(w) \subseteq Queue
         /\ w.active # <<>> => /\ Head(w.active) = w.active[1]
                               /\ w.active[1] \in ToSet(w.active)
  <1>1. w.active \in Seq(Queue) /\ w.idle \subseteq Queue
    BY WorldFields
  <1>2. /\ Len(w.active) \in Nat /\ DOMAIN w.active = 1..Len(w.active)
        /\ \A i \in 1..Len(w.active) : w.active[i] \in Queue
    BY <1>1, ElementOfSeq, LenProperties
  <1>3. w.active # <<>> => 1 \in 1..Len(w.active) /\ Head(w.active) = w.active[1]
    BY <1>1, <1>2, EmptySeq, HeadTailProperties
  <1> QED
    BY <1>1, <1>2, <1>3 DEF ToSet, Live

-----------------------------------------------------------------------------
(* The lists of queues.                                                    *)

ActiveSorted(w) ==
  \A i, j \in DOMAIN w.active :
    i < j => /\ w.active[i] # w.active[j]
             /\ w.queue[w.active[i]].usage <= w.queue[w.active[j]].usage

Usage(w) == [q \in Queue |-> w.queue[q].usage]

LEMMA ActivateIs ==
  ASSUME NEW w \in Worlds, NEW q \in Queue
  PROVE  activate_tqueue(w, q) =
           [w EXCEPT !.active = PutInOrder(w.active, Usage(w), q)]
  <1> DEFINE I == {i \in 1..Len(w.active) : w.queue[w.active[i]].usage > w.queue[q].usage}
  <1>1. LaterThan(w.active, Usage(w), q) = I
    BY ActiveList DEF LaterThan, Usage
  <1>2. activate_tqueue(w, q) =
          [w EXCEPT !.active = IF (IF I # {} THEN Min(I) ELSE 0) = 0 THEN Append(w.active, q)
                               ELSE InsertAt(w.active, IF I # {} THEN Min(I) ELSE 0, q)]
    BY DEF activate_tqueue, SelectInSeq
  <1>3. I # {} => Min(I) # 0
    <2>1. I \subseteq Nat /\ 0 \notin I
      BY ActiveList
    <2> QED
      BY <2>1, MinOfNumbers
  <1> HIDE DEF I
  <1> QED
    BY <1>1, <1>2, <1>3 DEF PutInOrder

LEMMA Activate ==
  ASSUME NEW w \in Worlds, NEW q \in Queue, q \notin ToSet(w.active), ActiveSorted(w),
         NEW v, v = activate_tqueue(w, q)
  PROVE  /\ v \in Worlds /\ v.queue = w.queue /\ v.idle = w.idle /\ v.waiting = w.waiting
         /\ ToSet(v.active) = ToSet(w.active) \cup {q}
         /\ ActiveSorted(v)
         /\ w.active # <<>> /\ w.queue[w.active[1]].usage <= w.queue[q].usage =>
              v.active # <<>> /\ v.active[1] = w.active[1]
         /\ v.active # <<>>
  <1> DEFINE s == w.active
             key == Usage(w)
             t == PutInOrder(s, key, q)
  <1>1. v = [w EXCEPT !.active = t]
    BY ActivateIs
  <1>2. /\ s \in Seq(Queue) /\ Len(s) \in Nat /\ DOMAIN s = 1..Len(s)
        /\ \A i \in 1..Len(s) : s[i] \in Queue /\ s[i] # q
    BY WorldFields, ActiveList DEF ToSet
  <1>3. key \in [Queue -> Int] /\ \A r \in Queue : key[r] = w.queue[r].usage
    BY WorldFields, RowFields DEF Usage
  <1>4. InOrder(s, key)
    BY <1>2, <1>3 DEF InOrder, ActiveSorted
  <1> HIDE DEF key
  <1>5. Placed(s, q, t) /\ InOrder(t, key)
        /\ (s # <<>> /\ key[s[1]] <= key[q] => t # <<>> /\ t[1] = s[1])
    BY <1>2, <1>3, <1>4, PutKeepsOrder
  <1> HIDE DEF t
  <1>6. t \in Seq(Queue) /\ Len(t) = Len(s) + 1 /\ ToSet(t) = ToSet(s) \cup {q}
    BY <1>2, <1>5, PlacedIs
  <1>7. /\ v \in Worlds /\ v.queue = w.queue /\ v.idle = w.idle /\ v.waiting = w.waiting
        /\ v.active = t
    BY <1>1, <1>6 DEF Worlds
  <1>8. PICK k \in 1..(Len(s) + 1) :
          t = [i \in 1..(Len(s) + 1) |-> IF i < k THEN s[i]
                                        ELSE IF i = k THEN q ELSE s[i - 1]]
    BY <1>5 DEF Placed
  <1>9. ASSUME NEW i \in 1..(Len(s) + 1), NEW j \in 1..(Len(s) + 1), i < j
        PROVE  t[i] # t[j]
    <2>1. \A m, n \in 1..Len(s) : m < n => s[m] # s[n]
      BY <1>2 DEF ActiveSorted
    <2>2. \A m \in 1..(Len(s) + 1) : /\ m < k => t[m] = s[m] /\ m \in 1..Len(s)
                                     /\ m = k => t[m] = q
                                     /\ m > k => t[m] = s[m - 1] /\ m - 1 \in 1..Len(s)
      BY <1>2, <1>8
    <2>3. CASE i < k /\ j < k
      BY <1>2, <1>9, <2>1, <2>2, <2>3
    <2>4. CASE i < k /\ j > k
      <3>1. i < j - 1
        BY <1>2, <2>4
      <3> QED
        BY <1>2, <2>1, <2>2, <2>4, <3>1
    <2>5. CASE i > k /\ j > k
      <3>1. i - 1 < j - 1
        BY <1>2, <1>9, <2>5
      <3> QED
        BY <1>2, <2>1, <2>2, <2>5, <3>1, SMTT(30)
    <2>6. CASE i = k \/ j = k
      BY <1>2, <1>9, <2>2, <2>6
    <2> QED
      BY <1>2, <1>9, <2>3, <2>4, <2>5, <2>6
  <1>10. DOMAIN t = 1..(Len(s) + 1) /\ t # <<>>
    BY <1>2, <1>8
  <1>11. \A i \in 1..(Len(s) + 1) : t[i] \in Queue
    BY <1>6, <1>10, ElementOfSeq, LenProperties
  <1>12. ActiveSorted(v)
    <2> SUFFICES ASSUME NEW i \in 1..(Len(s) + 1), NEW j \in 1..(Len(s) + 1), i < j
                 PROVE  t[i] # t[j] /\ w.queue[t[i]].usage <= w.queue[t[j]].usage
      BY <1>7, <1>10 DEF ActiveSorted
    <2>1. key[t[i]] <= key[t[j]]
      BY <1>5, <1>10 DEF InOrder
    <2> QED
      BY <1>3, <1>9, <1>11, <2>1
  <1>13. s # <<>> => s[1] \in Queue
    BY <1>2, ActiveList
  <1> QED
    BY <1>3, <1>5, <1>6, <1>7, <1>10, <1>12, <1>13

\* What a helper leaves of the lists of queues: the queues in use, and the
\* first of the active ones.
Kept(w, v) ==
  /\ Live(w) \subseteq Live(v)
  /\ w.active # <<>> => v.active # <<>> /\ v.active[1] = w.active[1]

\* No task moves: what waits, is ready or reads in v does so in w.
SameTasks(w, v) ==
  /\ v.waiting = w.waiting
  /\ \A q \in Live(v) :
       IF q \in Live(w)
       THEN v.queue[q].bg = w.queue[q].bg /\ v.queue[q].reading = w.queue[q].reading
       ELSE v.queue[q].bg = <<>> /\ v.queue[q].reading = NoVm

\* Nor does a queue change its player or its count of tasks.
SameWork(w, v) ==
  /\ SameTasks(w, v)
  /\ \A q \in Live(v) :
       IF q \in Live(w)
       THEN v.queue[q].player = w.queue[q].player /\ v.queue[q].num_bg = w.queue[q].num_bg
       ELSE v.queue[q].num_bg = 0

LEMMA KeptThenKept ==
  ASSUME NEW w, NEW x, NEW v, Kept(w, x), Kept(x, v)
  PROVE  /\ Kept(w, v)
         /\ SameTasks(w, x) /\ SameTasks(x, v) => SameTasks(w, v)
         /\ SameWork(w, x) /\ SameWork(x, v) => SameWork(w, v)
  <1>1. Kept(w, v) /\ (SameTasks(w, x) /\ SameTasks(x, v) => SameTasks(w, v))
    BY DEF Kept, SameTasks
  <1> QED
    BY <1>1 DEF Kept, SameWork

Charged(r, u) == [r EXCEPT !.usage = u]

\* ensure_usage: q is active afterwards, whatever it was.
LEMMA EnsureUsage ==
  ASSUME NEW w \in Worlds, ListsSound(w), NEW q \in Live(w),
         NEW v, v = ensure_usage(w, q)
  PROVE  /\ v \in Worlds /\ ListsSound(v)
         /\ v.waiting = w.waiting /\ Live(v) = Live(w) /\ Kept(w, v)
         /\ v.idle = w.idle \ {q} /\ q \in ToSet(v.active)
         /\ \A r \in Queue \ {q} : v.queue[r] = w.queue[r]
         /\ \E u \in -1..MaxUsage : v.queue[q] = Charged(w.queue[q], u)
  <1>0. /\ w.queue \in [Queue -> TQueues] /\ w.active \in Seq(Queue)
        /\ w.idle \subseteq Queue /\ w.waiting \in Seq(Tasks) /\ q \in Queue
        /\ w.queue[q] \in TQueues /\ w.queue[q].usage \in -1..MaxUsage
    BY WorldFields, ActiveList, RowFields
  <1>1. CASE w.queue[q].usage # NO_USAGE
    <2>1. v = w
      BY <1>1 DEF ensure_usage
    <2>2. q \notin w.idle /\ q \in ToSet(w.active)
      BY <1>1 DEF ListsSound, Live
    <2>3. w.queue[q] = [w.queue[q] EXCEPT !.usage = w.queue[q].usage]
      BY <1>0 DEF TQueues
    <2> QED
      BY <1>0, <2>1, <2>2, <2>3 DEF Kept, Charged
  <1>2. CASE w.queue[q].usage = NO_USAGE
    <2> DEFINE u == IF w.active = <<>> THEN 0 ELSE w.queue[Head(w.active)].usage
               x == [w EXCEPT !.queue[q].usage = u, !.idle = w.idle \ {q}]
    <2>1. v = activate_tqueue(x, q)
      BY <1>2 DEF ensure_usage
    <2>2. q \notin ToSet(w.active) /\ q \in w.idle
      BY <1>2 DEF ListsSound, Live, NO_USAGE
    <2>3. u \in -1..MaxUsage /\ u \in Int /\ u >= 0
          /\ (w.active # <<>> => u = w.queue[w.active[1]].usage)
      <3>1. CASE w.active = <<>>
        BY <3>1, TaskAssumption
      <3>2. CASE w.active # <<>>
        <4>1. w.active[1] \in ToSet(w.active) /\ w.active[1] \in Queue /\ Head(w.active) = w.active[1]
          BY <3>2, ActiveList
        <4>2. w.queue[w.active[1]].usage >= 0 /\ w.queue[w.active[1]].usage \in -1..MaxUsage
          BY <1>0, <4>1, RowFields DEF ListsSound
        <4> QED
          BY <3>2, <4>1, <4>2, TaskAssumption
      <3> QED
        BY <3>1, <3>2
    <2> HIDE DEF u
    <2>4. [w.queue[q] EXCEPT !.usage = u] \in TQueues
      BY <1>0, <2>3 DEF TQueues
    <2>5. /\ x.queue = [w.queue EXCEPT ![q] = [w.queue[q] EXCEPT !.usage = u]]
          /\ x.active = w.active /\ x.idle = w.idle \ {q} /\ x.waiting = w.waiting
          /\ x \in Worlds
      BY <1>0, <2>4 DEF Worlds
    <2> HIDE DEF x
    <2>6. /\ \A r \in Queue \ {q} : x.queue[r] = w.queue[r]
          /\ x.queue[q] = [w.queue[q] EXCEPT !.usage = u]
          /\ x.queue[q].usage = u
      BY <1>0, <2>4, <2>5 DEF TQueues
    <2>7. ActiveSorted(x)
      BY <2>2, <2>5, <2>6, ActiveList DEF ActiveSorted, ListsSound, ToSet
    <2>8. /\ v \in Worlds /\ v.queue = x.queue /\ v.idle = x.idle /\ v.waiting = x.waiting
          /\ ToSet(v.active) = ToSet(x.active) \cup {q} /\ ActiveSorted(v)
          /\ x.active # <<>> /\ x.queue[x.active[1]].usage <= x.queue[q].usage =>
                v.active # <<>> /\ v.active[1] = x.active[1]
      <3>1. q \in Queue /\ q \notin ToSet(x.active) /\ x \in Worlds
        BY <1>0, <2>2, <2>5
      <3> QED
        BY ONLY <2>1, <2>7, <3>1, Activate
    <2>9. Live(v) = Live(w)
      BY <2>2, <2>5, <2>8 DEF Live
    <2>10. Kept(w, v)
      <3>1. w.active # <<>> => w.active[1] \in ToSet(w.active) /\ w.active[1] \in Queue
        BY ActiveList
      <3>2. w.active # <<>> => x.queue[w.active[1]].usage = x.queue[q].usage
        BY <2>2, <2>3, <2>6, <3>1
      <3>3. w.active # <<>> => x.queue[x.active[1]].usage <= x.queue[q].usage
        BY <2>3, <2>5, <2>6, <3>2
      <3> QED
        BY <2>5, <2>8, <2>9, <3>3 DEF Kept
    <2>11. ListsSound(v)
      <3>1. ToSet(v.active) \cap v.idle = {}
        BY <2>5, <2>8 DEF ListsSound
      <3>2. ASSUME NEW r \in ToSet(v.active) PROVE v.queue[r].usage >= 0
        <4>1. r = q \/ (r \in ToSet(w.active) /\ r \in Queue \ {q})
          BY <2>5, <2>8, ActiveList
        <4> QED
          BY <2>3, <2>6, <2>8, <4>1 DEF ListsSound
      <3>3. ASSUME NEW r \in v.idle PROVE v.queue[r].usage = NO_USAGE
        <4>1. r \in w.idle /\ r \in Queue \ {q}
          BY <1>0, <2>5, <2>8
        <4> QED
          BY <2>6, <2>8, <4>1 DEF ListsSound
      <3> QED
        BY <2>5, <2>8, <3>1, <3>2, <3>3 DEF ListsSound, ActiveSorted
    <2> QED
      BY <2>3, <2>5, <2>6, <2>8, <2>9, <2>10, <2>11 DEF Charged
  <1> QED
    BY <1>1, <1>2

Ensured(w, v, moving, but, q) ==
  /\ SoundBut(v, moving, but \ {q}) /\ SameWork(w, v)
  /\ v.waiting = w.waiting /\ Live(v) = Live(w) /\ Kept(w, v)
  /\ v.idle = w.idle \ {q} /\ q \in ToSet(v.active)
  /\ \A r \in Queue \ {q} : v.queue[r] = w.queue[r]
  /\ \E u \in -1..MaxUsage : v.queue[q] = Charged(w.queue[q], u)

\* A sound world stays sound when q is activated, and q needs no exemption.
LEMMA EnsureSound ==
  ASSUME NEW w, NEW moving, NEW but, SoundBut(w, moving, but), NEW q \in Live(w),
         NEW v, v = ensure_usage(w, q)
  PROVE  Ensured(w, v, moving, but, q)
  <1>1. w \in Worlds /\ ListsSound(w)
    BY DEF SoundBut
  <1>2. /\ v \in Worlds /\ ListsSound(v)
        /\ v.waiting = w.waiting /\ Live(v) = Live(w) /\ Kept(w, v)
        /\ v.idle = w.idle \ {q} /\ q \in ToSet(v.active)
        /\ \A r \in Queue \ {q} : v.queue[r] = w.queue[r]
        /\ \E u \in -1..MaxUsage : v.queue[q] = Charged(w.queue[q], u)
    <2>1. w \in Worlds /\ ListsSound(w) /\ q \in Live(w) /\ v = ensure_usage(w, q)
      BY <1>1
    <2> QED
      BY ONLY <2>1, EnsureUsage
  <1>3. Live(w) \subseteq Queue /\ q \in Queue /\ w.idle \subseteq Queue
        /\ w.queue[q] \in TQueues
    BY <1>1, ActiveList, WorldFields
  <1>4. v.queue[q].player = w.queue[q].player
    BY <1>2, <1>3 DEF TQueues, Charged
  <1>5. OneQueue(v)
    <2>1. \A r \in Live(w) : v.queue[r].player = w.queue[r].player
      BY <1>2, <1>3, <1>4
    <2> QED
      BY <1>2, <2>1 DEF SoundBut, OneQueue
  <1>6. LiveRow(v.queue[q])
    <2>1. LiveRow(w.queue[q])
      BY DEF SoundBut
    <2> QED
      BY <1>2, <1>3, <2>1 DEF LiveRow, TQueues, Charged
  <1>7. \A r \in Live(v) : LiveRow(v.queue[r])
    BY <1>2, <1>3, <1>6 DEF SoundBut
  <1>8. \A r \in v.idle \ (but \ {q}) : IdleRow(v.queue[r], moving)
    BY <1>2, <1>3 DEF SoundBut
  <1>9. SameWork(w, v)
    <2>1. /\ v.queue[q].bg = w.queue[q].bg /\ v.queue[q].reading = w.queue[q].reading
          /\ v.queue[q].num_bg = w.queue[q].num_bg
      BY <1>2, <1>3 DEF TQueues, Charged
    <2> QED
      BY <1>2, <1>3, <1>4, <2>1 DEF SameWork, SameTasks
  <1> QED
    BY <1>2, <1>5, <1>7, <1>8, <1>9 DEF SoundBut, Ensured

SetRow(w, q, r) == [w EXCEPT !.queue[q] = r]
RowSet(w, v, moving, but, q, r) ==
  /\ \A p \in Queue \ {q} : v.queue[p] = w.queue[p]
  /\ v.queue[q] = r
  /\ v.active = w.active /\ v.idle = w.idle /\ v.waiting = w.waiting
  /\ Live(v) = Live(w) /\ Kept(w, v)
  /\ r.bg = w.queue[q].bg /\ r.reading = w.queue[q].reading =>
       SameTasks(w, v) /\ (r.num_bg = w.queue[q].num_bg => SameWork(w, v))
  /\ SoundBut(v, moving, but \cup {q})
  /\ (q \in w.idle \ but => IdleRow(r, moving)) => SoundBut(v, moving, but)

\* A change of one queue that leaves its player and its usage alone.
LEMMA RowChanged ==
  ASSUME NEW w, NEW moving, NEW but, SoundBut(w, moving, but), NEW q \in Queue,
         NEW r \in TQueues, r.usage = w.queue[q].usage, r.player = w.queue[q].player,
         q \in Live(w) => LiveRow(r),
         NEW v, v = SetRow(w, q, r)
  PROVE  RowSet(w, v, moving, but, q, r)
  <1>0. w \in Worlds
    BY DEF SoundBut
  <1>1. /\ w.queue \in [Queue -> TQueues] /\ w.active \in Seq(Queue)
        /\ w.idle \subseteq Queue /\ w.waiting \in Seq(Tasks)
        /\ Live(w) \subseteq Queue /\ ToSet(w.active) \subseteq Queue
        /\ \A i \in DOMAIN w.active : w.active[i] \in Queue
    BY <1>0, WorldFields, ActiveList
  <1>2. /\ v.queue = [w.queue EXCEPT ![q] = r]
        /\ v.active = w.active /\ v.idle = w.idle /\ v.waiting = w.waiting
        /\ v \in Worlds
    BY <1>0, <1>1 DEF Worlds, SetRow
  <1>3. /\ \A p \in Queue \ {q} : v.queue[p] = w.queue[p]
        /\ v.queue[q] = r
    BY <1>1, <1>2
  <1>4. Live(v) = Live(w) /\ Kept(w, v)
    BY <1>2 DEF Live, Kept
  <1>5. \A p \in Queue : v.queue[p].usage = w.queue[p].usage /\ v.queue[p].player = w.queue[p].player
    BY <1>3
  <1>6. ListsSound(v)
    <2>1. ListsSound(w)
      BY DEF SoundBut
    <2> QED
      BY <1>1, <1>2, <1>5, <2>1 DEF ListsSound
  <1>7. OneQueue(v)
    BY <1>1, <1>4, <1>5 DEF SoundBut, OneQueue
  <1>8. \A p \in Live(v) : LiveRow(v.queue[p])
    BY <1>1, <1>3, <1>4 DEF SoundBut
  <1>9. \A p \in v.idle \ (but \cup {q}) : IdleRow(v.queue[p], moving)
    BY <1>1, <1>2, <1>3 DEF SoundBut
  <1>10. (q \in w.idle \ but => IdleRow(r, moving)) =>
            \A p \in v.idle \ but : IdleRow(v.queue[p], moving)
    BY <1>1, <1>2, <1>3 DEF SoundBut
  <1>11. r.bg = w.queue[q].bg /\ r.reading = w.queue[q].reading => SameTasks(w, v)
    BY <1>1, <1>2, <1>3, <1>4 DEF SameTasks
  <1>12. SameTasks(w, v) /\ r.num_bg = w.queue[q].num_bg => SameWork(w, v)
    BY <1>1, <1>3, <1>4, <1>5 DEF SameWork
  <1> QED
    BY <1>2, <1>3, <1>4, <1>6, <1>7, <1>8, <1>9, <1>10, <1>11, <1>12 DEF SoundBut, RowSet

\* A tqueue as find_tqueue creates it.
LEMMA NewRow ==
  ASSUME NEW player \in User \cup Conn \cup {NOTHING}
  PROVE  /\ NewTQueue(player) \in TQueues /\ NewTQueue(player).usage = NO_USAGE
         /\ NewTQueue(player).player = player /\ NewTQueue(player).bg = <<>>
         /\ NewTQueue(player).reading = NoVm /\ NewTQueue(player).num_bg = 0
         /\ NewTQueue(player).connected = FALSE /\ NewTQueue(player).input = <<>>
         /\ LiveRow(NewTQueue(player))
         /\ \A moving : IdleRow(NewTQueue(player), moving)
  <1>1. NO_USAGE \in -1..MaxUsage
    BY TaskAssumption DEF NO_USAGE
  <1>2. NewTQueue(player) \in TQueues
    BY <1>1 DEF NewTQueue, TQueues
  <1> QED
    BY <1>2 DEF NewTQueue, LiveRow, IdleRow, Quiet

Found(w, v, moving, but, player, q) ==
  /\ SoundBut(v, moving, but) /\ Kept(w, v) /\ SameWork(w, v)
  /\ v.active = w.active /\ v.waiting = w.waiting
  /\ Live(v) = Live(w) \cup {q} /\ q \in Live(v) /\ q \in Queue
  /\ QueuesOf(v, player) = {q} /\ v.queue[q].player = player
  /\ \A r \in Queue \ {q} : v.queue[r] = w.queue[r]
  /\ IF q \in Live(w) THEN v = w
     ELSE v.queue[q] = NewTQueue(player) /\ v.idle = w.idle \cup {q}

\* find_tqueue: the player has exactly one queue afterwards, an old one or a
\* new and empty one.
LEMMA FindQueue ==
  ASSUME NEW w, NEW moving, NEW but, SoundBut(w, moving, but),
         NEW player \in User \cup Conn, CanFind(w, player),
         NEW v, v = find_tqueue(w, player), NEW q, q = QueueOf(v, player)
  PROVE  Found(w, v, moving, but, player, q)
  <1>0. w \in Worlds /\ player # NOTHING
    BY TaskAssumption DEF SoundBut
  <1>1. /\ w.queue \in [Queue -> TQueues] /\ w.active \in Seq(Queue)
        /\ w.idle \subseteq Queue /\ w.waiting \in Seq(Tasks)
        /\ Live(w) \subseteq Queue /\ ToSet(w.active) \subseteq Queue
        /\ \A i \in DOMAIN w.active : w.active[i] \in Queue
    BY <1>0, WorldFields, ActiveList
  <1>2. CASE QueuesOf(w, player) # {}
    <2>1. v = w
      BY <1>2 DEF find_tqueue
    <2>2. q \in QueuesOf(w, player)
      BY <1>2, <2>1 DEF QueueOf
    <2>3. q \in Live(w) /\ w.queue[q].player = player
      BY <2>2 DEF QueuesOf
    <2>4. QueuesOf(w, player) = {q}
      BY <1>0, <2>2 DEF QueuesOf, SoundBut, OneQueue
    <2> QED
      BY <1>1, <2>1, <2>3, <2>4 DEF Kept, SameWork, SameTasks, Found
  <1>3. CASE QueuesOf(w, player) = {}
    <2> DEFINE s == Min(FreeSlots(w))
               x == [w EXCEPT !.queue[s] = NewTQueue(player)]
    <2>1. s \in Queue /\ s \notin Live(w)
      <3>1. FreeSlots(w) \subseteq Nat /\ FreeSlots(w) # {}
        BY <1>3, QueueAssumption DEF CanFind, FreeSlots
      <3>2. s \in FreeSlots(w)
        BY <3>1, MinOfNumbers
      <3> QED
        BY <3>2 DEF FreeSlots
    <2>2. v = deactivate_tqueue(x, s)
      BY <1>3 DEF find_tqueue
    <2> HIDE DEF s
    <2>3. player \in User \cup Conn \cup {NOTHING}
      OBVIOUS
    <2>4. /\ x.queue = [w.queue EXCEPT ![s] = NewTQueue(player)] /\ x.active = w.active
          /\ x.idle = w.idle /\ x.waiting = w.waiting /\ x \in Worlds
      BY <1>0, <1>1, <2>1, <2>3, NewRow DEF Worlds
    <2> HIDE DEF x
    <2>5. v = [x EXCEPT !.queue[s].usage = NO_USAGE, !.idle = x.idle \cup {s}]
      BY <2>2 DEF deactivate_tqueue
    <2>6. [NewTQueue(player) EXCEPT !.usage = NO_USAGE] = NewTQueue(player)
      BY <2>3, NewRow DEF NewTQueue
    <2>7. x.queue[s] = NewTQueue(player) /\ x.queue \in [Queue -> TQueues]
      BY <1>1, <2>1, <2>3, <2>4, NewRow
    <2>8. [x.queue EXCEPT ![s].usage = NO_USAGE] = [w.queue EXCEPT ![s] = NewTQueue(player)]
      BY <1>1, <2>1, <2>4, <2>6, <2>7
    <2>9. /\ v.queue = [w.queue EXCEPT ![s] = NewTQueue(player)]
          /\ v.active = w.active /\ v.idle = w.idle \cup {s} /\ v.waiting = w.waiting
          /\ v \in Worlds
      <3>1. x = [queue |-> x.queue, active |-> x.active, idle |-> x.idle, waiting |-> x.waiting]
        BY <2>4, WorldFields
      <3>2. v = [queue |-> [x.queue EXCEPT ![s].usage = NO_USAGE], active |-> x.active,
                 idle |-> x.idle \cup {s}, waiting |-> x.waiting]
        BY <2>5, <3>1
      <3>3. [w.queue EXCEPT ![s] = NewTQueue(player)] \in [Queue -> TQueues]
        BY <2>4, <2>7
      <3>4. w.idle \cup {s} \in SUBSET Queue
        BY <1>1, <2>1
      <3>5. v = [queue |-> [w.queue EXCEPT ![s] = NewTQueue(player)], active |-> w.active,
                 idle |-> w.idle \cup {s}, waiting |-> w.waiting]
        BY <2>4, <2>8, <3>2
      <3> QED
        BY <1>1, <3>3, <3>4, <3>5 DEF Worlds
    <2>10. /\ \A r \in Queue \ {s} : v.queue[r] = w.queue[r]
           /\ v.queue[s] = NewTQueue(player)
      BY <1>1, <2>1, <2>9
    <2>11. Live(v) = Live(w) \cup {s}
      BY <2>9 DEF Live
    <2>12. v.queue[s].player = player
      BY <2>3, <2>10, NewRow
    <2>13. QueuesOf(v, player) = {s}
      BY <1>1, <1>3, <2>1, <2>10, <2>11, <2>12 DEF QueuesOf
    <2>14. q = s
      BY <2>13 DEF QueueOf
    <2>15. Kept(w, v)
      BY <2>9, <2>11 DEF Kept
    <2>16. ListsSound(v)
      <3>1. \A r \in Live(w) : r \in Queue \ {s} /\ v.queue[r] = w.queue[r]
        BY <1>1, <2>1, <2>10
      <3>2. v.queue[s].usage = NO_USAGE
        BY <2>3, <2>10, NewRow
      <3>3. ListsSound(w)
        BY DEF SoundBut
      <3>4. \A i \in DOMAIN w.active : w.active[i] \in Live(w)
        BY DEF Live, ToSet
      <3>5. \A r \in ToSet(w.active) : r \in Live(w)
        BY DEF Live
      <3>6. \A r \in w.idle : r \in Live(w)
        BY DEF Live
      <3> QED
        BY <2>1, <2>9, <3>1, <3>2, <3>3, <3>4, <3>5, <3>6 DEF ListsSound
    <2>17. OneQueue(v)
      <3>1. \A r \in Live(w) : r \in Queue \ {s} /\ v.queue[r] = w.queue[r] /\ w.queue[r].player # player
        BY <1>1, <1>3, <2>1, <2>10 DEF QueuesOf
      <3> QED
        BY <1>0, <2>11, <2>12, <3>1 DEF SoundBut, OneQueue
    <2>18. /\ \A r \in Live(v) : LiveRow(v.queue[r])
           /\ \A r \in v.idle \ but : IdleRow(v.queue[r], moving)
      <3>1. \A r \in Live(w) : r \in Queue \ {s}
        BY <1>1, <2>1
      <3>2. LiveRow(v.queue[s]) /\ IdleRow(v.queue[s], moving)
        BY <2>3, <2>10, NewRow
      <3>3. w.idle \subseteq Live(w)
        BY DEF Live
      <3> QED
        BY <2>9, <2>10, <2>11, <3>1, <3>2, <3>3 DEF SoundBut
    <2>19. SameWork(w, v)
      <3>1. \A r \in Live(w) : v.queue[r] = w.queue[r]
        BY <1>1, <2>1, <2>10
      <3>2. v.queue[s].bg = <<>> /\ v.queue[s].reading = NoVm /\ v.queue[s].num_bg = 0
        BY <2>3, <2>10, NewRow
      <3> QED
        BY <2>1, <2>9, <2>11, <3>1, <3>2 DEF SameWork, SameTasks
    <2> QED
      BY <2>1, <2>9, <2>10, <2>11, <2>12, <2>13, <2>14, <2>15, <2>16, <2>17, <2>18, <2>19
         DEF SoundBut, Found
  <1> QED
    BY <1>2, <1>3

-----------------------------------------------------------------------------
(* Input.                                                                  *)

LEMMA NoLines ==
  ASSUME NEW r, r.input = <<>>
  PROVE  TotalInputLength(r) = 0
  <1> DEFINE f == [i \in 0..0 |-> 0]
             F(g) == [i \in 0..0 |-> IF i = 0 THEN 0 ELSE g[i - 1] + r.input[i].len]
             sum[i \in 0..0] == IF i = 0 THEN 0 ELSE sum[i - 1] + r.input[i].len
  <1>1. f = F(f)
    OBVIOUS
  <1>2. \E g : g = F(g)
    BY <1>1
  <1>3. sum = CHOOSE g : g = F(g)
    BY DEF sum
  <1>4. sum = F(sum)
    <2> HIDE DEF sum, F
    <2> QED
      BY <1>2, <1>3
  <1>5. sum[0] = 0
    <2>1. F(sum)[0] = 0
      BY DEF F
    <2> HIDE DEF sum, F
    <2> QED
      BY <1>4, <2>1
  <1>6. Len(r.input) = 0
    OBVIOUS
  <1> QED
    BY <1>5, <1>6 DEF TotalInputLength

LEMMA LowatPositive == 0 < InputLowat
  BY HiwatAssumption DEF InputLowat

\* The index that is chosen, and what it means that there is none.
LEMMA IndexIs ==
  ASSUME NEW r \in TQueues, NEW how
  PROVE  /\ InputIndex(r, how) # 0 => InputIndex(r, how) \in 1..Len(r.input)
         /\ InputIndex(r, how) = 0 =>
              \/ r.no_oob /\ how = "DQ_OOB"
              \/ \A i \in 1..Len(r.input) :
                   how # "DQ_FIRST" /\ ~r.no_oob /\ (r.input[i].kind = "OOB") # (how = "DQ_OOB")
  <1> DEFINE I == {i \in 1..Len(r.input) :
                     \/ how = "DQ_FIRST"
                     \/ r.no_oob
                     \/ (r.input[i].kind = "OOB") = (how = "DQ_OOB")}
  <1>1. InputIndex(r, how) = IF r.no_oob /\ how = "DQ_OOB" THEN 0
                             ELSE IF I # {} THEN Min(I) ELSE 0
    BY DEF InputIndex, SelectInSeq
  <1>2. r.input \in Seq(Lines) /\ Len(r.input) \in Nat
    BY RowFields, LenProperties
  <1>3. I # {} => Min(I) \in I /\ Min(I) # 0
    <2>1. I \subseteq Nat /\ 0 \notin I
      BY <1>2
    <2> HIDE DEF I
    <2> QED
      BY <2>1, MinOfNumbers
  <1>4. I = {} => \A i \in 1..Len(r.input) :
          how # "DQ_FIRST" /\ ~r.no_oob /\ (r.input[i].kind = "OOB") # (how = "DQ_OOB")
    OBVIOUS
  <1>5. I \subseteq 1..Len(r.input)
    OBVIOUS
  <1> HIDE DEF I
  <1> QED
    BY <1>1, <1>3, <1>4, <1>5

\* A queue with one line less.
LEMMA Dequeue ==
  ASSUME NEW r \in TQueues, NEW i \in 1..Len(r.input), NEW s, s = dequeue_input_task(r, i)
  PROVE  /\ s \in TQueues
         /\ s.player = r.player /\ s.connected = r.connected /\ s.bg = r.bg
         /\ s.usage = r.usage /\ s.num_bg = r.num_bg /\ s.hold = r.hold
         /\ s.no_oob = r.no_oob /\ s.reading = r.reading
         /\ LiveRow(r) => LiveRow(s)
         /\ \A moving : IdleRow(r, moving) => IdleRow(s, moving)
  <1> DEFINE t == RemoveAt(r.input, i)
             x == [r EXCEPT !.input = t]
             b == r.susp /\ ~(r.connected /\ TotalInputLength(x) < InputLowat)
  <1>1. r.input \in Seq(Lines) /\ r.susp \in BOOLEAN /\ r.connected \in BOOLEAN
    BY RowFields
  <1>2. t \in Seq(Lines) /\ ToSet(t) \subseteq ToSet(r.input)
    BY <1>1, RemoveIs
  <1>3. s = [x EXCEPT !.susp = x.susp /\ ~(r.connected /\ TotalInputLength(x) < InputLowat)]
    BY DEF dequeue_input_task
  <1> HIDE DEF t
  <1>4. x \in TQueues /\ x.susp = r.susp /\ x.input = t
    BY <1>2 DEF TQueues
  <1>5. s = [r EXCEPT !.input = t, !.susp = b]
    BY <1>3, <1>4 DEF TQueues
  <1>6. t = <<>> /\ r.connected => b = FALSE
    <2>1. t = <<>> => TotalInputLength(x) = 0
      BY <1>4, NoLines
    <2> HIDE DEF x
    <2> QED
      BY <2>1, LowatPositive
  <1>7. b \in BOOLEAN /\ (b => r.susp)
    BY <1>1
  <1> HIDE DEF b, x
  <1>8. /\ s \in TQueues /\ s.input = t /\ s.susp = b
        /\ s.player = r.player /\ s.connected = r.connected /\ s.bg = r.bg
        /\ s.usage = r.usage /\ s.num_bg = r.num_bg /\ s.hold = r.hold
        /\ s.no_oob = r.no_oob /\ s.reading = r.reading
    BY <1>2, <1>5, <1>7 DEF TQueues
  <1>9. LiveRow(r) => LiveRow(s)
    BY <1>6, <1>7, <1>8 DEF LiveRow
  <1>10. r.input # <<>>
    BY <1>1
  <1>11. ASSUME NEW moving, IdleRow(r, moving) PROVE IdleRow(s, moving)
    BY <1>2, <1>8, <1>10, <1>11 DEF IdleRow, Quiet
  <1> QED
    BY <1>8, <1>9, <1>11

Enqueued(w, v, moving, q, on) ==
  /\ Sound(v, moving) /\ Kept(w, v) /\ SameWork(w, v) /\ Live(v) = Live(w)
  /\ v.queue[q].input # <<>> /\ v.queue[q].player = w.queue[q].player
  /\ v.queue[q].connected = on

\* A queue with one line more, connected or not: it is activated unless the
\* line has to wait.
LEMMA EnqueueOn ==
  ASSUME NEW w, NEW moving, Sound(w, moving), NEW q \in Live(w), NEW line \in Lines,
         NEW on \in BOOLEAN, on => w.queue[q].player # NOTHING,
         NEW o, o = [w.queue[q] EXCEPT !.connected = on],
         NEW front, NEW v, v = enqueue_input_task(SetRow(w, q, o), q, line, front)
  PROVE  Enqueued(w, v, moving, q, on)
  <1> DEFINE s == o
             t == IF front THEN <<line>> \o s.input ELSE Append(s.input, line)
             r == [s EXCEPT !.input = t]
             due == ~r.hold \/ r.reading # NoVm \/ (~r.no_oob /\ line.kind = "OOB")
             w1 == SetRow(w, q, r)
             w2 == IF due THEN ensure_usage(w1, q) ELSE w1
             b == w2.queue[q].susp \/ (r.connected /\ TotalInputLength(r) > InputHiwat)
  <1>0. w \in Worlds /\ SoundBut(w, moving, {}) /\ LiveRow(w.queue[q])
    BY DEF Sound, SoundBut
  <1>f. q \in Queue /\ w.queue \in [Queue -> TQueues] /\ w.queue[q] \in TQueues
    BY <1>0, ActiveList, WorldFields
  <1>g. /\ o \in TQueues /\ o.usage = w.queue[q].usage /\ o.player = w.queue[q].player
        /\ o.bg = w.queue[q].bg /\ o.reading = w.queue[q].reading /\ o.connected = on
        /\ o.input = w.queue[q].input /\ o.hold = w.queue[q].hold /\ o.no_oob = w.queue[q].no_oob
        /\ o.num_bg = w.queue[q].num_bg
    BY <1>f DEF TQueues
  <1>1. q \in Queue /\ s \in TQueues /\ s.input \in Seq(Lines)
    BY <1>f, <1>g, RowFields
  <1>2. v = [w2 EXCEPT !.queue[q].susp = b]
    <2>1. PICK w0 : w0 = SetRow(w, q, o)
      OBVIOUS
    <2>2. w0.queue[q] = o /\ \A x : [w0 EXCEPT !.queue[q] = x] = SetRow(w, q, x)
      BY <1>0, <1>f, <1>g, <2>1 DEF SetRow, Worlds
    <2> DEFINE r0 == [w0.queue[q] EXCEPT !.input = IF front THEN <<line>> \o w0.queue[q].input
                                                  ELSE Append(w0.queue[q].input, line)]
               due0 == ~r0.hold \/ r0.reading # NoVm \/ (~r0.no_oob /\ line.kind = "OOB")
               w10 == [w0 EXCEPT !.queue[q] = r0]
               w20 == IF due0 THEN ensure_usage(w10, q) ELSE w10
               b0 == w20.queue[q].susp \/ (r0.connected /\ TotalInputLength(r0) > InputHiwat)
    <2>3. v = [w20 EXCEPT !.queue[q].susp = b0]
      BY <2>1, ZenonT(60) DEF enqueue_input_task
    <2>4. r0 = r
      BY <2>2
    <2> HIDE DEF r0, r
    <2>5. w10 = w1
      BY <2>2, <2>4
    <2> HIDE DEF w10, w1
    <2>6. w20 = w2 /\ b0 = b
      BY <2>4, <2>5
    <2> HIDE DEF w20, w2, b0, b
    <2> QED
      BY <2>3, <2>6
  <1>3. t \in Seq(Lines) /\ t # <<>> /\ \A l \in ToSet(t) : l = line \/ l \in ToSet(s.input)
    <2>1. CASE front
      <3>1. <<line>> \in Seq(Lines) /\ Len(<<line>>) = 1 /\ <<line>>[1] = line
        OBVIOUS
      <3>2. /\ t \in Seq(Lines) /\ Len(t) = 1 + Len(s.input)
            /\ \A i \in 1..(1 + Len(s.input)) : t[i] = IF i <= 1 THEN <<line>>[i] ELSE s.input[i - 1]
        BY <1>1, <2>1, <3>1, ConcatProperties
      <3> HIDE DEF t
      <3>3. DOMAIN t = 1..(1 + Len(s.input)) /\ DOMAIN s.input = 1..Len(s.input) /\ Len(s.input) \in Nat
        BY <1>1, <3>2, LenProperties
      <3>4. \A i \in 1..(1 + Len(s.input)) : i <= 1 => i = 1
        BY <3>3
      <3>5. \A i \in 1..(1 + Len(s.input)) : ~(i <= 1) => i - 1 \in 1..Len(s.input)
        BY <3>3
      <3> QED
        <4>1. t # <<>>
          BY <3>2, <3>3
        <4>2. \A i \in DOMAIN t : t[i] = line \/ t[i] \in ToSet(s.input)
          BY <3>1, <3>2, <3>3, <3>4, <3>5 DEF ToSet
        <4> QED
          BY <3>2, <4>1, <4>2 DEF ToSet
    <2>2. CASE ~front
      <3>1. /\ t \in Seq(Lines) /\ t # <<>> /\ Len(t) = Len(s.input) + 1
            /\ \A i \in 1..Len(s.input) : t[i] = s.input[i]
            /\ t[Len(s.input) + 1] = line
        BY <1>1, <2>2, AppendProperties
      <3> HIDE DEF t
      <3>2. DOMAIN t = 1..(1 + Len(s.input)) /\ DOMAIN s.input = 1..Len(s.input) /\ Len(s.input) \in Nat
        BY <1>1, <3>1, LenProperties
      <3>3. \A i \in 1..(1 + Len(s.input)) : i = Len(s.input) + 1 \/ i \in 1..Len(s.input)
        BY <3>2
      <3> QED
        BY <3>1, <3>2, <3>3 DEF ToSet
    <2> QED
      BY <2>1, <2>2
  <1> HIDE DEF t
  <1>4. /\ r \in TQueues /\ r.input = t /\ r.usage = s.usage /\ r.player = s.player
        /\ r.bg = s.bg /\ r.reading = s.reading /\ r.hold = s.hold /\ r.no_oob = s.no_oob
        /\ r.connected = s.connected /\ r.num_bg = s.num_bg
    BY <1>1, <1>3 DEF TQueues
  <1> HIDE DEF r
  <1>5. LiveRow(r)
    BY <1>0, <1>3, <1>4, <1>g DEF LiveRow
  <1>6. ~due /\ IdleRow(w.queue[q], moving) => IdleRow(r, moving)
    <2> SUFFICES ASSUME ~due, IdleRow(w.queue[q], moving) PROVE IdleRow(r, moving)
      OBVIOUS
    <2>1. r.hold /\ r.reading = NoVm /\ (r.no_oob \/ line.kind # "OOB")
      BY <1>1, <1>4, RowFields
    <2>2. r.no_oob \/ \A l \in ToSet(t) : l.kind # "OOB"
      <3>1. Quiet(w.queue[q])
        BY DEF IdleRow
      <3>2. r.no_oob \/ \A l \in ToSet(s.input) : l.kind # "OOB"
        <4>1. w.queue[q].input = <<>> => ToSet(s.input) = {}
          BY <1>g DEF ToSet
        <4> QED
          BY <1>4, <1>g, <3>1, <4>1 DEF Quiet
      <3> QED
        BY <1>3, <2>1, <3>2
    <2> QED
      BY <1>4, <1>g, <2>1, <2>2 DEF IdleRow, Quiet
  <1>7. /\ w1.queue[q] = r /\ Live(w1) = Live(w) /\ Kept(w, w1) /\ SameWork(w, w1)
        /\ w1.idle = w.idle /\ SoundBut(w1, moving, {} \cup {q})
        /\ (q \in w.idle \ {} => IdleRow(r, moving)) => SoundBut(w1, moving, {})
    <2>1. w1 = SetRow(w, q, r)
      OBVIOUS
    <2> HIDE DEF w1
    <2>2. /\ SoundBut(w, moving, {}) /\ q \in Queue /\ r \in TQueues
          /\ r.usage = w.queue[q].usage /\ r.player = w.queue[q].player
          /\ r.bg = w.queue[q].bg /\ r.reading = w.queue[q].reading
          /\ r.num_bg = w.queue[q].num_bg /\ LiveRow(r)
      BY <1>0, <1>1, <1>4, <1>5, <1>g
    <2>3. RowSet(w, w1, moving, {}, q, r)
      BY ONLY <2>1, <2>2, RowChanged
    <2> QED
      BY <2>2, <2>3 DEF RowSet
  <1> HIDE DEF w1
  <1>8. /\ SoundBut(w2, moving, {}) /\ Kept(w, w2) /\ SameWork(w, w2) /\ Live(w2) = Live(w)
        /\ \E u \in -1..MaxUsage : w2.queue[q] = Charged(r, u)
    <2>1. CASE due
      <3>1. w2 = ensure_usage(w1, q)
        BY <2>1
      <3> HIDE DEF w2
      <3>2. /\ SoundBut(w2, moving, ({} \cup {q}) \ {q}) /\ Live(w2) = Live(w1) /\ Kept(w1, w2)
            /\ SameWork(w1, w2)
            /\ \E u \in -1..MaxUsage : w2.queue[q] = Charged(w1.queue[q], u)
        <4>1. q \in Live(w1) /\ SoundBut(w1, moving, {} \cup {q})
          BY <1>7
        <4>2. Ensured(w1, w2, moving, {} \cup {q}, q)
          BY ONLY <3>1, <4>1, EnsureSound
        <4> QED
          BY <4>2 DEF Ensured
      <3>3. ({} \cup {q}) \ {q} = {}
        OBVIOUS
      <3> QED
        BY <1>7, <3>2, <3>3, KeptThenKept
    <2>2. CASE ~due
      <3>1. w2 = w1
        BY <2>2
      <3>2. q \in w.idle => IdleRow(w.queue[q], moving)
        BY <1>0 DEF SoundBut
      <3>3. SoundBut(w1, moving, {})
        BY <1>6, <1>7, <2>2, <3>2
      <3>4. r = Charged(r, r.usage) /\ r.usage \in -1..MaxUsage
        BY <1>4 DEF TQueues, Charged
      <3> QED
        BY <1>7, <3>1, <3>3, <3>4
    <2> QED
      BY <2>1, <2>2
  <1> HIDE DEF w2, due
  <1>9. PICK u \in -1..MaxUsage : w2.queue[q] = Charged(r, u)
    BY <1>8
  <1> DEFINE x == w2.queue[q]
  <1>a. PICK y : y = [x EXCEPT !.susp = b]
    OBVIOUS
  <1>10. /\ x \in TQueues /\ x.input = t /\ x.connected = s.connected /\ x.player = s.player
         /\ x.susp \in BOOLEAN
    <2>1. w2.queue \in [Queue -> TQueues]
      BY <1>8, WorldFields DEF SoundBut
    <2> QED
      BY <1>1, <1>4, <1>9, <2>1 DEF Charged, TQueues
  <1>11. b \in BOOLEAN
    BY <1>10
  <1>12. v = SetRow(w2, q, y)
    BY <1>2, <1>a DEF SetRow
  <1> HIDE DEF x, b
  <1>13. /\ y \in TQueues /\ y.usage = x.usage /\ y.player = x.player /\ y.bg = x.bg
         /\ y.reading = x.reading /\ y.input = x.input /\ y.connected = x.connected
         /\ y.hold = x.hold /\ y.no_oob = x.no_oob /\ y.num_bg = x.num_bg
    BY <1>10, <1>11, <1>a DEF TQueues
  <1>14. LiveRow(x) /\ (q \in w2.idle => IdleRow(x, moving))
    BY <1>8 DEF SoundBut, x
  <1>15. LiveRow(y) /\ (q \in w2.idle \ {} => IdleRow(y, moving))
    BY <1>3, <1>10, <1>13, <1>14 DEF LiveRow, IdleRow, Quiet, is_out_of_input
  <1>16. /\ SoundBut(v, moving, {}) /\ Kept(w2, v) /\ SameWork(w2, v) /\ Live(v) = Live(w2)
         /\ v.queue[q] = y
    <2>1. /\ SoundBut(w2, moving, {}) /\ q \in Queue /\ y \in TQueues
          /\ y.usage = w2.queue[q].usage /\ y.player = w2.queue[q].player
          /\ y.bg = w2.queue[q].bg /\ y.reading = w2.queue[q].reading
          /\ y.num_bg = w2.queue[q].num_bg /\ LiveRow(y) /\ (q \in w2.idle \ {} => IdleRow(y, moving))
      BY <1>1, <1>8, <1>13, <1>15 DEF x
    <2>2. RowSet(w2, v, moving, {}, q, y)
      BY ONLY <1>12, <2>1, RowChanged
    <2> QED
      BY ONLY <2>1, <2>2 DEF RowSet
  <1> QED
    BY <1>3, <1>8, <1>10, <1>13, <1>16, <1>g, KeptThenKept DEF Sound, Enqueued

LEMMA Enqueue ==
  ASSUME NEW w, NEW moving, Sound(w, moving), NEW q \in Live(w), NEW line \in Lines,
         NEW front, NEW v, v = enqueue_input_task(w, q, line, front)
  PROVE  Enqueued(w, v, moving, q, w.queue[q].connected)
  <1>0. w \in Worlds /\ LiveRow(w.queue[q])
    BY DEF Sound, SoundBut
  <1>1. q \in Queue /\ w.queue \in [Queue -> TQueues] /\ w.queue[q] \in TQueues
    BY <1>0, ActiveList, WorldFields
  <1>2. PICK on : on = w.queue[q].connected
    OBVIOUS
  <1>3. on \in BOOLEAN /\ (on => w.queue[q].player # NOTHING)
    BY <1>0, <1>1, <1>2, RowFields DEF LiveRow
  <1>4. PICK o : o = [w.queue[q] EXCEPT !.connected = on]
    OBVIOUS
  <1>5. o = w.queue[q]
    BY <1>1, <1>2, <1>4 DEF TQueues
  <1>6. SetRow(w, q, o) = w
    BY <1>0, <1>1, <1>5 DEF SetRow, Worlds
  <1>7. v = enqueue_input_task(SetRow(w, q, o), q, line, front)
    BY <1>6
  <1> QED
    BY <1>2, <1>3, <1>4, <1>7, EnqueueOn

\* A queue without its lines.
LEMMA Flush ==
  ASSUME NEW w, NEW moving, NEW but, SoundBut(w, moving, but), NEW q \in Live(w),
         NEW v, v = flush_input(w, q)
  PROVE  /\ SoundBut(v, moving, but) /\ Kept(w, v) /\ SameWork(w, v) /\ Live(v) = Live(w)
         /\ v.active = w.active /\ v.idle = w.idle
         /\ \A p \in Queue \ {q} : v.queue[p] = w.queue[p]
         /\ \E b \in BOOLEAN : v.queue[q] = [w.queue[q] EXCEPT !.input = <<>>, !.susp = b]
  <1>0. w \in Worlds /\ LiveRow(w.queue[q]) /\ (q \in w.idle \ but => IdleRow(w.queue[q], moving))
    BY DEF SoundBut
  <1>1. q \in Queue /\ w.queue \in [Queue -> TQueues] /\ w.queue[q] \in TQueues
    BY <1>0, ActiveList, WorldFields
  <1>2. PICK s : s = w.queue[q]
    OBVIOUS
  <1>3. PICK b : b = (s.susp /\ ~(s.connected /\ s.input # <<>> /\ 0 < InputLowat))
    OBVIOUS
  <1>4. PICK r : r = [s EXCEPT !.input = <<>>, !.susp = b]
    OBVIOUS
  <1>5. v = SetRow(w, q, r)
    BY <1>1, <1>2, <1>3, <1>4 DEF flush_input, SetRow
  <1>6. b \in BOOLEAN /\ <<>> \in Seq(Lines)
    BY <1>3
  <1>7. /\ r \in TQueues /\ r.input = <<>> /\ r.susp = b /\ r.usage = s.usage
        /\ r.player = s.player /\ r.bg = s.bg /\ r.reading = s.reading
        /\ r.connected = s.connected /\ r.num_bg = s.num_bg
    BY <1>1, <1>2, <1>4, <1>6 DEF TQueues
  <1>8. LiveRow(r)
    BY <1>0, <1>2, <1>3, <1>7, LowatPositive DEF LiveRow
  <1>9. q \in w.idle \ but => IdleRow(r, moving)
    BY <1>0, <1>2, <1>7 DEF IdleRow, Quiet, is_out_of_input
  <1>10. RowSet(w, v, moving, but, q, r)
    <2>1. /\ SoundBut(w, moving, but) /\ q \in Queue /\ r \in TQueues
          /\ r.usage = w.queue[q].usage /\ r.player = w.queue[q].player /\ LiveRow(r)
      BY <1>1, <1>2, <1>7, <1>8
    <2> QED
      BY ONLY <1>5, <2>1, RowChanged
  <1>11. /\ r.bg = w.queue[q].bg /\ r.reading = w.queue[q].reading
         /\ r.num_bg = w.queue[q].num_bg
    BY <1>2, <1>7
  <1> QED
    BY <1>2, <1>4, <1>6, <1>9, <1>10, <1>11 DEF RowSet

\* A connection that is gone.
LEMMA FreeQueue ==
  ASSUME NEW w, NEW moving, NEW but, SoundBut(w, moving, but), NEW q \in Live(w),
         q \notin but \/ (q \in but /\ Quiet(w.queue[q]) /\ (~moving => w.queue[q].bg = <<>>)),
         NEW v, v = free_task_queue(w, q)
  PROVE  /\ SoundBut(v, moving, but \ {q}) /\ Kept(w, v) /\ SameWork(w, v)
         /\ Live(v) = Live(w)
  <1>0. /\ w \in Worlds /\ LiveRow(w.queue[q])
        /\ q \in w.idle => Quiet(w.queue[q]) /\ (~moving => w.queue[q].bg = <<>>)
    BY DEF SoundBut, IdleRow
  <1>1. q \in Queue /\ w.queue \in [Queue -> TQueues] /\ w.queue[q] \in TQueues
    BY <1>0, ActiveList, WorldFields
  <1>2. PICK s : s = w.queue[q]
    OBVIOUS
  <1>3. PICK r : r = [s EXCEPT !.connected = FALSE]
    OBVIOUS
  <1>4. PICK x : x = SetRow(w, q, r)
    OBVIOUS
  <1>5. x = [w EXCEPT !.queue[q].connected = FALSE] /\ x.queue[q] = r
    BY <1>1, <1>2, <1>3, <1>4, <1>0 DEF SetRow, Worlds
  <1>6. v = IF r.reading # NoVm THEN ensure_usage(x, q) ELSE x
    BY <1>5 DEF free_task_queue
  <1>7. /\ r \in TQueues /\ r.connected = FALSE /\ r.input = s.input /\ r.usage = s.usage
        /\ r.player = s.player /\ r.bg = s.bg /\ r.reading = s.reading
        /\ r.num_bg = s.num_bg /\ r.hold = s.hold /\ r.no_oob = s.no_oob
    BY <1>1, <1>2, <1>3 DEF TQueues
  <1>8. LiveRow(r)
    BY <1>0, <1>2, <1>7 DEF LiveRow
  <1>9. RowSet(w, x, moving, but, q, r)
    <2>1. /\ SoundBut(w, moving, but) /\ q \in Queue /\ r \in TQueues
          /\ r.usage = w.queue[q].usage /\ r.player = w.queue[q].player /\ LiveRow(r)
      BY <1>1, <1>2, <1>7, <1>8
    <2> QED
      BY ONLY <1>4, <2>1, RowChanged
  <1>10. /\ SoundBut(x, moving, but \cup {q}) /\ Kept(w, x) /\ SameWork(w, x)
         /\ Live(x) = Live(w) /\ x.idle = w.idle
    BY <1>2, <1>7, <1>9 DEF RowSet
  <1>11. CASE r.reading # NoVm
    <2>1. Ensured(x, v, moving, but \cup {q}, q)
      <3>1. v = ensure_usage(x, q) /\ q \in Live(x)
        BY <1>6, <1>10, <1>11
      <3> QED
        BY ONLY <1>10, <3>1, EnsureSound
    <2>2. (but \cup {q}) \ {q} = but \ {q}
      OBVIOUS
    <2> QED
      BY <1>10, <2>1, <2>2, KeptThenKept DEF Ensured
  <1>12. CASE r.reading = NoVm
    <2>1. v = x
      BY <1>6, <1>12
    <2>2. q \in w.idle => IdleRow(r, moving)
      BY <1>0, <1>2, <1>7, <1>12 DEF IdleRow, Quiet
    <2>3. SoundBut(x, moving, but \ {q})
      BY <1>5, <1>10, <2>2 DEF SoundBut
    <2> QED
      BY <1>10, <2>1, <2>3
  <1> QED
    BY <1>11, <1>12

-----------------------------------------------------------------------------
(* Background tasks.                                                       *)

\* The ready tasks of each queue and the id of its reader; nothing for a queue
\* that is not in use.
Bg(w) == [q \in Queue |-> IF q \in Live(w) THEN w.queue[q].bg ELSE <<>>]
Rd(w) == [q \in Queue |-> IF q \in Live(w) THEN w.queue[q].reading.id ELSE 0]
\* The player of each queue, and how many tasks it counts.
Pl(w) == [q \in Queue |-> IF q \in Live(w) THEN w.queue[q].player ELSE NOTHING]
Nb(w) == [q \in Queue |-> IF q \in Live(w) THEN w.queue[q].num_bg ELSE 0]

\* A queue keeps its player, unless it had none, nor tasks, and got one.
Opened(w, v) ==
  \A q \in Queue : \/ Pl(v)[q] = Pl(w)[q]
                   \/ Pl(w)[q] = NOTHING /\ Nb(w)[q] = 0 /\ Bg(w)[q] = <<>>

LEMMA SameTasksIs ==
  ASSUME NEW w, NEW v, w \in Worlds, v \in Worlds, Kept(w, v), SameTasks(w, v)
  PROVE  v.waiting = w.waiting /\ Bg(v) = Bg(w) /\ Rd(v) = Rd(w)
  <1>1. Live(w) \subseteq Queue /\ Live(v) \subseteq Queue /\ Live(w) \subseteq Live(v)
    BY ActiveList DEF Kept
  <1>2. NoVm.id = 0
    BY DEF NoVm
  <1>3. \A q \in Queue : Bg(v)[q] = Bg(w)[q] /\ Rd(v)[q] = Rd(w)[q]
    BY <1>1, <1>2 DEF SameTasks, Bg, Rd
  <1> QED
    BY <1>3 DEF SameTasks, Bg, Rd

LEMMA SameWorkIs ==
  ASSUME NEW w, NEW v, w \in Worlds, v \in Worlds, Kept(w, v), SameWork(w, v)
  PROVE  /\ v.waiting = w.waiting /\ Bg(v) = Bg(w) /\ Rd(v) = Rd(w)
         /\ Nb(v) = Nb(w) /\ Opened(w, v)
  <1>1. Live(w) \subseteq Queue /\ Live(v) \subseteq Queue /\ Live(w) \subseteq Live(v)
    BY ActiveList DEF Kept
  <1>2. v.waiting = w.waiting /\ Bg(v) = Bg(w) /\ Rd(v) = Rd(w)
    BY SameTasksIs DEF SameWork
  <1>3. \A q \in Queue : Nb(v)[q] = Nb(w)[q]
    BY <1>1 DEF SameWork, Nb
  <1>4. Nb(v) = Nb(w)
    BY <1>3 DEF Nb
  <1>5. Opened(w, v)
    BY <1>1 DEF SameWork, Opened, Pl, Nb, Bg
  <1> QED
    BY <1>2, <1>4, <1>5

LEMMA OpenedThen ==
  ASSUME NEW w, NEW x, NEW v, Opened(w, x), Opened(x, v), Nb(x) = Nb(w), Bg(x) = Bg(w)
  PROVE  Opened(w, v)
  BY DEF Opened

\* Task t has become the last of the ready tasks of queue q, its programmer's.
Readied(w, v, q, t) ==
  /\ q \in Queue
  /\ Bg(v) = [Bg(w) EXCEPT ![q] = Append(Bg(w)[q], t)]
  /\ Rd(v) = Rd(w) /\ Nb(v) = Nb(w) /\ Opened(w, v) /\ Pl(v)[q] = t.progr

Added(w, v, moving, but, q, t) ==
  /\ SoundBut(v, moving, but \cup {q})
  /\ q \notin w.idle => SoundBut(v, moving, but)
  /\ Kept(w, v) /\ Live(v) = Live(w) /\ v.waiting = w.waiting
  /\ Readied(w, v, q, t)

LEMMA AddReady ==
  ASSUME NEW w, NEW moving, NEW but, SoundBut(w, moving, but), NEW q \in Live(w),
         NEW t \in Tasks, w.queue[q].player = t.progr, t.progr \notin Conn,
         NEW v, v = enqueue_bg_task(w, q, t)
  PROVE  Added(w, v, moving, but, q, t)
  <1>0. w \in Worlds /\ LiveRow(w.queue[q])
    BY DEF SoundBut
  <1>1. q \in Queue /\ w.queue \in [Queue -> TQueues] /\ w.queue[q] \in TQueues
        /\ Live(w) \subseteq Queue /\ w.queue[q].bg \in Seq(Tasks)
    BY <1>0, ActiveList, WorldFields, RowFields
  <1>2. PICK s : s = w.queue[q]
    OBVIOUS
  <1>3. PICK r : r = [s EXCEPT !.bg = Append(s.bg, t)]
    OBVIOUS
  <1>4. v = SetRow(w, q, r)
    BY <1>1, <1>2, <1>3 DEF enqueue_bg_task, SetRow
  <1>5. Append(s.bg, t) \in Seq(Tasks)
    BY <1>1, <1>2, AppendProperties
  <1>6. /\ r \in TQueues /\ r.connected = s.connected /\ r.input = s.input /\ r.usage = s.usage
        /\ r.player = s.player /\ r.bg = Append(s.bg, t) /\ r.reading = s.reading
        /\ r.susp = s.susp /\ r.num_bg = s.num_bg
    BY <1>1, <1>2, <1>3, <1>5 DEF TQueues
  <1>7. LiveRow(r)
    BY <1>0, <1>2, <1>6 DEF LiveRow
  <1>8. RowSet(w, v, moving, but, q, r)
    <2>1. /\ SoundBut(w, moving, but) /\ q \in Queue /\ r \in TQueues
          /\ r.usage = w.queue[q].usage /\ r.player = w.queue[q].player /\ LiveRow(r)
      BY <1>1, <1>2, <1>6, <1>7
    <2> QED
      BY ONLY <1>4, <2>1, RowChanged
  <1>9. /\ SoundBut(v, moving, but \cup {q}) /\ (q \notin w.idle => SoundBut(v, moving, but))
        /\ Kept(w, v) /\ Live(v) = Live(w) /\ v.waiting = w.waiting
        /\ v.queue[q] = r /\ \A p \in Queue \ {q} : v.queue[p] = w.queue[p]
    BY <1>8 DEF RowSet
  <1>10. Rd(v) = Rd(w)
    BY <1>2, <1>6, <1>9 DEF Rd
  <1>11. Bg(v) = [Bg(w) EXCEPT ![q] = Append(Bg(w)[q], t)]
    BY <1>1, <1>2, <1>6, <1>9 DEF Bg
  <1>12. Nb(v) = Nb(w)
    BY <1>2, <1>6, <1>9 DEF Nb
  <1>13. Pl(v) = Pl(w) /\ Pl(v)[q] = t.progr
    BY <1>1, <1>2, <1>6, <1>9 DEF Pl
  <1>14. Opened(w, v)
    BY <1>13 DEF Opened
  <1> QED
    BY <1>1, <1>9, <1>10, <1>11, <1>12, <1>13, <1>14 DEF Readied, Added

LEMMA MoveOne ==
  ASSUME NEW w, NEW moving, Sound(w, moving), NEW t \in Tasks, CanFind(w, t.progr),
         NEW v, v = MakeReady(w, t)
  PROVE  /\ Sound(v, moving) /\ Kept(w, v) /\ v.waiting = w.waiting
         /\ \E q : /\ Readied(w, v, q, t) /\ Live(v) = Live(w) \cup {q}
                   /\ v.queue[q].player = t.progr
                   /\ \A r \in Live(w) : v.queue[r].player = w.queue[r].player
                   /\ QueuesOf(w, t.progr) # {} => q \in Live(w)
  <1>1. t.progr \in User /\ t.progr \in User \cup Conn /\ t.progr \notin Conn
        /\ SoundBut(w, moving, {})
    BY TaskAssumption DEF Tasks, Sound
  <1>2. PICK u : u = find_tqueue(w, t.progr)
    OBVIOUS
  <1>3. PICK q : q = QueueOf(u, t.progr)
    OBVIOUS
  <1>4. PICK x : x = ensure_usage(u, q)
    OBVIOUS
  <1>5. v = enqueue_bg_task(x, q, t)
    BY <1>2, <1>3, <1>4 DEF MakeReady
  <1>6. Found(w, u, moving, {}, t.progr, q)
    BY ONLY <1>1, <1>2, <1>3, CanFind(w, t.progr), FindQueue
  <1>7. /\ SoundBut(u, moving, {}) /\ Kept(w, u) /\ SameWork(w, u) /\ u.waiting = w.waiting
        /\ Live(u) = Live(w) \cup {q} /\ q \in Live(u) /\ q \in Queue
        /\ u.queue[q].player = t.progr /\ \A r \in Queue \ {q} : u.queue[r] = w.queue[r]
        /\ (q \in Live(w) => u = w)
    BY <1>6 DEF Found
  <1>8. Ensured(u, x, moving, {}, q)
    BY ONLY <1>4, <1>7, EnsureSound
  <1>9. {} \ {q} = {}
    OBVIOUS
  <1>10. /\ SoundBut(x, moving, {}) /\ Kept(u, x) /\ SameWork(u, x) /\ x.waiting = u.waiting
         /\ Live(x) = Live(u) /\ q \notin x.idle
         /\ \A r \in Queue \ {q} : x.queue[r] = u.queue[r]
         /\ \E n \in -1..MaxUsage : x.queue[q] = Charged(u.queue[q], n)
    BY <1>8, <1>9 DEF Ensured
  <1>11. u \in Worlds /\ w \in Worlds /\ x \in Worlds
    BY <1>1, <1>7, <1>10 DEF SoundBut
  <1>12. x.queue[q].player = t.progr
    <2>1. u.queue[q] \in TQueues
      BY <1>7, <1>11, WorldFields
    <2> QED
      BY <1>7, <1>10, <2>1 DEF Charged, TQueues
  <1>13. /\ SoundBut(v, moving, {}) /\ Kept(x, v) /\ Live(v) = Live(x) /\ v.waiting = x.waiting
         /\ Readied(x, v, q, t)
    <2>1. q \in Live(x) /\ x.queue[q].player = t.progr /\ q \notin x.idle /\ SoundBut(x, moving, {})
          /\ t \in Tasks /\ t.progr \notin Conn
      BY <1>1, <1>7, <1>10, <1>12
    <2>2. Added(x, v, moving, {}, q, t)
      BY ONLY <1>5, <2>1, AddReady
    <2> QED
      BY <2>1, <2>2 DEF Added
  <1>14. Kept(w, x) /\ SameWork(w, x) /\ Kept(w, v)
    BY <1>7, <1>10, <1>13, KeptThenKept
  <1>15. Bg(x) = Bg(w) /\ Rd(x) = Rd(w) /\ Nb(x) = Nb(w) /\ Opened(w, x)
    BY <1>11, <1>14, SameWorkIs
  <1>16. Readied(w, v, q, t)
    BY <1>13, <1>15, OpenedThen DEF Readied
  <1>17. \A r \in Queue : v.queue[r].player = x.queue[r].player
    <2>1. x.queue \in [Queue -> TQueues] /\ x.queue[q] \in TQueues
      BY <1>7, <1>11, WorldFields
    <2>2. v = [x EXCEPT !.queue[q].bg = Append(x.queue[q].bg, t)]
      BY <1>5 DEF enqueue_bg_task
    <2>3. v.queue = [x.queue EXCEPT ![q] = [x.queue[q] EXCEPT !.bg = Append(x.queue[q].bg, t)]]
      BY <1>11, <2>2 DEF Worlds
    <2> QED
      BY <1>7, <2>1, <2>3 DEF TQueues
  <1>18. v.queue[q].player = t.progr
    BY <1>7, <1>12, <1>17
  <1>19. \A r \in Live(w) : v.queue[r].player = w.queue[r].player
    <2>1. Live(w) \subseteq Queue
      BY <1>11, ActiveList
    <2>2. \A r \in Live(w) : r # q => v.queue[r].player = w.queue[r].player
      BY <1>7, <1>10, <1>17, <2>1
    <2> QED
      BY <1>7, <1>18, <2>2
  <1>20. QueuesOf(w, t.progr) # {} => q \in Live(w)
    <2>1. QueuesOf(w, t.progr) # {} => u = w
      BY <1>2 DEF find_tqueue
    <2> QED
      BY <1>7, <2>1
  <1> QED
    BY <1>7, <1>10, <1>13, <1>14, <1>16, <1>18, <1>19, <1>20 DEF Sound

\* A task that comes back from an external queue.
LEMMA ResumeTask ==
  ASSUME NEW w, NEW moving, Sound(w, moving), NEW vm \in Vms, CanFind(w, vm.progr),
         NEW v, v = resume_task(w, vm)
  PROVE  /\ Sound(v, moving) /\ Kept(w, v) /\ v.waiting = w.waiting
         /\ \E q : Readied(w, v, q, Task("SUSPENDED", vm.id, vm.progr, 0))
  <1> DEFINE t == Task("SUSPENDED", vm.id, vm.progr, 0)
  <1>1. /\ t \in Tasks /\ t.progr = vm.progr /\ vm.progr \in User \cup Conn /\ vm.progr \notin Conn
        /\ SoundBut(w, moving, {})
    BY TaskAssumption DEF Tasks, Sound, Task, Vms
  <1> HIDE DEF t
  <1>2. PICK u : u = find_tqueue(w, vm.progr)
    OBVIOUS
  <1>3. PICK q : q = QueueOf(u, vm.progr)
    OBVIOUS
  <1>4. PICK x : x = enqueue_bg_task(u, q, t)
    OBVIOUS
  <1>5. v = ensure_usage(x, q)
    BY <1>2, <1>3, <1>4 DEF resume_task, t
  <1>6. Found(w, u, moving, {}, vm.progr, q)
    BY ONLY <1>1, <1>2, <1>3, CanFind(w, vm.progr), FindQueue
  <1>7. /\ SoundBut(u, moving, {}) /\ Kept(w, u) /\ SameWork(w, u) /\ u.waiting = w.waiting
        /\ q \in Live(u) /\ u.queue[q].player = vm.progr
    BY <1>6 DEF Found
  <1>8. /\ SoundBut(x, moving, {} \cup {q}) /\ Kept(u, x) /\ Live(x) = Live(u)
        /\ x.waiting = u.waiting /\ Readied(u, x, q, t)
    <2>1. /\ q \in Live(u) /\ u.queue[q].player = t.progr /\ SoundBut(u, moving, {})
          /\ t \in Tasks /\ t.progr \notin Conn
      BY <1>1, <1>7
    <2>2. Added(u, x, moving, {}, q, t)
      BY ONLY <1>4, <2>1, AddReady
    <2> QED
      BY <2>1, <2>2 DEF Added
  <1>9. Ensured(x, v, moving, {} \cup {q}, q)
    <2>1. q \in Live(x)
      BY <1>7, <1>8
    <2> QED
      BY ONLY <1>5, <1>8, <2>1, EnsureSound
  <1>10. ({} \cup {q}) \ {q} = {}
    OBVIOUS
  <1>11. /\ SoundBut(v, moving, {}) /\ Kept(x, v) /\ SameWork(x, v) /\ v.waiting = x.waiting
         /\ Live(v) = Live(x)
    BY <1>9, <1>10 DEF Ensured
  <1>12. w \in Worlds /\ u \in Worlds /\ x \in Worlds /\ v \in Worlds
    BY <1>1, <1>7, <1>8, <1>11 DEF SoundBut
  <1>13. Bg(u) = Bg(w) /\ Rd(u) = Rd(w) /\ Nb(u) = Nb(w) /\ Opened(w, u)
    BY <1>7, <1>12, SameWorkIs
  <1>14. Bg(v) = Bg(x) /\ Rd(v) = Rd(x) /\ Nb(v) = Nb(x) /\ Pl(v) = Pl(x)
    <2>1. Pl(v) = Pl(x)
      BY <1>11 DEF SameWork, Pl
    <2> QED
      BY <1>11, <1>12, <2>1, SameWorkIs
  <1>15. Readied(w, v, q, t)
    <2>1. Readied(u, x, q, t) /\ Opened(w, x)
      BY <1>8, <1>13, OpenedThen DEF Readied
    <2>2. Opened(w, v)
      BY <1>14, <2>1 DEF Opened
    <2> QED
      BY <1>13, <1>14, <2>1, <2>2 DEF Readied
  <1>16. Kept(w, v)
    BY <1>7, <1>8, <1>11, KeptThenKept
  <1> QED
    BY <1>7, <1>8, <1>11, <1>15, <1>16 DEF Sound, t

\* A change of waiting_tasks.
WaitingSorted(s) == \A i, j \in DOMAIN s : i < j => s[i].start <= s[j].start

WaitingSet(w, v, moving, but, s) ==
  /\ SoundBut(v, moving, but) /\ Kept(w, v) /\ Live(v) = Live(w)
  /\ v.queue = w.queue /\ v.active = w.active /\ v.idle = w.idle /\ v.waiting = s
  /\ Bg(v) = Bg(w) /\ Rd(v) = Rd(w)
  /\ \A p : QueuesOf(v, p) = QueuesOf(w, p) /\ (CanFind(w, p) => CanFind(v, p))

LEMMA SetWaiting ==
  ASSUME NEW w, NEW moving, NEW but, SoundBut(w, moving, but),
         NEW s \in Seq(Tasks), WaitingSorted(s),
         NEW v, v = [w EXCEPT !.waiting = s]
  PROVE  WaitingSet(w, v, moving, but, s)
  <1>0. w \in Worlds
    BY DEF SoundBut
  <1>1. v.queue = w.queue /\ v.active = w.active /\ v.idle = w.idle /\ v.waiting = s /\ v \in Worlds
    BY <1>0 DEF Worlds
  <1>2. Live(v) = Live(w)
    BY <1>1 DEF Live
  <1>3. SoundBut(v, moving, but)
    BY <1>1, <1>2 DEF SoundBut, ListsSound, OneQueue, WaitingSorted
  <1>4. Bg(v) = Bg(w) /\ Rd(v) = Rd(w)
    BY <1>1, <1>2 DEF Bg, Rd
  <1>5. \A p : QueuesOf(v, p) = QueuesOf(w, p)
    BY <1>1, <1>2 DEF QueuesOf
  <1>6. FreeSlots(v) = FreeSlots(w)
    BY <1>2 DEF FreeSlots
  <1>7. Kept(w, v)
    BY <1>1, <1>2 DEF Kept
  <1> QED
    BY <1>1, <1>2, <1>3, <1>4, <1>5, <1>6, <1>7 DEF WaitingSet, CanFind

LEMMA WaitingList ==
  ASSUME NEW w, NEW moving, NEW but, SoundBut(w, moving, but)
  PROVE  /\ w.waiting \in Seq(Tasks) /\ Len(w.waiting) \in Nat
         /\ DOMAIN w.waiting = 1..Len(w.waiting)
         /\ \A i \in 1..Len(w.waiting) : w.waiting[i] \in Tasks /\ w.waiting[i].start \in Nat
         /\ WaitingSorted(w.waiting)
  <1>1. w \in Worlds /\ WaitingSorted(w.waiting)
    BY DEF SoundBut, ListsSound, WaitingSorted
  <1>2. w.waiting \in Seq(Tasks)
    BY <1>1, WorldFields
  <1>3. /\ Len(w.waiting) \in Nat /\ DOMAIN w.waiting = 1..Len(w.waiting)
        /\ \A i \in 1..Len(w.waiting) : w.waiting[i] \in Tasks
    BY <1>2, LenProperties, ElementOfSeq
  <1> QED
    BY <1>1, <1>2, <1>3 DEF Tasks

\* A task that waits no more.
LEMMA RemoveWaiting ==
  ASSUME NEW w, NEW moving, NEW but, SoundBut(w, moving, but), NEW i \in 1..Len(w.waiting),
         NEW v, v = [w EXCEPT !.waiting = RemoveAt(w.waiting, i)]
  PROVE  WaitingSet(w, v, moving, but, RemoveAt(w.waiting, i))
  <1>1. PICK a : a = w.waiting
    OBVIOUS
  <1>2. PICK s : s = RemoveAt(a, i)
    OBVIOUS
  <1>3. a \in Seq(Tasks) /\ Len(a) \in Nat /\ DOMAIN a = 1..Len(a) /\ i \in 1..Len(a)
        /\ WaitingSorted(a) /\ \A k \in 1..Len(a) : a[k].start \in Nat
    BY <1>1, WaitingList
  <1>4. /\ s \in Seq(Tasks) /\ Len(s) = Len(a) - 1
        /\ \A k \in 1..(Len(a) - 1) : s[k] = IF k < i THEN a[k] ELSE a[k + 1]
    BY <1>2, <1>3, RemoveIs
  <1>5. DOMAIN s = 1..(Len(a) - 1)
    BY <1>4, LenProperties
  <1>6. WaitingSorted(s)
    <2> SUFFICES ASSUME NEW j \in 1..(Len(a) - 1), NEW k \in 1..(Len(a) - 1), j < k
                 PROVE  s[j].start <= s[k].start
      BY <1>5 DEF WaitingSorted
    <2>1. \A m \in 1..(Len(a) - 1) : m \in 1..Len(a) /\ m + 1 \in 1..Len(a)
      BY <1>3
    <2>2. \A m, n \in 1..Len(a) : m < n => a[m].start <= a[n].start
      BY <1>3 DEF WaitingSorted
    <2>3. CASE k < i
      BY <1>3, <1>4, <2>1, <2>2, <2>3
    <2>4. CASE ~(k < i) /\ j < i
      <3>1. j < k + 1
        BY <1>3
      <3> QED
        BY <1>3, <1>4, <2>1, <2>2, <2>4, <3>1
    <2>5. CASE ~(k < i) /\ ~(j < i)
      <3>1. j + 1 < k + 1
        BY <1>3
      <3> QED
        BY <1>3, <1>4, <2>1, <2>2, <2>5, <3>1
    <2> QED
      BY <1>3, <2>3, <2>4, <2>5
  <1>7. v = [w EXCEPT !.waiting = s]
    BY <1>1, <1>2
  <1>8. WaitingSet(w, v, moving, but, s)
    BY ONLY SoundBut(w, moving, but), <1>4, <1>6, <1>7, SetWaiting
  <1> QED
    BY <1>1, <1>2, <1>8

\* A task that waits from now on.
LEMMA EnqueueWaiting ==
  ASSUME NEW w, NEW moving, Sound(w, moving), NEW t \in Tasks, CanFind(w, t.progr),
         NEW v, v = enqueue_waiting(w, t)
  PROVE  /\ Sound(v, moving) /\ Kept(w, v) /\ Bg(v) = Bg(w) /\ Rd(v) = Rd(w)
         /\ Placed(w.waiting, t, v.waiting)
         /\ \A q \in Live(w) : w.queue[q].reading # NoVm =>
              q \in Live(v) /\ v.queue[q].reading = w.queue[q].reading
         /\ Opened(w, v)
         /\ \E q \in Queue : /\ Pl(v)[q] = t.progr
                             /\ Nb(v) = [Nb(w) EXCEPT ![q] = Nb(w)[q] + 1]
  <1>1. t.progr \in User /\ t.progr \in User \cup Conn /\ t.progr \notin Conn
        /\ SoundBut(w, moving, {})
    BY TaskAssumption DEF Tasks, Sound
  <1>2. PICK u : u = find_tqueue(w, t.progr)
    OBVIOUS
  <1>3. PICK q : q = QueueOf(u, t.progr)
    OBVIOUS
  <1>4. Found(w, u, moving, {}, t.progr, q)
    BY ONLY <1>1, <1>2, <1>3, CanFind(w, t.progr), FindQueue
  <1>5. /\ SoundBut(u, moving, {}) /\ Kept(w, u) /\ SameWork(w, u) /\ u.waiting = w.waiting
        /\ q \in Live(u) /\ q \in Queue /\ u.queue[q].player = t.progr
    BY <1>4 DEF Found
  <1>6. PICK a : a = w.waiting
    OBVIOUS
  <1> DEFINE key == [x \in Tasks |-> x.start]
             I == {i \in 1..Len(a) : a[i].start > t.start}
             s == PutInOrder(a, key, t)
  <1>7. a \in Seq(Tasks) /\ Len(a) \in Nat /\ DOMAIN a = 1..Len(a) /\ WaitingSorted(a)
        /\ \A i \in 1..Len(a) : a[i] \in Tasks
    BY <1>1, <1>6, WaitingList
  <1>8. key \in [Tasks -> Int] /\ \A x \in Tasks : key[x] = x.start
    BY DEF Tasks
  <1>9. LaterThan(a, key, t) = I
    BY <1>7, <1>8 DEF LaterThan
  <1>10. I # {} => Min(I) # 0
    <2>1. I \subseteq Nat /\ 0 \notin I
      BY <1>7
    <2> HIDE DEF I
    <2> QED
      BY <2>1, MinOfNumbers
  <1>11. v = [u EXCEPT !.queue[q].num_bg = u.queue[q].num_bg + 1,
                       !.waiting = IF (IF I # {} THEN Min(I) ELSE 0) = 0 THEN Append(u.waiting, t)
                                   ELSE InsertAt(u.waiting, IF I # {} THEN Min(I) ELSE 0, t)]
    BY <1>2, <1>3, <1>6 DEF enqueue_waiting, SelectInSeq
  <1> HIDE DEF I, key
  <1>12. s = IF (IF I # {} THEN Min(I) ELSE 0) = 0 THEN Append(a, t)
             ELSE InsertAt(a, IF I # {} THEN Min(I) ELSE 0, t)
    BY <1>9, <1>10 DEF PutInOrder
  <1>13. InOrder(a, key)
    BY <1>7, <1>8 DEF InOrder, WaitingSorted
  <1>14. Placed(a, t, s) /\ InOrder(s, key)
    BY <1>7, <1>8, <1>13, PutKeepsOrder
  <1> HIDE DEF s
  <1>15. s \in Seq(Tasks)
    BY <1>7, <1>14, PlacedIs
  <1>16. WaitingSorted(s)
    BY <1>8, <1>14, <1>15, ElementOfSeq, LenProperties DEF InOrder, WaitingSorted
  <1>17. PICK r : r = [u.queue[q] EXCEPT !.num_bg = u.queue[q].num_bg + 1]
    OBVIOUS
  <1>18. PICK x : x = SetRow(u, q, r)
    OBVIOUS
  <1>19. v = [x EXCEPT !.waiting = s]
    BY <1>5, <1>6, <1>11, <1>12, <1>17, <1>18 DEF SetRow
  <1>20. u.queue[q] \in TQueues /\ u.queue[q].num_bg \in Int /\ LiveRow(u.queue[q])
         /\ (q \in u.idle => IdleRow(u.queue[q], moving))
    BY <1>5, WorldFields, RowFields DEF SoundBut
  <1>21. /\ r \in TQueues /\ r.connected = u.queue[q].connected /\ r.input = u.queue[q].input
         /\ r.usage = u.queue[q].usage /\ r.player = u.queue[q].player /\ r.bg = u.queue[q].bg
         /\ r.reading = u.queue[q].reading /\ r.susp = u.queue[q].susp
         /\ r.hold = u.queue[q].hold /\ r.no_oob = u.queue[q].no_oob
    BY <1>17, <1>20 DEF TQueues
  <1>22. LiveRow(r) /\ (q \in u.idle \ {} => IdleRow(r, moving))
    BY <1>1, <1>5, <1>20, <1>21 DEF LiveRow, IdleRow, Quiet, is_out_of_input
  <1>23. RowSet(u, x, moving, {}, q, r)
    BY ONLY <1>5, <1>18, <1>21, <1>22, RowChanged
  <1>24. SoundBut(x, moving, {}) /\ Kept(u, x) /\ SameTasks(u, x) /\ Live(x) = Live(u)
    BY <1>21, <1>22, <1>23 DEF RowSet
  <1>25. WaitingSet(x, v, moving, {}, s)
    BY ONLY <1>15, <1>16, <1>19, <1>24, SetWaiting
  <1>26. /\ SoundBut(v, moving, {}) /\ Kept(x, v) /\ v.waiting = s /\ Bg(v) = Bg(x) /\ Rd(v) = Rd(x)
         /\ v.queue = x.queue /\ Live(v) = Live(x)
    BY <1>25 DEF WaitingSet
  <1>27. Kept(w, x) /\ SameTasks(w, x) /\ Kept(w, v)
    BY <1>5, <1>24, <1>26, KeptThenKept DEF SameWork
  <1>28. Bg(x) = Bg(w) /\ Rd(x) = Rd(w)
    BY <1>1, <1>24, <1>27, SameTasksIs DEF SoundBut
  <1>29. \A p \in Live(w) : w.queue[p].reading # NoVm =>
            p \in Live(v) /\ v.queue[p].reading = w.queue[p].reading
    BY <1>26, <1>27 DEF SameTasks, Kept
  <1>30. /\ \A p \in Queue \ {q} : v.queue[p] = u.queue[p]
         /\ v.queue[q] = r /\ Live(v) = Live(u) /\ r.num_bg = u.queue[q].num_bg + 1
    <2>1. r.num_bg = u.queue[q].num_bg + 1
      BY <1>17, <1>20 DEF TQueues
    <2> QED
      BY <1>23, <1>26, <2>1 DEF RowSet
  <1>31. Nb(u) = Nb(w) /\ Opened(w, u) /\ Bg(u) = Bg(w)
    BY <1>1, <1>5, SameWorkIs DEF SoundBut
  <1>32. Pl(v) = Pl(u) /\ Pl(v)[q] = t.progr
    BY <1>5, <1>21, <1>30 DEF Pl
  <1>33. Nb(v) = [Nb(u) EXCEPT ![q] = Nb(u)[q] + 1]
    BY <1>5, <1>30 DEF Nb
  <1>34. Opened(w, v)
    BY <1>31, <1>32 DEF Opened
  <1>35. \E p \in Queue : /\ Pl(v)[p] = t.progr
                          /\ Nb(v) = [Nb(w) EXCEPT ![p] = Nb(w)[p] + 1]
    BY <1>5, <1>31, <1>32, <1>33
  <1> QED
    BY <1>6, <1>14, <1>26, <1>27, <1>28, <1>29, <1>34, <1>35 DEF Sound

-----------------------------------------------------------------------------
(* The end of run_ready_tasks.                                             *)

\* What is left when empty queues have been freed: every task that waits or
\* reads; of the ready tasks a queue keeps all, or is freed.
Freed(w, v, moving) ==
  /\ Sound(v, moving) /\ v.waiting = w.waiting /\ Rd(v) = Rd(w)
  /\ \A q \in Queue : Bg(v)[q] = Bg(w)[q] \/ Bg(v)[q] = <<>>
  /\ \A q \in Live(w) : w.queue[q].reading # NoVm => q \in Live(v)
  /\ \A q \in Queue : \/ Pl(v)[q] = Pl(w)[q] /\ Nb(v)[q] = Nb(w)[q] /\ Bg(v)[q] = Bg(w)[q]
                      \/ Pl(v)[q] = NOTHING /\ Nb(w)[q] = 0

LEMMA FreeEmptySound ==
  ASSUME NEW w, NEW moving, Sound(w, moving), NEW v, v = FreeEmpty(w)
  PROVE  Freed(w, v, moving)
  <1> DEFINE D == {q \in w.idle : /\ ~w.queue[q].connected
                                 /\ w.queue[q].input = <<>>
                                 /\ w.queue[q].num_bg = 0}
             f == [q \in Queue |-> IF q \in D THEN NewTQueue(NOTHING) ELSE w.queue[q]]
  <1>0. w \in Worlds /\ SoundBut(w, moving, {}) /\ ListsSound(w) /\ OneQueue(w)
    BY DEF Sound, SoundBut
  <1>1. /\ w.queue \in [Queue -> TQueues] /\ w.active \in Seq(Queue)
        /\ w.idle \subseteq Queue /\ w.waiting \in Seq(Tasks) /\ Live(w) \subseteq Queue
        /\ ToSet(w.active) \subseteq Queue /\ \A i \in DOMAIN w.active : w.active[i] \in Queue
    BY <1>0, WorldFields, ActiveList
  <1>2. v = [w EXCEPT !.idle = w.idle \ D, !.queue = f]
    BY DEF FreeEmpty
  <1>3. D \subseteq w.idle /\ D \cap ToSet(w.active) = {}
    BY <1>0 DEF ListsSound
  <1>4. \A q \in D : w.queue[q].reading = NoVm /\ w.queue[q].num_bg = 0
    BY <1>0 DEF SoundBut, IdleRow, is_out_of_input
  <1>5. f \in [Queue -> TQueues]
    <2>1. NewTQueue(NOTHING) \in TQueues
      BY NewRow
    <2> HIDE DEF D
    <2> QED
      BY <1>1, <2>1
  <1>6. \A q \in Queue : q \notin D => f[q] = w.queue[q]
    OBVIOUS
  <1> HIDE DEF D, f
  <1>7. /\ v.queue = f /\ v.idle = w.idle \ D /\ v.active = w.active /\ v.waiting = w.waiting
        /\ v \in Worlds
    BY <1>0, <1>1, <1>2, <1>3, <1>5 DEF Worlds
  <1>8. Live(v) = Live(w) \ D
    BY <1>3, <1>7 DEF Live
  <1>9. \A q \in Live(v) : q \in Live(w) /\ v.queue[q] = w.queue[q]
    BY <1>1, <1>6, <1>7, <1>8
  <1>10. ListsSound(v)
    <2>1. \A q \in ToSet(w.active) : q \in Queue /\ q \notin D /\ v.queue[q] = w.queue[q]
      BY <1>1, <1>3, <1>6, <1>7
    <2>2. \A i \in DOMAIN w.active : w.active[i] \in ToSet(w.active)
      BY DEF ToSet
    <2>3. \A q \in v.idle : q \in w.idle /\ v.queue[q] = w.queue[q]
      BY <1>1, <1>6, <1>7
    <2> QED
      BY <1>0, <1>7, <2>1, <2>2, <2>3 DEF ListsSound
  <1>11. OneQueue(v)
    BY <1>0, <1>9 DEF OneQueue
  <1>12. Sound(v, moving)
    <2>1. \A q \in v.idle : q \in w.idle /\ q \in Live(v)
      BY <1>7 DEF Live
    <2> QED
      BY <1>0, <1>7, <1>9, <1>10, <1>11, <2>1 DEF Sound, SoundBut
  <1>13. Rd(v) = Rd(w)
    <2>1. NoVm.id = 0
      BY DEF NoVm
    <2>2. \A q \in Queue : Rd(v)[q] = Rd(w)[q]
      BY <1>4, <1>8, <1>9, <2>1 DEF Rd
    <2> QED
      BY <2>2 DEF Rd
  <1>14. \A q \in Queue : Bg(v)[q] = Bg(w)[q] \/ Bg(v)[q] = <<>>
    BY <1>9 DEF Bg
  <1>15. \A q \in Queue : \/ Pl(v)[q] = Pl(w)[q] /\ Nb(v)[q] = Nb(w)[q] /\ Bg(v)[q] = Bg(w)[q]
                          \/ Pl(v)[q] = NOTHING /\ Nb(w)[q] = 0
    BY <1>4, <1>8, <1>9 DEF Pl, Nb, Bg
  <1> QED
    BY <1>4, <1>7, <1>8, <1>12, <1>13, <1>14, <1>15 DEF Freed

\* A queue that was served goes back into the list, behind those that used no
\* more time.
LEMMA DidOneSound ==
  ASSUME NEW w, NEW moving, Sound(w, moving), w.active # <<>>,
         NEW q, q = w.active[1], NEW d \in Nat, w.queue[q].usage + d <= MaxUsage,
         NEW v, v = DidOne(w, q, d)
  PROVE  Freed(w, v, moving)
  <1>0. w \in Worlds /\ SoundBut(w, moving, {}) /\ ListsSound(w) /\ OneQueue(w)
    BY DEF Sound, SoundBut
  <1>1. /\ w.queue \in [Queue -> TQueues] /\ w.active \in Seq(Queue)
        /\ w.idle \subseteq Queue /\ w.waiting \in Seq(Tasks) /\ Live(w) \subseteq Queue
        /\ ToSet(w.active) \subseteq Queue /\ \A i \in DOMAIN w.active : w.active[i] \in Queue
        /\ Len(w.active) \in Nat /\ DOMAIN w.active = 1..Len(w.active)
        /\ q \in ToSet(w.active) /\ q \in Queue /\ w.queue[q] \in TQueues
        /\ 1 \in DOMAIN w.active
    <2>1. Len(w.active) # 0
      BY <1>0, WorldFields, EmptySeq
    <2>2. 1 \in DOMAIN w.active
      BY <1>0, <2>1, ActiveList
    <2> QED
      BY <1>0, <2>2, WorldFields, ActiveList
  <1>2. w.queue[q].usage \in 0..MaxUsage /\ w.queue[q].usage + d \in -1..MaxUsage
        /\ w.queue[q].usage + d >= 0
    <2>1. w.queue[q].usage >= 0 /\ w.queue[q].usage \in -1..MaxUsage
      BY <1>0, <1>1, RowFields DEF ListsSound
    <2> QED
      BY <2>1, TaskAssumption, SMTT(30)
  <1> DEFINE I == {i \in 1..Len(w.active) : w.active[i] = q}
  <1>3. (IF I # {} THEN Min(I) ELSE 0) = 1
    <2>1. 1 \in I /\ I \subseteq Nat /\ 0 \notin I
      BY <1>1
    <2> HIDE DEF I
    <2>2. Min(I) \in I /\ Min(I) <= 1 /\ I # {}
      BY <2>1, MinOfNumbers
    <2>3. Min(I) \in Nat /\ Min(I) # 0
      BY ONLY <2>1, <2>2
    <2>4. Min(I) = 1
      BY ONLY <2>2, <2>3
    <2> QED
      BY ONLY <2>2, <2>4
  <1>4. PICK t : t = SubSeq(w.active, 2, Len(w.active))
    OBVIOUS
  <1>5. PICK r : r = [w.queue[q] EXCEPT !.usage = w.queue[q].usage + d]
    OBVIOUS
  <1>6. PICK x : x = [w EXCEPT !.active = t, !.queue[q] = r]
    OBVIOUS
  <1>7. v = FreeEmpty(activate_tqueue(x, q))
    <2>1. v = FreeEmpty(activate_tqueue(
                [w EXCEPT !.active = SubSeq(w.active, (IF I # {} THEN Min(I) ELSE 0) + 1, Len(w.active)),
                          !.queue[q].usage = w.queue[q].usage + d], q))
      BY DEF DidOne, SelectInSeq
    <2>2. 1 + 1 = 2
      OBVIOUS
    <2>3. SubSeq(w.active, (IF I # {} THEN Min(I) ELSE 0) + 1, Len(w.active)) = t
      BY <1>3, <1>4, <2>2
    <2> HIDE DEF I
    <2> QED
      BY <1>5, <1>6, <2>1, <2>3
  <1> HIDE DEF I
  <1>8. t \in Seq(Queue) /\ DOMAIN t = 1..(Len(w.active) - 1)
        /\ \A i \in 1..(Len(w.active) - 1) : t[i] = w.active[i + 1] /\ i + 1 \in 1..Len(w.active)
    <2>1. Len(w.active) >= 1
      BY <1>1
    <2>2. t = Tail(w.active)
      BY <1>1, <1>4, TailIsSubSeq
    <2>3. t \in Seq(Queue) /\ Len(t) = Len(w.active) - 1
          /\ \A i \in 1..Len(t) : t[i] = w.active[i + 1]
      BY <1>1, <2>2, HeadTailProperties
    <2> QED
      BY <1>1, <2>1, <2>3, LenProperties
  <1>9. r \in TQueues /\ r.usage = w.queue[q].usage + d /\ r.player = w.queue[q].player
        /\ r.bg = w.queue[q].bg /\ r.reading = w.queue[q].reading
        /\ r.susp = w.queue[q].susp /\ r.connected = w.queue[q].connected
        /\ r.input = w.queue[q].input /\ r.num_bg = w.queue[q].num_bg
    BY <1>1, <1>2, <1>5 DEF TQueues
  <1>10. /\ x.queue = [w.queue EXCEPT ![q] = r] /\ x.active = t /\ x.idle = w.idle
         /\ x.waiting = w.waiting /\ x \in Worlds
    BY <1>0, <1>1, <1>6, <1>8, <1>9 DEF Worlds
  <1>11. x.queue[q] = r /\ \A p \in Queue \ {q} : x.queue[p] = w.queue[p]
    BY <1>1, <1>10
  <1>12. ASSUME NEW i \in DOMAIN t PROVE t[i] # q /\ t[i] \in Queue
    <2>1. i \in 1..(Len(w.active) - 1) /\ i + 1 \in 1..Len(w.active) /\ t[i] = w.active[i + 1]
      BY <1>8
    <2>2. 1 < i + 1
      BY ONLY <2>1, <1>1
    <2>3. w.active[1] # w.active[i + 1]
      BY <1>0, <1>1, <2>1, <2>2 DEF ListsSound
    <2> QED
      BY <1>1, <2>1, <2>3
  <1>13. q \notin ToSet(x.active)
    BY <1>10, <1>12 DEF ToSet
  <1>14. ActiveSorted(x)
    <2> SUFFICES ASSUME NEW i \in 1..(Len(w.active) - 1), NEW j \in 1..(Len(w.active) - 1), i < j
                 PROVE  t[i] # t[j] /\ x.queue[t[i]].usage <= x.queue[t[j]].usage
      BY <1>8, <1>10 DEF ActiveSorted
    <2>1. i + 1 < j + 1
      BY <1>1
    <2>2. i + 1 \in DOMAIN w.active /\ j + 1 \in DOMAIN w.active
          /\ t[i] = w.active[i + 1] /\ t[j] = w.active[j + 1]
          /\ t[i] \in Queue \ {q} /\ t[j] \in Queue \ {q}
      BY <1>1, <1>8, <1>12
    <2>3. /\ w.active[i + 1] # w.active[j + 1]
          /\ w.queue[w.active[i + 1]].usage <= w.queue[w.active[j + 1]].usage
      BY <1>0, <2>1, <2>2 DEF ListsSound
    <2> QED
      BY <1>11, <2>2, <2>3
  <1>15. PICK y : y = activate_tqueue(x, q)
    OBVIOUS
  <1>16. /\ y \in Worlds /\ y.queue = x.queue /\ y.idle = x.idle /\ y.waiting = x.waiting
         /\ ToSet(y.active) = ToSet(x.active) \cup {q} /\ ActiveSorted(y)
    <2>1. x \in Worlds /\ q \in Queue
      BY <1>1, <1>10
    <2> QED
      BY ONLY <2>1, <1>13, <1>14, <1>15, Activate
  <1>17. ToSet(y.active) = ToSet(w.active)
    <2>1. ToSet(t) \subseteq ToSet(w.active)
      BY <1>1, <1>8 DEF ToSet
    <2>2. ASSUME NEW i \in 1..Len(w.active) PROVE w.active[i] \in ToSet(t) \cup {q}
      <3>1. CASE i = 1
        BY <3>1
      <3>2. CASE i # 1
        <4>1. i - 1 \in 1..(Len(w.active) - 1) /\ (i - 1) + 1 = i
          BY <1>1, <3>2
        <4> QED
          BY <1>8, <4>1 DEF ToSet
      <3> QED
        BY <3>1, <3>2
    <2>3. ToSet(w.active) = ToSet(t) \cup {q}
      <3>1. ToSet(w.active) \subseteq ToSet(t) \cup {q}
        BY <1>1, <2>2 DEF ToSet
      <3> QED
        BY <1>1, <2>1, <3>1
    <2> QED
      BY <1>10, <1>16, <2>3
  <1>18. Live(y) = Live(w)
    BY <1>10, <1>16, <1>17 DEF Live
  <1>19. /\ y.queue[q] = r /\ \A p \in Queue \ {q} : y.queue[p] = w.queue[p]
    BY <1>11, <1>16
  <1>20. \A p \in Queue : /\ y.queue[p].player = w.queue[p].player /\ y.queue[p].bg = w.queue[p].bg
                          /\ y.queue[p].reading = w.queue[p].reading
                          /\ y.queue[p].num_bg = w.queue[p].num_bg
    BY <1>9, <1>19
  <1>21. q \notin w.idle
    BY <1>0, <1>1 DEF ListsSound
  <1>22. ListsSound(y)
    <2>1. \A p \in ToSet(w.active) : y.queue[p].usage >= 0
      BY <1>0, <1>1, <1>2, <1>9, <1>19 DEF ListsSound
    <2> QED
      BY <1>0, <1>1, <1>10, <1>16, <1>17, <1>19, <1>21, <2>1 DEF ListsSound, ActiveSorted
  <1>23. OneQueue(y)
    BY <1>0, <1>1, <1>18, <1>20 DEF OneQueue
  <1>24. \A p \in Live(y) : LiveRow(y.queue[p])
    <2>1. LiveRow(r)
      <3>1. LiveRow(w.queue[q])
        BY <1>0, <1>1 DEF SoundBut, Live
      <3> QED
        BY <1>9, <3>1 DEF LiveRow
    <2> QED
      BY <1>0, <1>1, <1>18, <1>19, <2>1 DEF SoundBut
  <1>25. \A p \in y.idle \ {} : IdleRow(y.queue[p], moving)
    BY <1>0, <1>1, <1>10, <1>16, <1>19, <1>21 DEF SoundBut
  <1>26. Sound(y, moving)
    BY <1>16, <1>22, <1>23, <1>24, <1>25 DEF Sound, SoundBut
  <1>27. Freed(y, v, moving)
    BY ONLY <1>7, <1>15, <1>26, FreeEmptySound
  <1>28. Bg(y) = Bg(w) /\ Rd(y) = Rd(w) /\ Pl(y) = Pl(w) /\ Nb(y) = Nb(w)
    BY <1>18, <1>20 DEF Bg, Rd, Pl, Nb
  <1> QED
    BY <1>1, <1>10, <1>16, <1>18, <1>20, <1>27, <1>28 DEF Freed

-----------------------------------------------------------------------------
(* A connection that takes a player over.                                  *)

\* The fields that say how a queue stands with its connection.
SameConn(r, s) ==
  /\ r.connected = s.connected /\ r.input = s.input /\ r.susp = s.susp
  /\ r.usage = s.usage /\ r.hold = s.hold /\ r.no_oob = s.no_oob
  /\ r.reading = s.reading

Moved(w, v, from, to) ==
  /\ v \in Worlds /\ v.active = w.active /\ v.idle = w.idle /\ v.waiting = w.waiting
  /\ \A p \in Queue \ {from, to} : v.queue[p] = w.queue[p]
  /\ SameConn(v.queue[to], w.queue[to]) /\ v.queue[to].player = w.queue[to].player
  /\ v.queue[to].bg = w.queue[to].bg \o w.queue[from].bg
  /\ v.queue[to].num_bg = w.queue[from].num_bg
  /\ SameConn(v.queue[from], w.queue[from]) /\ v.queue[from].player = w.queue[from].player
  /\ v.queue[from].bg = <<>> /\ v.queue[from].num_bg = 0

LEMMA MoveTasksIs ==
  ASSUME NEW w \in Worlds, NEW from \in Queue, NEW to \in Queue, from # to,
         NEW v, v = MoveTasks(w, from, to)
  PROVE  Moved(w, v, from, to)
  <1>1. /\ w.queue \in [Queue -> TQueues] /\ w.queue[to] \in TQueues /\ w.queue[from] \in TQueues
        /\ w.active \in Seq(Queue) /\ w.idle \subseteq Queue /\ w.waiting \in Seq(Tasks)
    BY WorldFields
  <1>2. PICK b : b = w.queue[to].bg \o w.queue[from].bg
    OBVIOUS
  <1>3. b \in Seq(Tasks) /\ w.queue[from].num_bg \in Int
    <2>1. w.queue[to].bg \in Seq(Tasks) /\ w.queue[from].bg \in Seq(Tasks)
      BY <1>1, RowFields
    <2> QED
      BY <1>1, <1>2, <2>1, RowFields, ConcatProperties
  <1>4. PICK r : r = [w.queue[to] EXCEPT !.num_bg = w.queue[from].num_bg, !.bg = b]
    OBVIOUS
  <1>e. PICK e : e = <<>>
    OBVIOUS
  <1>f. e \in Seq(Tasks)
    BY <1>e
  <1>z. PICK z : z = 0
    OBVIOUS
  <1>g. z \in Int
    BY <1>z
  <1>5. PICK s : s = [w.queue[from] EXCEPT !.bg = e, !.num_bg = z]
    OBVIOUS
  <1>6. PICK f : f = [w.queue EXCEPT ![to] = r, ![from] = s]
    OBVIOUS
  <1>7. v = [w EXCEPT !.queue = f]
    BY <1>1, <1>2, <1>4, <1>e, <1>z, <1>5, <1>6, ZenonT(60) DEF MoveTasks
  <1>8. /\ r \in TQueues /\ SameConn(r, w.queue[to]) /\ r.player = w.queue[to].player
        /\ r.bg = b /\ r.num_bg = w.queue[from].num_bg
    BY <1>1, <1>3, <1>4 DEF TQueues, SameConn
  <1>9. s \in TQueues /\ SameConn(s, w.queue[from]) /\ s.player = w.queue[from].player
        /\ s.bg = e /\ s.num_bg = z
    BY <1>1, <1>f, <1>g, <1>5 DEF TQueues, SameConn
  <1>10. f \in [Queue -> TQueues] /\ f[to] = r /\ f[from] = s
         /\ \A p \in Queue \ {from, to} : f[p] = w.queue[p]
    BY <1>1, <1>6, <1>8, <1>9
  <1>11. v \in Worlds /\ v.queue = f /\ v.active = w.active /\ v.idle = w.idle
         /\ v.waiting = w.waiting
    BY <1>1, <1>7, <1>10 DEF Worlds
  <1> QED
    BY <1>2, <1>e, <1>z, <1>8, <1>9, <1>10, <1>11 DEF Moved

Fresh(r) ==
  /\ r.connected = FALSE /\ r.input = <<>> /\ r.susp = FALSE /\ r.usage = NO_USAGE
  /\ r.reading = NoVm

\* Queue q has the player new; tasks of its old player went to the queue in N,
\* if there were any.
Left(w, x, q, new, moving, N) ==
  /\ x \in Worlds /\ x.active = w.active /\ x.waiting = w.waiting
  /\ x.idle = w.idle \cup N /\ N \subseteq Queue \ Live(w)
  /\ \A p \in Queue \ ({q} \cup N) : x.queue[p] = w.queue[p]
  /\ SameConn(x.queue[q], w.queue[q]) /\ x.queue[q].player = new
  /\ N = {} => /\ x.queue[q].bg = w.queue[q].bg
              /\ x.queue[q].num_bg = 0 /\ w.queue[q].num_bg = 0
  /\ \A o \in N : /\ N = {o} /\ moving /\ w.queue[q].player \in User
                  /\ x.queue[o].player = w.queue[q].player /\ Fresh(x.queue[o])
                  /\ x.queue[o].bg = w.queue[q].bg /\ x.queue[q].bg = <<>>
                  /\ x.queue[o].num_bg = w.queue[q].num_bg /\ x.queue[q].num_bg = 0

LEMMA Leave ==
  ASSUME NEW w, NEW moving, Sound(w, moving), NEW q \in Live(w), w.queue[q].connected,
         NEW new \in User, w.queue[q].player # new, FreeSlots(w) # {},
         moving \/ w.queue[q].player \in Conn, moving \in BOOLEAN,
         NEW x, x = LeaveTasks([w EXCEPT !.queue[q].player = new], q, w.queue[q].player)
  PROVE  \E N : Left(w, x, q, new, moving, N)
  <1>0. w \in Worlds /\ OneQueue(w) /\ LiveRow(w.queue[q])
    BY DEF Sound, SoundBut
  <1>1. /\ w.queue \in [Queue -> TQueues] /\ w.active \in Seq(Queue)
        /\ w.idle \subseteq Queue /\ w.waiting \in Seq(Tasks) /\ Live(w) \subseteq Queue
        /\ q \in Queue /\ w.queue[q] \in TQueues
    BY <1>0, WorldFields, ActiveList
  <1>2. PICK old : old = w.queue[q].player
    OBVIOUS
  <1>3. old # NOTHING /\ old \in User \cup Conn
    <2>1. w.queue[q].player # NOTHING
      BY <1>0 DEF LiveRow
    <2> QED
      BY <1>1, <1>2, <2>1, RowFields
  <1>4. PICK r : r = [w.queue[q] EXCEPT !.player = new]
    OBVIOUS
  <1>5. r \in TQueues /\ SameConn(r, w.queue[q]) /\ r.player = new /\ r.bg = w.queue[q].bg
        /\ r.num_bg = w.queue[q].num_bg
    <2>1. new \in User \cup Conn \cup {NOTHING}
      OBVIOUS
    <2> QED
      BY <1>1, <1>4, <2>1 DEF TQueues, SameConn
  <1>6. PICK a : a = SetRow(w, q, r)
    OBVIOUS
  <1>7. a = [w EXCEPT !.queue[q].player = new]
    BY <1>1, <1>4, <1>6 DEF SetRow
  <1>8. /\ a \in Worlds /\ a.active = w.active /\ a.idle = w.idle /\ a.waiting = w.waiting
        /\ a.queue = [w.queue EXCEPT ![q] = r]
    BY <1>0, <1>1, <1>5, <1>6 DEF Worlds, SetRow
  <1>9. a.queue[q] = r /\ \A p \in Queue \ {q} : a.queue[p] = w.queue[p]
    BY <1>1, <1>5, <1>8
  <1>10. Live(a) = Live(w)
    BY <1>8 DEF Live
  <1>11. x = LeaveTasks(a, q, old)
    BY <1>2, <1>7
  <1>12. CASE r.num_bg = 0
    <2>1. x = a
      BY <1>9, <1>11, <1>12 DEF LeaveTasks
    <2>2. Left(w, x, q, new, moving, {})
      BY <1>5, <1>8, <1>9, <1>12, <2>1 DEF Left
    <2> QED
      BY <2>2
  <1>13. CASE r.num_bg # 0
    <2>1. old \notin Conn /\ old \in User /\ moving
      BY <1>0, <1>2, <1>3, <1>5, <1>13 DEF LiveRow
    <2>2. QueuesOf(a, old) = {}
      <3>1. ASSUME NEW p \in Live(w), a.queue[p].player = old PROVE FALSE
        <4>1. p # q
          BY <1>2, <1>5, <1>9, <3>1
        <4>2. w.queue[p].player = old
          BY <1>1, <1>9, <3>1, <4>1
        <4> QED
          BY <1>0, <1>2, <1>3, <4>1, <4>2 DEF OneQueue
      <3> QED
        BY <1>10, <3>1 DEF QueuesOf
    <2>3. PICK o : o = Min(FreeSlots(a))
      OBVIOUS
    <2>4. o \in FreeSlots(w) /\ o \in Queue /\ o \notin Live(w) /\ o # q
      <3>1. FreeSlots(a) = FreeSlots(w) /\ FreeSlots(w) \subseteq Nat
        BY <1>10, QueueAssumption DEF FreeSlots
      <3>2. o \in FreeSlots(w)
        BY <2>3, <3>1, MinOfNumbers
      <3> QED
        BY <3>2 DEF FreeSlots
    <2>5. PICK n : n = NewTQueue(old)
      OBVIOUS
    <2>6. n \in TQueues /\ n.player = old /\ Fresh(n) /\ n.bg = <<>>
      <3>1. n.susp = FALSE
        BY <2>5 DEF NewTQueue
      <3> QED
        BY <1>3, <2>5, <3>1, NewRow DEF Fresh
    <2>7. PICK b : b = find_tqueue(a, old)
      OBVIOUS
    <2>8. b = deactivate_tqueue([a EXCEPT !.queue[o] = n], o)
      BY <2>2, <2>3, <2>5, <2>7 DEF find_tqueue
    <2>9. PICK m : m = [n EXCEPT !.usage = NO_USAGE]
      OBVIOUS
    <2>10. m \in TQueues /\ m.player = old /\ Fresh(m) /\ m.bg = <<>>
      <3>1. NO_USAGE \in -1..MaxUsage
        BY TaskAssumption DEF NO_USAGE
      <3>2. m \in TQueues /\ m.usage = NO_USAGE /\ m.player = n.player /\ m.connected = n.connected
            /\ m.input = n.input /\ m.susp = n.susp /\ m.reading = n.reading /\ m.bg = n.bg
        BY <2>6, <2>9, <3>1 DEF TQueues
      <3> QED
        BY <2>6, <3>2 DEF Fresh
    <2>11. /\ b \in Worlds /\ b.active = w.active /\ b.idle = w.idle \cup {o} /\ b.waiting = w.waiting
           /\ b.queue = [a.queue EXCEPT ![o] = m]
      BY <1>1, <1>8, <2>4, <2>8, <2>9, <2>10 DEF deactivate_tqueue, Worlds
    <2>12. b.queue[o] = m /\ b.queue[q] = r /\ \A p \in Queue \ {q, o} : b.queue[p] = w.queue[p]
      BY <1>1, <1>8, <1>9, <2>4, <2>11 DEF Worlds
    <2>13. Live(b) = Live(w) \cup {o}
      BY <2>11 DEF Live
    <2>14. QueuesOf(b, old) = {o}
      <3>1. ASSUME NEW p \in Live(w), b.queue[p].player = old PROVE FALSE
        <4>1. p # q /\ p # o /\ p \in Queue
          BY <1>1, <1>2, <1>5, <2>4, <2>12, <3>1
        <4>2. w.queue[p].player = old
          BY <2>12, <3>1, <4>1
        <4> QED
          BY <1>0, <1>2, <1>3, <4>1, <4>2 DEF OneQueue
      <3> QED
        BY <2>10, <2>12, <2>13, <3>1 DEF QueuesOf
    <2>15. QueueOf(b, old) = o
      BY <2>14 DEF QueueOf
    <2>16. x = MoveTasks(b, q, o)
      BY <1>9, <1>11, <1>13, <2>7, <2>15 DEF LeaveTasks
    <2>17. Moved(b, x, q, o)
      BY ONLY <1>1, <2>4, <2>11, <2>16, MoveTasksIs
    <2>18. x.queue[o].bg = w.queue[q].bg
      <3>1. w.queue[q].bg \in Seq(Tasks)
        BY <1>1, RowFields
      <3>2. x.queue[o].bg = <<>> \o w.queue[q].bg
        BY <1>5, <2>10, <2>12, <2>17 DEF Moved
      <3> QED
        BY <3>1, <3>2, ConcatEmptySeq
    <2>19. x.queue[o].player = old /\ Fresh(x.queue[o])
      BY <2>10, <2>12, <2>17 DEF Moved, SameConn, Fresh
    <2>23. x.queue[o].num_bg = w.queue[q].num_bg /\ x.queue[q].num_bg = 0
      BY <1>5, <2>12, <2>17 DEF Moved
    <2>20. SameConn(x.queue[q], w.queue[q]) /\ x.queue[q].player = new /\ x.queue[q].bg = <<>>
      BY <1>5, <2>12, <2>17, ZenonT(60) DEF Moved, SameConn
    <2>21. x \in Worlds /\ x.active = w.active /\ x.waiting = w.waiting /\ x.idle = w.idle \cup {o}
           /\ \A p \in Queue \ {q, o} : x.queue[p] = w.queue[p]
      BY <2>11, <2>12, <2>17 DEF Moved
    <2>22. Left(w, x, q, new, moving, {o})
      BY <1>2, <2>1, <2>4, <2>18, <2>19, <2>20, <2>21, <2>23 DEF Left
    <2> QED
      BY <2>22
  <1> QED
    BY <1>12, <1>13

Absorbed(x, y, q, d) ==
  /\ y \in Worlds /\ y.active = x.active /\ y.idle = x.idle /\ y.waiting = x.waiting
  /\ \A p \in Queue \ {q, d} : y.queue[p] = x.queue[p]
  /\ SameConn(y.queue[q], x.queue[q]) /\ y.queue[q].player = x.queue[q].player
  /\ y.queue[q].bg = x.queue[q].bg \o x.queue[d].bg
  /\ y.queue[q].num_bg = x.queue[d].num_bg
  /\ y.queue[d].player = NOTHING /\ y.queue[d].input = <<>> /\ y.queue[d].bg = <<>>
  /\ y.queue[d].usage = x.queue[d].usage /\ y.queue[d].reading = x.queue[d].reading
  /\ y.queue[d].connected = x.queue[d].connected

LEMMA AbsorbIs ==
  ASSUME NEW x \in Worlds, NEW q \in Queue, NEW d \in Queue, q # d,
         NEW y, y = Absorb(x, q, d)
  PROVE  Absorbed(x, y, q, d)
  <1>1. /\ x.queue \in [Queue -> TQueues] /\ x.active \in Seq(Queue)
        /\ x.idle \subseteq Queue /\ x.waiting \in Seq(Tasks) /\ x.queue[d] \in TQueues
    BY WorldFields
  <1>2. PICK s : s = x.queue[d]
    OBVIOUS
  <1>3. PICK b : b = (s.susp /\ ~(s.connected /\ s.input # <<>> /\ 0 < InputLowat))
    OBVIOUS
  <1>4. PICK r : r = [s EXCEPT !.input = <<>>, !.susp = b]
    OBVIOUS
  <1>5. PICK f : f = SetRow(x, d, r)
    OBVIOUS
  <1>6. f = flush_input(x, d)
    BY <1>1, <1>2, <1>3, <1>4, <1>5 DEF flush_input, SetRow
  <1>7. b \in BOOLEAN /\ <<>> \in Seq(Lines)
    BY <1>3
  <1>8. /\ r \in TQueues /\ r.input = <<>> /\ r.usage = s.usage /\ r.bg = s.bg
        /\ r.reading = s.reading /\ r.connected = s.connected /\ r.num_bg = s.num_bg
    BY <1>1, <1>2, <1>4, <1>7 DEF TQueues
  <1>9. /\ f \in Worlds /\ f.active = x.active /\ f.idle = x.idle /\ f.waiting = x.waiting
        /\ f.queue = [x.queue EXCEPT ![d] = r]
    BY <1>1, <1>5, <1>8 DEF Worlds, SetRow
  <1>10. f.queue[d] = r /\ \A p \in Queue \ {d} : f.queue[p] = x.queue[p]
    BY <1>1, <1>8, <1>9
  <1>11. PICK m : m = MoveTasks(f, d, q)
    OBVIOUS
  <1>12. Moved(f, m, d, q)
    BY ONLY <1>9, <1>11, MoveTasksIs, q \in Queue, d \in Queue, q # d
  <1>13. /\ m \in Worlds /\ m.active = f.active /\ m.idle = f.idle /\ m.waiting = f.waiting
         /\ \A p \in Queue \ {d, q} : m.queue[p] = f.queue[p]
         /\ SameConn(m.queue[q], f.queue[q]) /\ m.queue[q].player = f.queue[q].player
         /\ m.queue[q].bg = f.queue[q].bg \o f.queue[d].bg
         /\ m.queue[q].num_bg = f.queue[d].num_bg
         /\ SameConn(m.queue[d], f.queue[d])
         /\ m.queue[d].bg = <<>>
    BY ONLY <1>12 DEF Moved
  <1>14. m.queue \in [Queue -> TQueues] /\ m.queue[d] \in TQueues
    BY <1>13, WorldFields
  <1>15. PICK n : n = [m.queue[d] EXCEPT !.player = NOTHING]
    OBVIOUS
  <1>16. n \in TQueues /\ SameConn(n, m.queue[d]) /\ n.player = NOTHING /\ n.bg = m.queue[d].bg
    <2>1. NOTHING \in User \cup Conn \cup {NOTHING}
      OBVIOUS
    <2> QED
      BY <1>14, <1>15, <2>1 DEF TQueues, SameConn
  <1>17. y = SetRow(m, d, n)
    BY <1>6, <1>11, <1>14, <1>15 DEF Absorb, SetRow
  <1>18. /\ y \in Worlds /\ y.active = m.active /\ y.idle = m.idle /\ y.waiting = m.waiting
         /\ y.queue = [m.queue EXCEPT ![d] = n]
    BY <1>13, <1>14, <1>16, <1>17, ZenonT(60) DEF Worlds, SetRow
  <1>19. y.queue[d] = n /\ \A p \in Queue \ {d} : y.queue[p] = m.queue[p]
    BY <1>14, <1>16, <1>18
  <1>20. /\ y \in Worlds /\ y.active = x.active /\ y.idle = x.idle /\ y.waiting = x.waiting
         /\ \A p \in Queue \ {q, d} : y.queue[p] = x.queue[p]
    BY <1>9, <1>10, <1>13, <1>18, <1>19
  <1>21. f.queue[q] = x.queue[q] /\ y.queue[q] = m.queue[q]
    BY <1>10, <1>19
  <1>22. /\ SameConn(y.queue[q], x.queue[q]) /\ y.queue[q].player = x.queue[q].player
         /\ y.queue[q].bg = x.queue[q].bg \o x.queue[d].bg
         /\ y.queue[q].num_bg = x.queue[d].num_bg
    BY ONLY <1>2, <1>8, <1>10, <1>13, <1>21
  <1>23. /\ y.queue[d].player = NOTHING /\ y.queue[d].input = <<>> /\ y.queue[d].bg = <<>>
         /\ y.queue[d].usage = x.queue[d].usage /\ y.queue[d].reading = x.queue[d].reading
         /\ y.queue[d].connected = x.queue[d].connected
    BY ONLY <1>2, <1>8, <1>10, <1>13, <1>16, <1>19 DEF SameConn
  <1> QED
    BY ONLY <1>20, <1>22, <1>23 DEF Absorbed

\* Queue q took the player new over from the queue in D.
Taken(w, z, q, new, moving, N, D) ==
  /\ z \in Worlds /\ z.active = w.active /\ z.waiting = w.waiting
  /\ z.idle = w.idle \cup N /\ N \subseteq Queue \ Live(w) /\ D = QueuesOf(w, new)
  /\ \A p \in Queue \ ({q} \cup N \cup D) : z.queue[p] = w.queue[p]
  /\ SameConn(z.queue[q], w.queue[q]) /\ z.queue[q].player = new
  /\ \A o \in N : /\ N = {o} /\ moving /\ w.queue[q].player \in User
                  /\ z.queue[o].player = w.queue[q].player /\ Fresh(z.queue[o])
  /\ \A d \in D : /\ z.queue[d].player = NOTHING /\ z.queue[d].connected = FALSE
                  /\ z.queue[d].input = <<>> /\ z.queue[d].bg = <<>>
                  /\ z.queue[d].usage = w.queue[d].usage
                  /\ z.queue[d].reading = w.queue[d].reading

LEMMA TakenSound ==
  ASSUME NEW w, NEW moving, Sound(w, moving), NEW q \in Live(w),
         NEW new \in User, w.queue[q].player # new, moving \in BOOLEAN,
         moving \/ q \notin w.idle,
         NEW z, NEW N, NEW D, Taken(w, z, q, new, moving, N, D)
  PROVE  /\ SoundBut(z, moving, D) /\ Kept(w, z) /\ Rd(z) = Rd(w)
         /\ Live(z) = Live(w) \cup N
  <1>0. /\ w \in Worlds /\ ListsSound(w) /\ OneQueue(w)
        /\ \A p \in Live(w) : LiveRow(w.queue[p])
        /\ \A p \in w.idle : IdleRow(w.queue[p], moving)
    BY DEF Sound, SoundBut
  <1>1. Live(w) \subseteq Queue /\ w.idle \subseteq Queue /\ ToSet(w.active) \subseteq Queue
        /\ q \in Queue /\ w.idle \subseteq Live(w) /\ ToSet(w.active) \subseteq Live(w)
    BY <1>0, ActiveList, WorldFields DEF Live
  <1>2. /\ z \in Worlds /\ z.active = w.active /\ z.waiting = w.waiting
        /\ z.idle = w.idle \cup N /\ N \subseteq Queue \ Live(w) /\ D = QueuesOf(w, new)
        /\ \A p \in Queue \ ({q} \cup N \cup D) : z.queue[p] = w.queue[p]
    BY DEF Taken
  <1>3. SameConn(z.queue[q], w.queue[q]) /\ z.queue[q].player = new
    BY DEF Taken
  <1>4. ASSUME NEW o \in N
        PROVE  /\ N = {o} /\ moving /\ w.queue[q].player \in User
               /\ z.queue[o].player = w.queue[q].player /\ Fresh(z.queue[o])
    BY DEF Taken
  <1>5. ASSUME NEW d \in D
        PROVE  /\ z.queue[d].player = NOTHING /\ z.queue[d].connected = FALSE
               /\ z.queue[d].input = <<>> /\ z.queue[d].bg = <<>>
               /\ z.queue[d].usage = w.queue[d].usage
               /\ z.queue[d].reading = w.queue[d].reading
    BY DEF Taken
  <1>6. D \subseteq Live(w) /\ q \notin D /\ \A p \in Live(w) \ D : w.queue[p].player # new
    BY <1>2 DEF QueuesOf
  <1>7. Live(z) = Live(w) \cup N
    BY <1>2 DEF Live
  <1>8. ASSUME NEW p \in Live(w)
        PROVE  /\ z.queue[p].usage = w.queue[p].usage /\ z.queue[p].reading = w.queue[p].reading
               /\ p \notin D \cup {q} => z.queue[p] = w.queue[p]
    <2>1. CASE p = q
      BY <1>3, <2>1 DEF SameConn
    <2>2. CASE p \in D
      BY <1>5, <2>2
    <2>3. CASE p \notin D \cup {q}
      BY <1>1, <1>2, <2>3
    <2> QED
      BY <2>1, <2>2, <2>3
  <1>9. ListsSound(z)
    <2>1. /\ \A p \in ToSet(w.active) : z.queue[p].usage = w.queue[p].usage
          /\ \A i \in DOMAIN w.active : w.active[i] \in ToSet(w.active)
      BY <1>1, <1>8 DEF ToSet
    <2>2. \A p \in w.idle \cup N : z.queue[p].usage = NO_USAGE
      BY <1>0, <1>1, <1>4, <1>8 DEF ListsSound, Fresh
    <2>3. ToSet(w.active) \cap (w.idle \cup N) = {}
      BY <1>0, <1>1, <1>2 DEF ListsSound
    <2> QED
      BY <1>0, <1>2, <2>1, <2>2, <2>3 DEF ListsSound
  <1>10. OneQueue(z)
    <2> SUFFICES ASSUME NEW p \in Live(w) \cup N, NEW r \in Live(w) \cup N, p # r,
                        z.queue[p].player = z.queue[r].player, z.queue[p].player # NOTHING
                 PROVE  FALSE
      BY <1>7 DEF OneQueue
    <2>1. p \notin D /\ r \notin D
      BY <1>5
    <2>2. ASSUME NEW a \in Live(w), a \notin D, a # q
          PROVE  /\ z.queue[a].player = w.queue[a].player /\ w.queue[a].player # new
                 /\ w.queue[a].player # w.queue[q].player \/ w.queue[a].player = NOTHING
      BY <1>0, <1>6, <1>8, <2>2 DEF OneQueue
    <2>3. CASE p \in N
      BY <1>3, <1>4, <2>1, <2>2, <2>3
    <2>4. CASE r \in N
      BY <1>3, <1>4, <2>1, <2>2, <2>4
    <2>5. CASE p \in Live(w) /\ r \in Live(w)
      BY <1>0, <1>3, <2>1, <2>2, <2>5 DEF OneQueue
    <2> QED
      BY <2>3, <2>4, <2>5
  <1>11. User \cap Conn = {} /\ NOTHING \notin User \cup Conn
    BY TaskAssumption
  <1>12. ASSUME NEW p \in Live(z) PROVE LiveRow(z.queue[p])
    <2>1. CASE p = q
      BY <1>0, <1>3, <1>11, <2>1 DEF LiveRow, SameConn
    <2>2. CASE p \in N
      BY <1>4, <1>11, <2>2 DEF LiveRow, Fresh
    <2>3. CASE p \in D
      BY <1>5, <1>11, <2>3 DEF LiveRow
    <2>4. CASE p \in Live(w) /\ p \notin D \cup {q}
      BY <1>0, <1>8, <2>4
    <2> QED
      BY <1>7, <2>1, <2>2, <2>3, <2>4
  <1>13. ASSUME NEW p \in z.idle \ D PROVE IdleRow(z.queue[p], moving)
    <2>1. CASE p = q
      <3>1. q \in w.idle /\ moving
        BY <1>1, <1>2, <2>1
      <3>2. IdleRow(w.queue[q], moving)
        BY <1>0, <3>1
      <3> QED
        BY <1>3, <2>1, <3>1, <3>2 DEF IdleRow, Quiet, SameConn, is_out_of_input
    <2>2. CASE p \in N
      BY <1>4, <2>2 DEF IdleRow, Quiet, Fresh
    <2>3. CASE p \in w.idle /\ p # q
      BY <1>0, <1>1, <1>8, <2>3
    <2> QED
      BY <1>2, <2>1, <2>2, <2>3
  <1>14. SoundBut(z, moving, D)
    BY <1>2, <1>9, <1>10, <1>12, <1>13 DEF SoundBut
  <1>15. Rd(z) = Rd(w)
    <2>1. NoVm.id = 0
      BY DEF NoVm
    <2>2. \A p \in Queue : Rd(z)[p] = Rd(w)[p]
      BY <1>2, <1>4, <1>7, <1>8, <2>1 DEF Rd, Fresh
    <2> QED
      BY <2>2 DEF Rd
  <1> QED
    BY <1>2, <1>7, <1>14, <1>15 DEF Kept

\* The ready tasks of one queue join those of another.
Join(B, from, to) == [B EXCEPT ![to] = B[to] \o B[from], ![from] = <<>>]
Joined(B, C) ==
  C = B \/ \E from, to \in Queue : from # to /\ C = Join(B, from, to)

LEMMA LeaveJoins ==
  ASSUME NEW w \in Worlds, NEW q \in Live(w), NEW new, NEW moving, NEW N, NEW x,
         Left(w, x, q, new, moving, N)
  PROVE  Joined(Bg(w), Bg(x))
  <1>1. /\ x \in Worlds /\ x.active = w.active
        /\ x.idle = w.idle \cup N /\ N \subseteq Queue \ Live(w)
        /\ \A p \in Queue \ ({q} \cup N) : x.queue[p] = w.queue[p]
        /\ N = {} => x.queue[q].bg = w.queue[q].bg
        /\ \A o \in N : N = {o} /\ x.queue[o].bg = w.queue[q].bg /\ x.queue[q].bg = <<>>
    BY DEF Left
  <1>2. Live(x) = Live(w) \cup N /\ q \in Queue /\ Live(w) \subseteq Queue
    BY <1>1, ActiveList DEF Live
  <1>3. CASE N = {}
    <2>1. Bg(x) = Bg(w)
      BY <1>1, <1>2, <1>3 DEF Bg
    <2> QED
      BY <2>1 DEF Joined
  <1>4. CASE N # {}
    <2>1. PICK o : o \in N
      BY <1>4
    <2>2. N = {o} /\ o \in Queue /\ o \notin Live(w) /\ o # q
      BY <1>1, <2>1
    <2>3. w.queue[q].bg \in Seq(Tasks)
      BY <1>2, WorldFields, RowFields
    <2>4. <<>> \o w.queue[q].bg = w.queue[q].bg
      BY <2>3, ConcatEmptySeq
    <2>5. /\ Bg(w) = [p \in Queue |-> Bg(w)[p]] /\ Bg(x) = [p \in Queue |-> Bg(x)[p]]
          /\ Bg(w)[q] = w.queue[q].bg /\ Bg(w)[o] = <<>> /\ Bg(x)[q] = <<>>
          /\ Bg(x)[o] = w.queue[q].bg
          /\ \A p \in Queue \ {q, o} : Bg(x)[p] = Bg(w)[p]
      BY <1>1, <1>2, <2>1, <2>2 DEF Bg
    <2>6. Bg(x) = Join(Bg(w), q, o)
      BY <1>2, <2>2, <2>4, <2>5 DEF Join
    <2> QED
      BY <1>2, <2>2, <2>6 DEF Joined
  <1> QED
    BY <1>3, <1>4

LEMMA AbsorbJoins ==
  ASSUME NEW x \in Worlds, NEW q \in Live(x), NEW d \in Live(x), q # d,
         NEW y, y.active = x.active, y.idle = x.idle,
         \A p \in Queue \ {q, d} : y.queue[p] = x.queue[p],
         y.queue[q].bg = x.queue[q].bg \o x.queue[d].bg, y.queue[d].bg = <<>>
  PROVE  Joined(Bg(x), Bg(y))
  <1>1. Live(y) = Live(x) /\ q \in Queue /\ d \in Queue /\ Live(x) \subseteq Queue
    BY ActiveList DEF Live
  <1>2. /\ Bg(x) = [p \in Queue |-> Bg(x)[p]] /\ Bg(y) = [p \in Queue |-> Bg(y)[p]]
        /\ Bg(x)[q] = x.queue[q].bg /\ Bg(x)[d] = x.queue[d].bg
        /\ Bg(y)[q] = x.queue[q].bg \o x.queue[d].bg /\ Bg(y)[d] = <<>>
        /\ \A p \in Queue \ {q, d} : Bg(y)[p] = Bg(x)[p]
    BY <1>1 DEF Bg
  <1>3. Bg(y) = Join(Bg(x), d, q)
    BY <1>1, <1>2 DEF Join
  <1> QED
    BY <1>1, <1>3 DEF Joined

\* The tasks and the count of a player stay together: those of each queue of w
\* are those of its player's queue in v, which is gone only if it counts none.
Carried(w, v) ==
  /\ \A r \in Queue :
       Pl(w)[r] # NOTHING /\ Nb(w)[r] # 0 => \E s \in Queue : Pl(v)[s] = Pl(w)[r]
  /\ \A s \in Queue :
       Pl(v)[s] # NOTHING =>
         \/ \E r \in Queue : /\ Pl(w)[r] = Pl(v)[s]
                             /\ Nb(v)[s] = Nb(w)[r] /\ Bg(v)[s] = Bg(w)[r]
         \/ /\ Nb(v)[s] = 0 /\ Bg(v)[s] = <<>>
            /\ \A r \in Queue : Pl(w)[r] # Pl(v)[s]
  /\ \A s \in Queue :
       Pl(v)[s] = NOTHING =>
         \/ Bg(v)[s] = <<>>
         \/ Bg(v)[s] = Bg(w)[s] /\ (Pl(w)[s] = NOTHING \/ Nb(w)[s] = 0)

\* A queue that counts no task has none.
Tidy(w) == \A q \in Queue : Pl(w)[q] # NOTHING /\ Nb(w)[q] = 0 => Bg(w)[q] = <<>>

LEMMA SameCarried ==
  ASSUME NEW w, NEW v, v \in Worlds, OneQueue(v), Opened(w, v),
         Nb(v) = Nb(w), Bg(v) = Bg(w)
  PROVE  Carried(w, v)
  <1>1. \A r, s \in Queue : Pl(v)[r] = Pl(v)[s] => r = s \/ Pl(v)[r] = NOTHING
    BY DEF OneQueue, Pl
  <1>2. \A r \in Queue : Pl(w)[r] # NOTHING => Pl(v)[r] = Pl(w)[r]
    BY DEF Opened
  <1>3. ASSUME NEW s \in Queue, Pl(v)[s] # NOTHING, Pl(v)[s] # Pl(w)[s]
        PROVE  /\ Nb(v)[s] = 0 /\ Bg(v)[s] = <<>>
               /\ \A r \in Queue : Pl(w)[r] # Pl(v)[s]
    BY <1>1, <1>2, <1>3 DEF Opened
  <1>4. \A s \in Queue : Pl(v)[s] = NOTHING => Bg(v)[s] = Bg(w)[s] /\ Pl(w)[s] = NOTHING
    BY <1>2
  <1> QED
    BY <1>2, <1>3, <1>4 DEF Carried

LEMMA FreedCarried ==
  ASSUME NEW w, NEW v, NEW moving, Freed(w, v, moving)
  PROVE  Carried(w, v)
  BY DEF Freed, Carried

\* Queue q took the player new over: its own tasks went to the queue in N, those
\* of new came from the queue in D.
LEMMA HandOver ==
  ASSUME NEW w \in Worlds, OneQueue(w), NEW q \in Live(w), w.queue[q].player # NOTHING,
         NEW new, new # NOTHING, w.queue[q].player # new,
         NEW N, N \subseteq Queue \ Live(w), NEW D, D = QueuesOf(w, new),
         NEW z, Live(z) = Live(w) \cup N,
         \A p \in Queue \ ({q} \cup N \cup D) : z.queue[p] = w.queue[p],
         z.queue[q].player = new,
         N = {} => w.queue[q].num_bg = 0,
         \A o \in N : /\ N = {o} /\ z.queue[o].player = w.queue[q].player
                      /\ z.queue[o].num_bg = w.queue[q].num_bg
                      /\ z.queue[o].bg = w.queue[q].bg,
         D = {} => z.queue[q].num_bg = 0 /\ z.queue[q].bg = <<>>,
         \A d \in D : /\ D = {d} /\ z.queue[d].player = NOTHING /\ z.queue[d].bg = <<>>
                      /\ z.queue[q].num_bg = w.queue[d].num_bg
                      /\ z.queue[q].bg = w.queue[d].bg
  PROVE  Carried(w, z)
  <1>1. Live(w) \subseteq Queue /\ q \in Queue /\ q \notin N /\ q \notin D
    BY ActiveList DEF QueuesOf
  <1>2. \A p \in Queue \ ({q} \cup N \cup D) :
          Pl(z)[p] = Pl(w)[p] /\ Nb(z)[p] = Nb(w)[p] /\ Bg(z)[p] = Bg(w)[p]
    BY DEF Pl, Nb, Bg
  <1>3. \A p \in Queue : Pl(w)[p] = new => p \in D
    BY DEF Pl, QueuesOf
  <1>4. /\ Pl(z)[q] = new /\ Nb(z)[q] = z.queue[q].num_bg /\ Bg(z)[q] = z.queue[q].bg
        /\ Pl(w)[q] = w.queue[q].player /\ Nb(w)[q] = w.queue[q].num_bg
        /\ Bg(w)[q] = w.queue[q].bg
    BY <1>1 DEF Pl, Nb, Bg
  <1>5. \A o \in N : o \in Queue /\ Pl(z)[o] = Pl(w)[q] /\ Nb(z)[o] = Nb(w)[q]
                    /\ Bg(z)[o] = Bg(w)[q] /\ Pl(w)[o] = NOTHING
    BY <1>1, <1>4 DEF Pl, Nb, Bg
  <1>6. \A d \in D : d \in Queue /\ Pl(w)[d] = new /\ Pl(z)[d] = NOTHING /\ Bg(z)[d] = <<>>
                    /\ Nb(z)[q] = Nb(w)[d] /\ Bg(z)[q] = Bg(w)[d]
    BY <1>1, <1>4 DEF Pl, Nb, Bg, QueuesOf
  <1>7. ASSUME NEW r \in Queue, Pl(w)[r] # NOTHING, Nb(w)[r] # 0
        PROVE  \E s \in Queue : Pl(z)[s] = Pl(w)[r]
    <2>1. CASE r = q
      BY <1>4, <1>5, <1>7, <2>1
    <2>2. CASE r \in D
      BY <1>1, <1>4, <1>6, <2>2
    <2>3. CASE r \in N
      BY <1>5, <1>7, <2>3
    <2> QED
      BY <1>2, <2>1, <2>2, <2>3
  <1>8. ASSUME NEW s \in Queue, Pl(z)[s] # NOTHING
        PROVE  \/ \E r \in Queue : /\ Pl(w)[r] = Pl(z)[s]
                                   /\ Nb(z)[s] = Nb(w)[r] /\ Bg(z)[s] = Bg(w)[r]
               \/ /\ Nb(z)[s] = 0 /\ Bg(z)[s] = <<>>
                  /\ \A r \in Queue : Pl(w)[r] # Pl(z)[s]
    <2>1. CASE s = q /\ D # {}
      BY <1>4, <1>6, <2>1
    <2>2. CASE s = q /\ D = {}
      BY <1>3, <1>4, <2>2
    <2>3. CASE s \in N
      BY <1>1, <1>5, <2>3
    <2>4. CASE s \in D
      BY <1>6, <1>8, <2>4
    <2> QED
      BY <1>2, <2>1, <2>2, <2>3, <2>4
  <1>9. ASSUME NEW s \in Queue, Pl(z)[s] = NOTHING
        PROVE  Bg(z)[s] = <<>> \/ (Bg(z)[s] = Bg(w)[s] /\ Pl(w)[s] = NOTHING)
    <2>1. s # q /\ s \notin N
      BY <1>4, <1>5, <1>9
    <2> QED
      BY <1>2, <1>6, <1>9, <2>1
  <1> QED
    BY <1>7, <1>8, <1>9 DEF Carried

\* What switch_player and a login leave: every task is still there, and counted.
TakenOver(w, v, moving) ==
  /\ Sound(v, moving) /\ Kept(w, v) /\ v.waiting = w.waiting /\ Rd(v) = Rd(w)
  /\ \E B : Joined(Bg(w), B) /\ Joined(B, Bg(v))
  /\ Tidy(w) => Carried(w, v)

LEMMA TakeOver ==
  ASSUME NEW w, NEW moving, Sound(w, moving), NEW q \in Live(w), w.queue[q].connected,
         NEW new \in User, w.queue[q].player # new, FreeSlots(w) # {}, moving \in BOOLEAN,
         moving \/ (w.queue[q].player \in Conn /\ q \notin w.idle),
         NEW v, v = CloseExisting(TakePlayer(w, q, new), w, new)
  PROVE  TakenOver(w, v, moving)
  <1>0. /\ w \in Worlds /\ OneQueue(w)
        /\ \A p \in w.idle : IdleRow(w.queue[p], moving)
    BY DEF Sound, SoundBut
  <1>1. Live(w) \subseteq Queue /\ q \in Queue
    BY <1>0, ActiveList
  <1>2. PICK x : x = LeaveTasks([w EXCEPT !.queue[q].player = new], q, w.queue[q].player)
    OBVIOUS
  <1>3. PICK N : Left(w, x, q, new, moving, N)
    BY <1>2, Leave
  <1>4. Joined(Bg(w), Bg(x))
    BY <1>0, <1>3, LeaveJoins
  <1>5. /\ x \in Worlds /\ x.active = w.active /\ x.waiting = w.waiting
        /\ x.idle = w.idle \cup N /\ N \subseteq Queue \ Live(w)
        /\ \A p \in Queue \ ({q} \cup N) : x.queue[p] = w.queue[p]
        /\ SameConn(x.queue[q], w.queue[q]) /\ x.queue[q].player = new
        /\ x.queue[q].num_bg = 0 /\ (N = {} => w.queue[q].num_bg = 0)
    BY <1>3 DEF Left
  <1>6. ASSUME NEW o \in N
        PROVE  /\ N = {o} /\ moving /\ w.queue[q].player \in User
               /\ x.queue[o].player = w.queue[q].player /\ Fresh(x.queue[o])
               /\ x.queue[o].num_bg = w.queue[q].num_bg
               /\ x.queue[o].bg = w.queue[q].bg
    BY <1>3 DEF Left
  <1>9. w.queue[q].player # NOTHING /\ new # NOTHING
    BY TaskAssumption DEF Sound, SoundBut, LiveRow
  <1>10. Tidy(w) => x.queue[q].bg = <<>>
    <2>1. CASE N = {}
      <3>1. x.queue[q].bg = w.queue[q].bg /\ w.queue[q].num_bg = 0
        BY <1>3, <2>1 DEF Left
      <3> QED
        BY <1>1, <1>9, <3>1 DEF Tidy, Pl, Nb, Bg
    <2>2. CASE N # {}
      BY <1>3, <2>2 DEF Left
    <2> QED
      BY <2>1, <2>2
  <1>11. Live(x) = Live(w) \cup N
    BY <1>5 DEF Live
  <1>7. CASE QueuesOf(w, new) = {}
    <2>1. v = x
      BY <1>2, <1>7 DEF CloseExisting, TakePlayer
    <2>2. Taken(w, x, q, new, moving, N, {})
      BY <1>5, <1>6, <1>7 DEF Taken
    <2>3. SoundBut(x, moving, {}) /\ Kept(w, x) /\ Rd(x) = Rd(w)
      BY <2>2, TakenSound
    <2>4. Tidy(w) => Carried(w, x)
      <3>1. \A p \in Queue \ ({q} \cup N \cup {}) : x.queue[p] = w.queue[p]
        BY <1>5
      <3> QED
        BY <1>0, <1>5, <1>6, <1>7, <1>9, <1>10, <1>11, <3>1, HandOver
    <2> QED
      BY <1>4, <1>5, <2>1, <2>3, <2>4 DEF TakenOver, Joined, Sound
  <1>8. CASE QueuesOf(w, new) # {}
    <2>1. PICK d : d = (CHOOSE e \in QueuesOf(w, new) : TRUE)
      OBVIOUS
    <2>2. d \in QueuesOf(w, new)
      BY <1>8, <2>1
    <2>3. d \in Live(w) /\ w.queue[d].player = new /\ d # q /\ d \in Queue /\ d \notin N
      BY <1>1, <1>5, <2>2 DEF QueuesOf
    <2>4. QueuesOf(w, new) = {d}
      BY <1>0, <2>2, <2>3, TaskAssumption DEF QueuesOf, OneQueue
    <2>5. PICK y : y = Absorb(x, q, d)
      OBVIOUS
    <2>6. y = TakePlayer(w, q, new)
      BY <1>2, <1>8, <2>1, <2>5 DEF TakePlayer
    <2>7. Absorbed(x, y, q, d)
      BY ONLY <1>1, <1>5, <2>3, <2>5, AbsorbIs
    <2>8. /\ y \in Worlds /\ y.active = x.active /\ y.idle = x.idle /\ y.waiting = x.waiting
          /\ \A p \in Queue \ {q, d} : y.queue[p] = x.queue[p]
          /\ SameConn(y.queue[q], x.queue[q]) /\ y.queue[q].player = x.queue[q].player
          /\ y.queue[q].bg = x.queue[q].bg \o x.queue[d].bg
          /\ y.queue[q].num_bg = x.queue[d].num_bg
          /\ y.queue[d].player = NOTHING /\ y.queue[d].input = <<>> /\ y.queue[d].bg = <<>>
          /\ y.queue[d].usage = x.queue[d].usage /\ y.queue[d].reading = x.queue[d].reading
          /\ y.queue[d].connected = x.queue[d].connected
      BY ONLY <2>7 DEF Absorbed
    <2>9. y.queue \in [Queue -> TQueues] /\ y.queue[d] \in TQueues
      BY <2>3, <2>8, WorldFields
    <2>10. PICK r : r = [y.queue[d] EXCEPT !.connected = FALSE]
      OBVIOUS
    <2>11. /\ r \in TQueues /\ r.connected = FALSE /\ r.player = NOTHING /\ r.input = <<>>
           /\ r.bg = <<>> /\ r.usage = y.queue[d].usage /\ r.reading = y.queue[d].reading
      BY <2>8, <2>9, <2>10 DEF TQueues
    <2>12. PICK z : z = SetRow(y, d, r)
      OBVIOUS
    <2>13. /\ z \in Worlds /\ z.active = y.active /\ z.idle = y.idle /\ z.waiting = y.waiting
           /\ z.queue = [y.queue EXCEPT ![d] = r]
      BY <2>8, <2>9, <2>11, <2>12 DEF Worlds, SetRow
    <2>14. z.queue[d] = r /\ \A p \in Queue \ {d} : z.queue[p] = y.queue[p]
      BY <2>3, <2>9, <2>13
    <2>15. x.queue[d] = w.queue[d] /\ z.queue[q] = y.queue[q]
      BY <1>1, <1>5, <2>3, <2>14
    <2>16. Taken(w, z, q, new, moving, N, {d})
      <3>1. /\ z \in Worlds /\ z.active = w.active /\ z.waiting = w.waiting
            /\ z.idle = w.idle \cup N /\ {d} = QueuesOf(w, new)
        BY <1>5, <2>4, <2>8, <2>13
      <3>2. \A p \in Queue \ ({q} \cup N \cup {d}) : z.queue[p] = w.queue[p]
        BY <1>5, <2>8, <2>14
      <3>3. SameConn(z.queue[q], w.queue[q]) /\ z.queue[q].player = new
        BY <1>5, <2>8, <2>15 DEF SameConn
      <3>4. ASSUME NEW o \in N
            PROVE  /\ N = {o} /\ moving /\ w.queue[q].player \in User
                   /\ z.queue[o].player = w.queue[q].player /\ Fresh(z.queue[o])
        <4>1. o \in Queue \ {q, d}
          BY <1>5, <2>3
        <4>2. z.queue[o] = x.queue[o]
          BY <2>8, <2>14, <4>1
        <4> QED
          BY <1>6, <4>2
      <3>5. /\ z.queue[d].player = NOTHING /\ z.queue[d].connected = FALSE
            /\ z.queue[d].input = <<>> /\ z.queue[d].bg = <<>>
            /\ z.queue[d].usage = w.queue[d].usage
            /\ z.queue[d].reading = w.queue[d].reading
        BY <2>8, <2>11, <2>14, <2>15
      <3> QED
        BY <1>5, <3>1, <3>2, <3>3, <3>4, <3>5 DEF Taken
    <2>17. /\ SoundBut(z, moving, {d}) /\ Kept(w, z) /\ Rd(z) = Rd(w)
           /\ Live(z) = Live(w) \cup N
      BY <2>16, TakenSound
    <2>18. Joined(Bg(x), Bg(z))
      <3>1. q \in Live(x) /\ d \in Live(x)
        BY <1>5, <2>3 DEF Live
      <3>2. /\ z.active = x.active /\ z.idle = x.idle
            /\ \A p \in Queue \ {q, d} : z.queue[p] = x.queue[p]
            /\ z.queue[q].bg = x.queue[q].bg \o x.queue[d].bg /\ z.queue[d].bg = <<>>
        BY <2>8, <2>11, <2>13, <2>14, <2>15
      <3> QED
        BY ONLY <1>5, <2>3, <3>1, <3>2, AbsorbJoins
    <2>22. Tidy(w) => Carried(w, z)
      <3>1. \A p \in Queue \ ({q} \cup N \cup {d}) : z.queue[p] = w.queue[p]
        BY <2>16 DEF Taken
      <3>2. \A o \in N : /\ N = {o} /\ z.queue[o].player = w.queue[q].player
                         /\ z.queue[o].num_bg = w.queue[q].num_bg
                         /\ z.queue[o].bg = w.queue[q].bg
        <4> SUFFICES ASSUME NEW o \in N
                     PROVE  /\ N = {o} /\ z.queue[o].player = w.queue[q].player
                            /\ z.queue[o].num_bg = w.queue[q].num_bg
                            /\ z.queue[o].bg = w.queue[q].bg
          OBVIOUS
        <4>1. o \in Queue \ {q, d}
          BY <1>5, <2>3
        <4>2. z.queue[o] = x.queue[o]
          BY <2>8, <2>14, <4>1
        <4> QED
          BY <1>6, <4>2
      <3>3. Tidy(w) => z.queue[q].bg = w.queue[d].bg
        <4>1. w.queue[d].bg \in Seq(Tasks)
          BY <1>0, <2>3, WorldFields, RowFields
        <4>2. <<>> \o w.queue[d].bg = w.queue[d].bg
          BY <4>1, ConcatEmptySeq
        <4> QED
          BY <1>10, <2>8, <2>15, <4>2
      <3>4. z.queue[q].num_bg = w.queue[d].num_bg /\ z.queue[q].player = new
        BY <1>5, <2>8, <2>15
      <3>5. z.queue[d].player = NOTHING /\ z.queue[d].bg = <<>>
        BY <2>11, <2>14
      <3>6. PICK D : D = {d}
        OBVIOUS
      <3>7. /\ D = QueuesOf(w, new) /\ D # {}
            /\ \A p \in Queue \ ({q} \cup N \cup D) : z.queue[p] = w.queue[p]
        BY <2>4, <3>1, <3>6
      <3>8. Tidy(w) =>
              \A e \in D : /\ D = {e} /\ z.queue[e].player = NOTHING /\ z.queue[e].bg = <<>>
                           /\ z.queue[q].num_bg = w.queue[e].num_bg
                           /\ z.queue[q].bg = w.queue[e].bg
        BY <3>3, <3>4, <3>5, <3>6
      <3> QED
        BY ONLY <1>0, <1>5, <1>9, <2>17, <3>2, <3>4, <3>7, <3>8, HandOver,
                q \in Live(w), w.queue[q].player # new
    <2>19. TakenOver(w, z, moving) \/ ~Sound(z, moving)
      BY <1>4, <1>5, <2>8, <2>13, <2>17, <2>18, <2>22 DEF TakenOver
    <2>20. CASE ~w.queue[d].connected
      <3>1. v = y
        BY <2>4, <2>6, <2>20 DEF CloseExisting
      <3>2. z = y
        <4>1. r = y.queue[d]
          BY <2>8, <2>9, <2>10, <2>15, <2>20 DEF TQueues
        <4> QED
          BY <2>8, <2>9, <2>12, <4>1 DEF SetRow, Worlds
      <3>3. d \in z.idle => IdleRow(r, moving)
        <4>1. d \in z.idle => d \in w.idle
          BY <1>5, <2>3, <2>8, <2>13
        <4>2. d \in w.idle => w.queue[d].reading = NoVm
          BY <1>0, <2>20 DEF IdleRow, Quiet, is_out_of_input
        <4> QED
          BY <2>8, <2>11, <2>15, <4>1, <4>2 DEF IdleRow, Quiet
      <3>4. Sound(z, moving)
        BY <2>14, <2>17, <3>3 DEF Sound, SoundBut
      <3> QED
        BY <2>19, <3>1, <3>2, <3>4
    <2>21. CASE w.queue[d].connected
      <3>1. v = free_task_queue(y, d)
        <4>1. {e \in QueuesOf(w, new) : w.queue[e].connected} = {d}
          BY <2>4, <2>21
        <4>2. (CHOOSE e \in {d} : TRUE) = d
          OBVIOUS
        <4> QED
          BY <2>6, <4>1, <4>2 DEF CloseExisting
      <3>2. z = [y EXCEPT !.queue[d].connected = FALSE] /\ z.queue[d] = r
        BY <2>3, <2>9, <2>10, <2>12, <2>14 DEF SetRow
      <3>3. v = IF r.reading # NoVm THEN ensure_usage(z, d) ELSE z
        BY <3>1, <3>2 DEF free_task_queue
      <3>4. CASE r.reading = NoVm
        <4>1. IdleRow(r, moving)
          BY <2>11, <3>4 DEF IdleRow, Quiet
        <4>2. Sound(z, moving)
          BY <2>14, <2>17, <4>1 DEF Sound, SoundBut
        <4> QED
          BY <2>19, <3>3, <3>4, <4>2
      <3>5. CASE r.reading # NoVm
        <4>1. v = ensure_usage(z, d) /\ d \in Live(z)
          BY <2>3, <2>17, <3>3, <3>5
        <4>2. Ensured(z, v, moving, {d}, d)
          BY ONLY <2>17, <4>1, EnsureSound
        <4>3. {d} \ {d} = {}
          OBVIOUS
        <4>4. /\ Sound(v, moving) /\ SameWork(z, v) /\ Kept(z, v) /\ v.waiting = z.waiting
              /\ v \in Worlds
          BY <4>2, <4>3 DEF Ensured, Sound, SoundBut
        <4>5. Bg(v) = Bg(z) /\ Rd(v) = Rd(z) /\ Nb(v) = Nb(z)
          BY <2>13, <4>4, SameWorkIs
        <4>7. Live(v) = Live(z)
          BY <4>2 DEF Ensured
        <4>8. Pl(v) = Pl(z)
          BY <4>4, <4>7 DEF SameWork, Pl
        <4>9. Tidy(w) => Carried(w, v)
          BY <2>22, <4>5, <4>8 DEF Carried
        <4>6. Kept(w, v)
          BY <2>17, <4>4, KeptThenKept
        <4> QED
          BY <1>4, <1>5, <2>8, <2>13, <2>17, <2>18, <4>4, <4>5, <4>6, <4>9 DEF TakenOver
      <3> QED
        BY <3>4, <3>5
    <2> QED
      BY <2>20, <2>21
  <1> QED
    BY <1>7, <1>8

-----------------------------------------------------------------------------
(* A task is in one place.                                                 *)

\* The ids of a list of tasks, of the lists of all queues, of the readers and
\* of the tasks on external queues, and that none occurs twice in them.
ListIds(s) == {s[i].id : i \in DOMAIN s}
ListOne(s) == \A i, j \in DOMAIN s : s[i].id = s[j].id => i = j
ReadyIds(B) == UNION {ListIds(B[q]) : q \in Queue}
ReadyOne(B) ==
  /\ \A q \in Queue : ListOne(B[q])
  /\ \A p, q \in Queue : p # q => ListIds(B[p]) \cap ListIds(B[q]) = {}
ReaderIds(R) == {R[q] : q \in Queue} \ {0}
ReaderOne(R) == \A p, q \in Queue : R[p] = R[q] => p = q \/ R[p] = 0
ExternIds(E) == {vm.id : vm \in E}
ExternOne(E) == \A u, v \in E : u.id = v.id => u = v

Apart(a, b, c, d, e) ==
  /\ a \cap b = {} /\ a \cap c = {} /\ a \cap d = {} /\ a \cap e = {}
  /\ b \cap c = {} /\ b \cap d = {} /\ b \cap e = {}
  /\ c \cap d = {} /\ c \cap e = {} /\ d \cap e = {}

\* Tasks read only if something calls read() or read_http().
Reads == "read" \in does.calls \/ "read_http" \in does.calls

OneEach(W, B, R, E, id) ==
  /\ ListOne(W) /\ ReadyOne(B) /\ ReaderOne(R) /\ ExternOne(E)
  /\ ReaderIds(R) # {} => Reads
  /\ Apart(ListIds(W), ReadyIds(B), ReaderIds(R), ExternIds(E), {id} \ {0})

LEMMA ListPut ==
  ASSUME NEW s \in Seq(Tasks), NEW t \in Tasks, NEW u, Placed(s, t, u),
         ListOne(s), t.id \notin ListIds(s)
  PROVE  ListOne(u) /\ ListIds(u) = ListIds(s) \cup {t.id}
  <1>1. Len(s) \in Nat /\ DOMAIN s = 1..Len(s)
    BY LenProperties
  <1>2. PICK k \in 1..(Len(s) + 1) :
          u = [i \in 1..(Len(s) + 1) |-> IF i < k THEN s[i]
                                        ELSE IF i = k THEN t ELSE s[i - 1]]
    BY DEF Placed
  <1>3. DOMAIN u = 1..(Len(s) + 1)
    BY <1>2
  <1>4. ASSUME NEW i \in 1..(Len(s) + 1)
        PROVE  /\ i < k => i \in 1..Len(s) /\ u[i] = s[i]
               /\ i > k => i - 1 \in 1..Len(s) /\ u[i] = s[i - 1]
               /\ i = k => u[i] = t
    BY <1>1, <1>2
  <1>5. ListIds(u) = ListIds(s) \cup {t.id}
    <2>1. ASSUME NEW i \in 1..(Len(s) + 1) PROVE u[i].id \in ListIds(s) \cup {t.id}
      <3>1. i \in Int /\ k \in Int /\ (i < k \/ i = k \/ i > k)
        BY <1>1
      <3> QED
        BY <1>1, <1>4, <3>1 DEF ListIds
    <2>2. ASSUME NEW i \in 1..Len(s) PROVE s[i].id \in ListIds(u)
      <3>1. CASE i < k
        <4>1. i \in 1..(Len(s) + 1)
          BY <1>1
        <4> QED
          BY <1>3, <1>4, <3>1, <4>1 DEF ListIds
      <3>2. CASE ~(i < k)
        <4>1. i + 1 \in 1..(Len(s) + 1) /\ i + 1 > k /\ (i + 1) - 1 = i
          BY <1>1, <3>2
        <4>2. u[i + 1] = s[i]
          BY <1>4, <4>1
        <4> QED
          BY <1>3, <4>1, <4>2 DEF ListIds
      <3> QED
        BY <3>1, <3>2
    <2>3. t.id \in ListIds(u)
      BY <1>3, <1>4 DEF ListIds
    <2> QED
      BY <1>1, <1>3, <2>1, <2>2, <2>3 DEF ListIds
  <1>6. ASSUME NEW i \in 1..(Len(s) + 1), NEW j \in 1..(Len(s) + 1), u[i].id = u[j].id
        PROVE  i = j
    <2>1. i \in Int /\ j \in Int /\ k \in Int
      BY <1>1
    <2>2. \A m \in 1..Len(s) : s[m].id # t.id
      BY <1>1 DEF ListIds
    <2>3. \A m, n \in 1..Len(s) : s[m].id = s[n].id => m = n
      BY <1>1 DEF ListOne
    <2>4. CASE i < k /\ j < k
      BY <1>4, <1>6, <2>3, <2>4
    <2>5. CASE i > k /\ j > k
      <3>1. i - 1 = j - 1
        BY <1>4, <1>6, <2>3, <2>5
      <3> QED
        BY <2>1, <3>1
    <2>6. CASE i < k /\ j > k
      <3>1. i = j - 1
        BY <1>4, <1>6, <2>3, <2>6
      <3> QED
        BY <2>1, <2>6, <3>1
    <2>7. CASE i > k /\ j < k
      <3>1. i - 1 = j
        BY <1>4, <1>6, <2>3, <2>7
      <3> QED
        BY <2>1, <2>7, <3>1
    <2>8. CASE i = k \/ j = k
      BY <1>4, <1>6, <2>1, <2>2, <2>8
    <2> QED
      BY <2>1, <2>4, <2>5, <2>6, <2>7, <2>8
  <1> QED
    BY <1>3, <1>5, <1>6 DEF ListOne

LEMMA AppendPlaces ==
  ASSUME NEW S, NEW s \in Seq(S), NEW e \in S
  PROVE  Placed(s, e, Append(s, e))
  <1>1. Len(s) \in Nat /\ \A i \in 1..Len(s) : s[i] \in S
    BY ElementOfSeq, LenProperties
  <1>2. PICK t : t = Append(s, e)
    OBVIOUS
  <1>3. /\ t \in Seq(S) /\ Len(t) = Len(s) + 1 /\ t[Len(s) + 1] = e
        /\ \A i \in 1..Len(s) : t[i] = s[i]
    BY <1>2, AppendProperties
  <1> DEFINE k == Len(s) + 1
             u == [i \in 1..(Len(s) + 1) |-> IF i < k THEN s[i]
                                            ELSE IF i = k THEN e ELSE s[i - 1]]
  <1>4. k \in 1..(Len(s) + 1)
        /\ \A i \in 1..(Len(s) + 1) : i = k \/ (i < k /\ i \in 1..Len(s))
    BY <1>1
  <1>5. \A i \in 1..(Len(s) + 1) : t[i] = u[i] /\ u[i] \in S
    BY <1>1, <1>3, <1>4
  <1>6. u \in Seq(S) /\ Len(u) = Len(s) + 1
    BY <1>1, <1>5, IsASeq
  <1>7. t = u
    <2> HIDE DEF u
    <2> QED
      BY <1>3, <1>5, <1>6, SeqEqual
  <1> QED
    BY <1>2, <1>4, <1>7 DEF Placed

LEMMA ListTake ==
  ASSUME NEW s \in Seq(Tasks), NEW k \in 1..Len(s), ListOne(s)
  PROVE  ListOne(RemoveAt(s, k)) /\ ListIds(RemoveAt(s, k)) = ListIds(s) \ {s[k].id}
  <1>1. Len(s) \in Nat /\ DOMAIN s = 1..Len(s)
    BY LenProperties
  <1>2. PICK u : u = RemoveAt(s, k)
    OBVIOUS
  <1>3. /\ u \in Seq(Tasks) /\ Len(u) = Len(s) - 1
        /\ \A i \in 1..(Len(s) - 1) : u[i] = IF i < k THEN s[i] ELSE s[i + 1]
    BY <1>2, RemoveIs
  <1>4. DOMAIN u = 1..(Len(s) - 1)
    BY <1>3, LenProperties
  <1>5. ASSUME NEW i \in 1..(Len(s) - 1)
        PROVE  /\ i < k => i \in 1..Len(s) /\ i # k /\ u[i] = s[i]
               /\ i >= k => i + 1 \in 1..Len(s) /\ i + 1 # k /\ u[i] = s[i + 1]
               /\ i < k \/ i >= k
    BY <1>1, <1>3
  <1>6. \A m, n \in 1..Len(s) : s[m].id = s[n].id => m = n
    BY <1>1 DEF ListOne
  <1>7. ListIds(u) = ListIds(s) \ {s[k].id}
    <2>1. ASSUME NEW i \in 1..(Len(s) - 1) PROVE u[i].id \in ListIds(s) \ {s[k].id}
      BY <1>1, <1>5, <1>6, SMTT(30) DEF ListIds
    <2>2. ASSUME NEW i \in 1..Len(s), s[i].id # s[k].id PROVE s[i].id \in ListIds(u)
      <3>1. CASE i < k
        <4>1. i \in 1..(Len(s) - 1)
          BY <1>1, <3>1
        <4> QED
          BY <1>4, <1>5, <3>1, <4>1 DEF ListIds
      <3>2. CASE i > k
        <4>1. i - 1 \in 1..(Len(s) - 1) /\ i - 1 >= k /\ (i - 1) + 1 = i
          BY <1>1, <3>2
        <4>2. u[i - 1] = s[i]
          BY <1>5, <4>1
        <4> QED
          BY <1>4, <4>1, <4>2 DEF ListIds
      <3> QED
        BY <1>1, <2>2, <3>1, <3>2
    <2> QED
      BY <1>1, <1>4, <2>1, <2>2 DEF ListIds
  <1>8. ASSUME NEW i \in 1..(Len(s) - 1), NEW j \in 1..(Len(s) - 1), u[i].id = u[j].id
        PROVE  i = j
    <2>1. i \in Int /\ j \in Int /\ k \in Int
      BY <1>1
    <2>2. CASE i < k /\ j < k
      BY <1>5, <1>6, <1>8, <2>2
    <2>3. CASE i < k /\ j >= k
      <3>1. i = j + 1
        BY <1>5, <1>6, <1>8, <2>3
      <3> QED
        BY <2>1, <2>3, <3>1
    <2>4. CASE i >= k /\ j < k
      <3>1. i + 1 = j
        BY <1>5, <1>6, <1>8, <2>4
      <3> QED
        BY <2>1, <2>4, <3>1
    <2>5. CASE i >= k /\ j >= k
      <3>1. i + 1 = j + 1
        BY <1>5, <1>6, <1>8, <2>5
      <3> QED
        BY <2>1, <3>1
    <2> QED
      BY <2>1, <2>2, <2>3, <2>4, <2>5
  <1> QED
    BY <1>2, <1>4, <1>7, <1>8 DEF ListOne

LEMMA ListTail ==
  ASSUME NEW s \in Seq(Tasks), s # <<>>, ListOne(s)
  PROVE  ListOne(Tail(s)) /\ ListIds(Tail(s)) = ListIds(s) \ {Head(s).id}
  <1>1. /\ Len(s) \in Nat /\ Len(s) >= 1 /\ DOMAIN s = 1..Len(s) /\ Head(s) = s[1]
        /\ 1 \in 1..Len(s)
    BY LenProperties, EmptySeq, HeadTailProperties
  <1>2. Tail(s) = RemoveAt(s, 1)
    <2>1. /\ Tail(s) \in Seq(Tasks) /\ Len(Tail(s)) = Len(s) - 1
          /\ \A i \in 1..Len(Tail(s)) : Tail(s)[i] = s[i + 1]
      BY HeadTailProperties
    <2>2. PICK u : u = RemoveAt(s, 1)
      OBVIOUS
    <2>3. /\ u \in Seq(Tasks) /\ Len(u) = Len(s) - 1
          /\ \A i \in 1..(Len(s) - 1) : u[i] = IF i < 1 THEN s[i] ELSE s[i + 1]
      BY <1>1, <2>2, RemoveIs
    <2>4. PICK t : t = Tail(s)
      OBVIOUS
    <2>5. /\ t \in Seq(Tasks) /\ Len(t) = Len(s) - 1
          /\ \A i \in 1..Len(t) : t[i] = u[i]
      BY <1>1, <2>1, <2>3, <2>4
    <2>6. t = u
      BY ONLY <2>3, <2>5, SeqEqual
    <2> QED
      BY <2>2, <2>4, <2>6
  <1> QED
    BY <1>1, <1>2, ListTake

\* A task more on queue q, or a task less.
LEMMA ReadyPut ==
  ASSUME NEW B \in [Queue -> Seq(Tasks)], ReadyOne(B), NEW q \in Queue, NEW t \in Tasks,
         t.id \notin ReadyIds(B), NEW C, C = [B EXCEPT ![q] = Append(B[q], t)]
  PROVE  ReadyOne(C) /\ ReadyIds(C) = ReadyIds(B) \cup {t.id} /\ C \in [Queue -> Seq(Tasks)]
  <1>1. PICK u : u = Append(B[q], t)
    OBVIOUS
  <1>2. u \in Seq(Tasks) /\ Placed(B[q], t, u)
    BY <1>1, AppendProperties, AppendPlaces
  <1>3. C \in [Queue -> Seq(Tasks)] /\ C[q] = u /\ \A p \in Queue \ {q} : C[p] = B[p]
    BY <1>1, <1>2
  <1>4. ListOne(B[q]) /\ t.id \notin ListIds(B[q])
    BY DEF ReadyOne, ReadyIds
  <1>5. ListOne(u) /\ ListIds(u) = ListIds(B[q]) \cup {t.id}
    BY <1>2, <1>4, ListPut
  <1>6. ReadyIds(C) = ReadyIds(B) \cup {t.id}
    <2>1. \A p \in Queue : ListIds(C[p]) = ListIds(B[p]) \cup (IF p = q THEN {t.id} ELSE {})
      BY <1>3, <1>5
    <2>2. ReadyIds(C) \subseteq ReadyIds(B) \cup {t.id}
      BY <2>1 DEF ReadyIds
    <2>3. ReadyIds(B) \subseteq ReadyIds(C) /\ t.id \in ReadyIds(C)
      BY <2>1 DEF ReadyIds
    <2> QED
      BY <2>2, <2>3
  <1>7. \A p \in Queue : ListOne(C[p])
    BY <1>3, <1>5 DEF ReadyOne
  <1>8. ASSUME NEW p \in Queue, NEW r \in Queue, p # r
        PROVE  ListIds(C[p]) \cap ListIds(C[r]) = {}
    <2>1. /\ ListIds(B[p]) \cap ListIds(B[r]) = {}
          /\ t.id \notin ListIds(B[p]) /\ t.id \notin ListIds(B[r])
      BY <1>8 DEF ReadyOne, ReadyIds
    <2>2. /\ ListIds(C[p]) = ListIds(B[p]) \cup (IF p = q THEN {t.id} ELSE {})
          /\ ListIds(C[r]) = ListIds(B[r]) \cup (IF r = q THEN {t.id} ELSE {})
      BY <1>3, <1>5
    <2> QED
      BY <1>8, <2>1, <2>2
  <1> QED
    BY <1>3, <1>6, <1>7, <1>8 DEF ReadyOne

OneLess(B, C, q, u, id) ==
  /\ B \in [Queue -> Seq(Tasks)] /\ ReadyOne(B) /\ q \in Queue /\ u \in Seq(Tasks)
  /\ ListOne(u) /\ ListIds(u) = ListIds(B[q]) \ {id} /\ id \in ListIds(B[q])
  /\ C = [B EXCEPT ![q] = u]

LEMMA ReadyTake ==
  ASSUME NEW B, NEW C, NEW q, NEW u, NEW id, OneLess(B, C, q, u, id)
  PROVE  ReadyOne(C) /\ ReadyIds(C) = ReadyIds(B) \ {id} /\ id \in ReadyIds(B)
  <1>0. /\ B \in [Queue -> Seq(Tasks)] /\ ReadyOne(B) /\ q \in Queue /\ u \in Seq(Tasks)
        /\ ListOne(u) /\ ListIds(u) = ListIds(B[q]) \ {id} /\ id \in ListIds(B[q])
        /\ C = [B EXCEPT ![q] = u]
    BY DEF OneLess
  <1>1. C \in [Queue -> Seq(Tasks)] /\ C[q] = u /\ \A p \in Queue \ {q} : C[p] = B[p]
    BY <1>0
  <1>2. \A p \in Queue \ {q} : id \notin ListIds(B[p])
    BY <1>0 DEF ReadyOne
  <1>3. \A p \in Queue : ListIds(C[p]) = ListIds(B[p]) \ {id}
    BY <1>0, <1>1, <1>2
  <1>4. ReadyIds(C) = ReadyIds(B) \ {id} /\ id \in ReadyIds(B)
    BY <1>0, <1>3 DEF ReadyIds
  <1>5. \A p \in Queue : ListOne(C[p])
    BY <1>0, <1>1 DEF ReadyOne
  <1>6. \A p, r \in Queue : p # r => ListIds(B[p]) \cap ListIds(B[r]) = {}
    BY <1>0 DEF ReadyOne
  <1> QED
    BY <1>3, <1>4, <1>5, <1>6 DEF ReadyOne

\* Queues that are freed have no ready task.
LEMMA ReadyFewer ==
  ASSUME NEW B, NEW C, ReadyOne(B), \A q \in Queue : C[q] = B[q] \/ C[q] = <<>>
  PROVE  ReadyOne(C) /\ ReadyIds(C) \subseteq ReadyIds(B)
  <1>1. ListIds(<<>>) = {} /\ ListOne(<<>>)
    <2>1. DOMAIN <<>> = {}
      OBVIOUS
    <2> QED
      BY <2>1 DEF ListIds, ListOne
  <1>2. \A q \in Queue : ListIds(C[q]) \subseteq ListIds(B[q])
    BY <1>1
  <1>3. \A q \in Queue : ListOne(C[q])
    BY <1>1 DEF ReadyOne
  <1>4. ReadyIds(C) \subseteq ReadyIds(B)
    BY <1>2 DEF ReadyIds
  <1>5. \A p, q \in Queue : p # q => ListIds(C[p]) \cap ListIds(C[q]) = {}
    <2>1. \A p, q \in Queue : p # q => ListIds(B[p]) \cap ListIds(B[q]) = {}
      BY DEF ReadyOne
    <2> QED
      BY <1>2, <2>1
  <1> QED
    BY <1>3, <1>4, <1>5 DEF ReadyOne

LEMMA ListJoin ==
  ASSUME NEW s \in Seq(Tasks), NEW t \in Seq(Tasks), ListOne(s), ListOne(t),
         ListIds(s) \cap ListIds(t) = {}
  PROVE  ListOne(s \o t) /\ ListIds(s \o t) = ListIds(s) \cup ListIds(t)
         /\ s \o t \in Seq(Tasks)
  <1>1. /\ Len(s) \in Nat /\ DOMAIN s = 1..Len(s) /\ Len(t) \in Nat /\ DOMAIN t = 1..Len(t)
    BY LenProperties
  <1>2. PICK u : u = s \o t
    OBVIOUS
  <1>3. /\ u \in Seq(Tasks) /\ Len(u) = Len(s) + Len(t)
        /\ \A i \in 1..(Len(s) + Len(t)) : u[i] = IF i <= Len(s) THEN s[i] ELSE t[i - Len(s)]
    BY <1>2, ConcatProperties
  <1>4. DOMAIN u = 1..(Len(s) + Len(t))
    BY <1>3, LenProperties
  <1>5. ASSUME NEW i \in 1..(Len(s) + Len(t))
        PROVE  /\ i <= Len(s) => i \in 1..Len(s) /\ u[i] = s[i]
               /\ i > Len(s) => i - Len(s) \in 1..Len(t) /\ u[i] = t[i - Len(s)]
               /\ i <= Len(s) \/ i > Len(s)
    BY <1>1, <1>3
  <1>6. ListIds(u) = ListIds(s) \cup ListIds(t)
    <2>1. ASSUME NEW i \in 1..(Len(s) + Len(t)) PROVE u[i].id \in ListIds(s) \cup ListIds(t)
      BY <1>1, <1>5 DEF ListIds
    <2>2. ASSUME NEW i \in 1..Len(s) PROVE s[i].id \in ListIds(u)
      <3>1. i \in 1..(Len(s) + Len(t)) /\ i <= Len(s)
        BY <1>1
      <3> QED
        BY <1>4, <1>5, <3>1 DEF ListIds
    <2>3. ASSUME NEW i \in 1..Len(t) PROVE t[i].id \in ListIds(u)
      <3>1. i + Len(s) \in 1..(Len(s) + Len(t)) /\ i + Len(s) > Len(s)
            /\ (i + Len(s)) - Len(s) = i
        BY <1>1
      <3>2. u[i + Len(s)] = t[i]
        BY <1>5, <3>1
      <3> QED
        BY <1>4, <3>1, <3>2 DEF ListIds
    <2> QED
      BY <1>1, <1>4, <2>1, <2>2, <2>3 DEF ListIds
  <1>7. ASSUME NEW i \in 1..(Len(s) + Len(t)), NEW j \in 1..(Len(s) + Len(t)), u[i].id = u[j].id
        PROVE  i = j
    <2>1. /\ \A m, n \in 1..Len(s) : s[m].id = s[n].id => m = n
          /\ \A m, n \in 1..Len(t) : t[m].id = t[n].id => m = n
          /\ \A m \in 1..Len(s), n \in 1..Len(t) : s[m].id # t[n].id
      <3>1. \A m \in 1..Len(s) : s[m].id \in ListIds(s)
        BY <1>1 DEF ListIds
      <3>2. \A m \in 1..Len(t) : t[m].id \in ListIds(t)
        BY <1>1 DEF ListIds
      <3>3. \A m \in 1..Len(s), n \in 1..Len(t) : s[m].id # t[n].id
        BY <3>1, <3>2
      <3> QED
        BY <1>1, <3>3 DEF ListOne
    <2>2. CASE i <= Len(s) /\ j <= Len(s)
      BY <1>5, <1>7, <2>1, <2>2
    <2>3. CASE i > Len(s) /\ j > Len(s)
      <3>1. i - Len(s) = j - Len(s)
        BY <1>5, <1>7, <2>1, <2>3, SMTT(30)
      <3> QED
        BY <1>1, <3>1
    <2>4. CASE (i <= Len(s) /\ j > Len(s)) \/ (i > Len(s) /\ j <= Len(s))
      BY <1>5, <1>7, <2>1, <2>4, SMTT(30)
    <2> QED
      BY <1>5, <2>2, <2>3, <2>4
  <1> QED
    BY <1>2, <1>3, <1>4, <1>6, <1>7 DEF ListOne

LEMMA ReadyJoin ==
  ASSUME NEW B \in [Queue -> Seq(Tasks)], ReadyOne(B), NEW C, Joined(B, C)
  PROVE  C \in [Queue -> Seq(Tasks)] /\ ReadyOne(C) /\ ReadyIds(C) = ReadyIds(B)
  <1>1. CASE C = B
    BY <1>1
  <1>2. CASE \E from, to \in Queue : from # to /\ C = Join(B, from, to)
    <2>1. PICK from \in Queue, to \in Queue : from # to /\ C = Join(B, from, to)
      BY <1>2
    <2>2. PICK u : u = B[to] \o B[from]
      OBVIOUS
    <2>3. /\ ListOne(u) /\ ListIds(u) = ListIds(B[to]) \cup ListIds(B[from])
          /\ u \in Seq(Tasks)
      <3>1. /\ B[to] \in Seq(Tasks) /\ B[from] \in Seq(Tasks) /\ ListOne(B[to])
            /\ ListOne(B[from]) /\ ListIds(B[to]) \cap ListIds(B[from]) = {}
        BY <2>1 DEF ReadyOne
      <3> QED
        BY ONLY <2>2, <3>1, ListJoin
    <2>4. PICK e : e = <<>>
      OBVIOUS
    <2>5. e \in Seq(Tasks) /\ ListIds(e) = {} /\ ListOne(e)
      <3>1. DOMAIN e = {} /\ e \in Seq(Tasks)
        BY <2>4
      <3> QED
        BY <3>1 DEF ListIds, ListOne
    <2>6. C = [B EXCEPT ![to] = u, ![from] = e]
      BY <2>1, <2>2, <2>4 DEF Join
    <2>7. /\ C \in [Queue -> Seq(Tasks)] /\ C[to] = u /\ C[from] = e
          /\ \A p \in Queue \ {from, to} : C[p] = B[p]
      BY <2>1, <2>3, <2>5, <2>6
    <2>8. \A p \in Queue : ListIds(C[p]) =
            IF p = to THEN ListIds(B[to]) \cup ListIds(B[from])
            ELSE IF p = from THEN {} ELSE ListIds(B[p])
      BY <2>3, <2>5, <2>7
    <2>9. \A p \in Queue : ListOne(C[p])
      BY <2>3, <2>5, <2>7 DEF ReadyOne
    <2>10. ReadyIds(C) = ReadyIds(B)
      BY <2>1, <2>8 DEF ReadyIds
    <2>11. \A p, q \in Queue : p # q => ListIds(C[p]) \cap ListIds(C[q]) = {}
      <3> SUFFICES ASSUME NEW p \in Queue, NEW q \in Queue, p # q
                   PROVE  ListIds(C[p]) \cap ListIds(C[q]) = {}
        OBVIOUS
      <3>1. \A a, b \in Queue : a # b => ListIds(B[a]) \cap ListIds(B[b]) = {}
        BY DEF ReadyOne
      <3> QED
        BY <2>8, <3>1
    <2> QED
      BY <2>7, <2>9, <2>10, <2>11 DEF ReadyOne
  <1> QED
    BY <1>1, <1>2 DEF Joined

LEMMA BgType ==
  ASSUME NEW w \in Worlds
  PROVE  Bg(w) \in [Queue -> Seq(Tasks)] /\ Rd(w) \in [Queue -> TaskId \cup {0}]
  <1>1. <<>> \in Seq(Tasks)
    OBVIOUS
  <1>2. \A q \in Queue : w.queue[q].bg \in Seq(Tasks) /\ w.queue[q].reading.id \in TaskId \cup {0}
    <2>1. NoVm.id = 0
      BY DEF NoVm
    <2>2. \A q \in Queue : w.queue[q].bg \in Seq(Tasks) /\ w.queue[q].reading \in Vms \cup {NoVm}
      BY WorldFields, RowFields
    <2> QED
      BY <2>1, <2>2 DEF Vms
  <1> QED
    BY <1>1, <1>2 DEF Bg, Rd

LEMMA ReadiedOne ==
  ASSUME NEW x \in Worlds, NEW y, NEW q, NEW t \in Tasks, Readied(x, y, q, t),
         ReadyOne(Bg(x)), t.id \notin ReadyIds(Bg(x))
  PROVE  ReadyOne(Bg(y)) /\ ReadyIds(Bg(y)) = ReadyIds(Bg(x)) \cup {t.id} /\ Rd(y) = Rd(x)
  <1>1. PICK B : B = Bg(x)
    OBVIOUS
  <1>2. PICK C : C = Bg(y)
    OBVIOUS
  <1>3. B \in [Queue -> Seq(Tasks)] /\ ReadyOne(B) /\ t.id \notin ReadyIds(B) /\ t \in Tasks
    BY <1>1, BgType
  <1>4. q \in Queue /\ C = [B EXCEPT ![q] = Append(B[q], t)] /\ Rd(y) = Rd(x)
    BY <1>1, <1>2 DEF Readied
  <1>5. ReadyOne(C) /\ ReadyIds(C) = ReadyIds(B) \cup {t.id}
    BY ONLY <1>3, <1>4, ReadyPut
  <1> QED
    BY <1>1, <1>2, <1>4, <1>5

-----------------------------------------------------------------------------
(* What the queues count.                                                  *)

Owners == User \cup Conn

\* The places of p's tasks in a list, and how many each player has there.
Mine(s, p) == {i \in DOMAIN s : s[i].progr = p}
Waits(s) == [p \in Owners |-> Cardinality(Mine(s, p))]

\* The workloads in which no task waits for a line.
NobodyReads == \A work \in Workloads : work.calls \cap {"read", "read_http"} = {}

\* Whether queued_task_limit is kept to.  A restart queues the tasks that were
\* reading, which the limit does not count: there must be no restart or no reader.
Limited == TaskLimit >= 0 /\ (OneLifetime \/ NobodyReads)

\* The queue of player p counts n tasks: the ready ones b, all p's, and k others.
Paid(p, n, b, k) ==
  /\ n = Len(b) + k
  /\ \A i \in DOMAIN b : b[i].progr = p
  /\ Limited => n <= TaskLimit

\* Every queue counts its tasks and the T[p] that its player p has elsewhere, a
\* player who has some has a queue, and a queue without a player has no task.
Balanced(w, T) ==
  /\ T \in [Owners -> Nat]
  /\ \A q \in Queue :
       Pl(w)[q] # NOTHING => Paid(Pl(w)[q], Nb(w)[q], Bg(w)[q], T[Pl(w)[q]])
  /\ \A p \in Owners : T[p] # 0 => \E q \in Queue : Pl(w)[q] = p
  /\ \A q \in Queue : Pl(w)[q] = NOTHING => Bg(w)[q] = <<>>
Booked(w) == Balanced(w, Waits(w.waiting))

\* U is T with one more task of p, and a task of p is no longer counted.
WithOne(T, p, U) == T \in [Owners -> Nat] /\ U = [T EXCEPT ![p] = T[p] + 1]
Dropped(w, v, p) ==
  /\ Pl(v) = Pl(w) /\ Bg(v) = Bg(w)
  /\ \A r \in Queue : Nb(v)[r] = IF Pl(w)[r] = p THEN Nb(w)[r] - 1 ELSE Nb(w)[r]

LEMMA MineIs ==
  ASSUME NEW s \in Seq(Tasks), NEW p
  PROVE  /\ IsFiniteSet(Mine(s, p)) /\ Cardinality(Mine(s, p)) \in Nat
         /\ Mine(s, p) \subseteq 1..Len(s) /\ Len(s) \in Nat /\ DOMAIN s = 1..Len(s)
  <1>1. Len(s) \in Nat /\ DOMAIN s = 1..Len(s)
    BY LenProperties
  <1>2. Mine(s, p) \in SUBSET (1..Len(s))
    BY <1>1 DEF Mine
  <1>3. IsFiniteSet(1..Len(s))
    BY <1>1, FS_Interval
  <1>4. IsFiniteSet(Mine(s, p))
    BY <1>2, <1>3, FS_Subset
  <1> QED
    BY <1>1, <1>2, <1>4, FS_CardinalityType

LEMMA WaitsType ==
  ASSUME NEW s \in Seq(Tasks)
  PROVE  Waits(s) \in [Owners -> Nat]
  BY MineIs DEF Waits

LEMMA MinePlaced ==
  ASSUME NEW s \in Seq(Tasks), NEW e \in Tasks, NEW t, Placed(s, e, t), NEW p
  PROVE  Cardinality(Mine(t, p)) = Cardinality(Mine(s, p)) + (IF e.progr = p THEN 1 ELSE 0)
  <1>1. /\ IsFiniteSet(Mine(s, p)) /\ Cardinality(Mine(s, p)) \in Nat
        /\ Len(s) \in Nat /\ DOMAIN s = 1..Len(s)
    BY MineIs
  <1>2. PICK k \in 1..(Len(s) + 1) :
          t = [i \in 1..(Len(s) + 1) |-> IF i < k THEN s[i]
                                        ELSE IF i = k THEN e ELSE s[i - 1]]
    BY DEF Placed
  <1>3. PICK l : l = Len(s)
    OBVIOUS
  <1>4. /\ l \in Nat /\ k \in 1..(l + 1) /\ DOMAIN s = 1..l /\ DOMAIN t = 1..(l + 1)
        /\ \A i \in 1..(l + 1) : t[i] = IF i < k THEN s[i]
                                        ELSE IF i = k THEN e ELSE s[i - 1]
    BY <1>1, <1>2, <1>3
  <1>5. PICK g : g = [i \in 1..l |-> IF i < k THEN i ELSE i + 1]
    OBVIOUS
  <1>6. /\ \A i \in 1..l : g[i] \in 1..(l + 1) /\ g[i] # k /\ t[g[i]] = s[i]
        /\ \A i, j \in 1..l : g[i] = g[j] => i = j
    <2>1. \A i \in 1..l : (i < k => g[i] = i) /\ (~(i < k) => g[i] = i + 1)
      BY <1>5
    <2>2. \A i \in 1..l : i \in 1..(l + 1) /\ i + 1 \in 1..(l + 1)
      BY <1>4
    <2>3. ASSUME NEW i \in 1..l PROVE g[i] \in 1..(l + 1) /\ g[i] # k /\ t[g[i]] = s[i]
      <3>1. CASE i < k
        BY <1>4, <2>1, <2>2, <3>1
      <3>2. CASE ~(i < k)
        <4>1. ~(i + 1 < k) /\ i + 1 # k /\ (i + 1) - 1 = i
          BY <1>4, <3>2
        <4> QED
          BY <1>4, <2>1, <2>2, <3>2, <4>1
      <3> QED
        BY <3>1, <3>2
    <2>4. ASSUME NEW i \in 1..l, NEW j \in 1..l, g[i] = g[j] PROVE i = j
      BY <1>4, <2>1, <2>4
    <2> QED
      BY <2>3, <2>4
  <1>7. \A j \in 1..(l + 1) : j # k => \E i \in 1..l : g[i] = j
    <2> SUFFICES ASSUME NEW j \in 1..(l + 1), j # k PROVE \E i \in 1..l : g[i] = j
      OBVIOUS
    <2>1. CASE j < k
      <3>1. j \in 1..l
        BY <1>4, <2>1
      <3> QED
        BY <1>5, <2>1, <3>1
    <2>2. CASE j > k
      <3>1. j - 1 \in 1..l /\ ~(j - 1 < k) /\ (j - 1) + 1 = j
        BY <1>4, <2>2
      <3> QED
        BY <1>5, <3>1
    <2> QED
      BY <1>4, <2>1, <2>2
  <1> DEFINE A == Mine(s, p)
             B == Mine(t, p) \ {k}
  <1>8. PICK f : f = [i \in A |-> g[i]]
    OBVIOUS
  <1>9. f \in Bijection(A, B)
    <2>1. A \subseteq 1..l /\ B \subseteq 1..(l + 1)
      BY <1>4 DEF Mine
    <2>2. \A i \in A : f[i] \in B
      BY <1>4, <1>6, <1>8, <2>1 DEF Mine
    <2>3. \A i, j \in A : f[i] = f[j] => i = j
      BY <1>6, <1>8, <2>1
    <2>4. ASSUME NEW j \in B PROVE \E i \in A : f[i] = j
      <3>1. j \in 1..(l + 1) /\ j # k /\ t[j].progr = p
        BY <2>1 DEF Mine
      <3>2. PICK i \in 1..l : g[i] = j
        BY <1>7, <3>1
      <3>3. s[i] = t[j]
        BY <1>6, <3>2
      <3>4. i \in A
        BY <1>4, <3>1, <3>3 DEF Mine
      <3> QED
        BY <1>8, <3>2, <3>4
    <2>5. f \in [A -> B]
      BY <1>8, <2>2
    <2> HIDE DEF A, B
    <2>6. f \in Injection(A, B)
      BY <2>3, <2>5 DEF Injection, IsInjective
    <2>7. f \in Surjection(A, B)
      BY <2>4, <2>5 DEF Surjection
    <2> QED
      BY <2>6, <2>7 DEF Bijection
  <1>10. IsFiniteSet(B) /\ Cardinality(B) = Cardinality(A)
    <2> HIDE DEF B
    <2>1. IsFiniteSet(A)
      BY <1>1
    <2> HIDE DEF A
    <2>2. ExistsBijection(A, B)
      BY <1>9 DEF ExistsBijection
    <2> QED
      BY <2>1, <2>2, FS_Bijection
  <1>11. t[k] = e /\ k \in DOMAIN t
    BY <1>4
  <1>12. CASE e.progr = p
    <2>1. Mine(t, p) = B \cup {k} /\ k \notin B
      BY <1>11, <1>12 DEF Mine
    <2>2. Cardinality(B \cup {k}) = Cardinality(B) + 1
      <3> HIDE DEF B
      <3> QED
        BY <1>10, <2>1, FS_AddElement
    <2> QED
      BY <1>10, <1>12, <2>1, <2>2
  <1>13. CASE e.progr # p
    <2>1. Mine(t, p) = B
      BY <1>11, <1>13 DEF Mine
    <2>2. Cardinality(Mine(s, p)) + 0 = Cardinality(Mine(s, p))
      BY <1>1
    <2> QED
      BY <1>10, <1>13, <2>1, <2>2
  <1> QED
    BY <1>12, <1>13

LEMMA WaitsPlaced ==
  ASSUME NEW s \in Seq(Tasks), NEW e \in Tasks, NEW t, Placed(s, e, t)
  PROVE  /\ e.progr \in Owners
         /\ Waits(t) = [Waits(s) EXCEPT ![e.progr] = Waits(s)[e.progr] + 1]
  <1>1. e.progr \in Owners
    BY DEF Tasks, Owners
  <1>2. \A p \in Owners : /\ Waits(t)[p] = Waits(s)[p] + (IF e.progr = p THEN 1 ELSE 0)
                          /\ Waits(s)[p] \in Nat
    BY MinePlaced, MineIs DEF Waits
  <1>3. \A p \in Owners : /\ e.progr = p => Waits(t)[p] = Waits(s)[p] + 1
                          /\ e.progr # p => Waits(t)[p] = Waits(s)[p]
    BY <1>2
  <1> QED
    BY <1>1, <1>3 DEF Waits

LEMMA RemovePlaced ==
  ASSUME NEW s \in Seq(Tasks), NEW i \in 1..Len(s)
  PROVE  RemoveAt(s, i) \in Seq(Tasks) /\ Placed(RemoveAt(s, i), s[i], s)
  <1>1. PICK u : u = RemoveAt(s, i)
    OBVIOUS
  <1>2. PICK l : l = Len(s)
    OBVIOUS
  <1>3. /\ u \in Seq(Tasks) /\ Len(u) = l - 1 /\ l \in Nat /\ i \in 1..l
        /\ \A k \in 1..(l - 1) : u[k] = IF k < i THEN s[k] ELSE s[k + 1]
    BY <1>1, <1>2, RemoveIs, LenProperties
  <1>4. Len(u) + 1 = l /\ i \in 1..(Len(u) + 1)
    BY ONLY <1>3
  <1>5. ASSUME NEW k \in 1..l
        PROVE  s[k] = IF k < i THEN u[k] ELSE IF k = i THEN s[i] ELSE u[k - 1]
    <2>1. CASE k < i
      <3>1. k \in 1..(l - 1)
        BY ONLY <1>3, <1>5, <2>1
      <3> QED
        BY <1>3, <2>1, <3>1
    <2>2. CASE k = i
      <3>1. ~(k < i)
        BY ONLY <1>3, <2>2
      <3> QED
        BY <2>2, <3>1
    <2>3. CASE k > i
      <3>1. k - 1 \in 1..(l - 1) /\ ~(k - 1 < i) /\ (k - 1) + 1 = k /\ ~(k < i) /\ k # i
        BY ONLY <1>3, <1>5, <2>3
      <3> QED
        BY <1>3, <3>1
    <2> QED
      BY ONLY <1>3, <1>5, <2>1, <2>2, <2>3
  <1>6. s = [k \in 1..l |-> s[k]]
    <2>1. DOMAIN s = 1..l
      BY <1>2, LenProperties
    <2> QED
      BY <2>1
  <1>7. s = [k \in 1..(Len(u) + 1) |-> IF k < i THEN u[k] ELSE IF k = i THEN s[i] ELSE u[k - 1]]
    BY ONLY <1>4, <1>5, <1>6
  <1>8. Placed(u, s[i], s)
    BY ONLY <1>4, <1>7 DEF Placed
  <1> QED
    BY <1>1, <1>3, <1>8

LEMMA WaitsNone ==
  Waits(<<>>) = [p \in Owners |-> 0]
  <1>1. \A p \in Owners : Mine(<<>>, p) = {}
    BY DEF Mine
  <1> QED
    BY <1>1, FS_EmptySet DEF Waits

LEMMA OneOwner ==
  ASSUME NEW v \in Worlds, OneQueue(v)
  PROVE  /\ \A r, s \in Queue : Pl(v)[r] = Pl(v)[s] => r = s \/ Pl(v)[r] = NOTHING
         /\ \A r \in Queue : Pl(v)[r] # NOTHING => Pl(v)[r] \in Owners
         /\ \A r \in Queue : Nb(v)[r] \in Int /\ Len(Bg(v)[r]) \in Nat /\ Bg(v)[r] \in Seq(Tasks)
         /\ NOTHING \notin Owners
  <1>1. \A r \in Queue : /\ v.queue[r].player \in Owners \cup {NOTHING}
                         /\ v.queue[r].num_bg \in Int
    BY WorldFields, RowFields DEF Owners
  <1>2. \A r \in Queue : Pl(v)[r] \in Owners \cup {NOTHING} /\ Nb(v)[r] \in Int
    BY <1>1 DEF Pl, Nb
  <1>3. \A r \in Queue : Len(Bg(v)[r]) \in Nat /\ Bg(v)[r] \in Seq(Tasks)
    BY BgType, LenProperties
  <1>4. NOTHING \notin Owners
    BY TaskAssumption DEF Owners
  <1>5. \A r, s \in Queue : Pl(v)[r] = Pl(v)[s] => r = s \/ Pl(v)[r] = NOTHING
    BY DEF OneQueue, Pl
  <1> QED
    BY <1>2, <1>3, <1>4, <1>5

LEMMA OneOff ==
  /\ \A a, k \in Nat : /\ a + (k + 1) = (a + 1) + k
                       /\ (a + (k + 1)) - 1 = a + k
                       /\ (a + k) - 1 = (a - 1) + k
  /\ \A n \in Int : n <= TaskLimit => n - 1 <= TaskLimit
  <1>1. TaskLimit \in Int
    BY TaskAssumption
  <1> QED
    BY ONLY <1>1

LEMMA PaidNone ==
  ASSUME NEW p
  PROVE  Paid(p, 0, <<>>, 0)
  <1>1. Len(<<>>) = 0 /\ DOMAIN <<>> = {} /\ 0 = 0 + 0
    OBVIOUS
  <1>2. Limited => 0 <= TaskLimit
    BY TaskAssumption DEF Limited
  <1> QED
    BY <1>1, <1>2 DEF Paid

LEMMA TidyBooks ==
  ASSUME NEW w \in Worlds, OneQueue(w), NEW T, Balanced(w, T)
  PROVE  Tidy(w)
  <1> SUFFICES ASSUME NEW q \in Queue, Pl(w)[q] # NOTHING, Nb(w)[q] = 0
               PROVE  Bg(w)[q] = <<>>
    BY DEF Tidy
  <1>1. Len(Bg(w)[q]) \in Nat /\ Bg(w)[q] \in Seq(Tasks) /\ Pl(w)[q] \in Owners
    BY OneOwner
  <1>2. T[Pl(w)[q]] \in Nat /\ Nb(w)[q] = Len(Bg(w)[q]) + T[Pl(w)[q]]
    BY <1>1 DEF Balanced, Paid
  <1>3. Len(Bg(w)[q]) = 0
    BY <1>1, <1>2
  <1> QED
    BY <1>1, <1>3, EmptySeq

LEMMA CarriedBooks ==
  ASSUME NEW w \in Worlds, OneQueue(w), NEW v \in Worlds, OneQueue(v), Carried(w, v),
         NEW T, Balanced(w, T)
  PROVE  Balanced(v, T)
  <1>1. T \in [Owners -> Nat]
    BY DEF Balanced
  <1>2. ASSUME NEW s \in Queue, Pl(v)[s] # NOTHING
        PROVE  Paid(Pl(v)[s], Nb(v)[s], Bg(v)[s], T[Pl(v)[s]])
    <2>1. CASE \E r \in Queue : /\ Pl(w)[r] = Pl(v)[s]
                                /\ Nb(v)[s] = Nb(w)[r] /\ Bg(v)[s] = Bg(w)[r]
      <3>1. PICK r \in Queue : /\ Pl(w)[r] = Pl(v)[s]
                               /\ Nb(v)[s] = Nb(w)[r] /\ Bg(v)[s] = Bg(w)[r]
        BY <2>1
      <3>2. Paid(Pl(w)[r], Nb(w)[r], Bg(w)[r], T[Pl(w)[r]])
        BY <1>2, <3>1 DEF Balanced
      <3> QED
        BY <3>1, <3>2
    <2>2. CASE Nb(v)[s] = 0 /\ Bg(v)[s] = <<>> /\ \A r \in Queue : Pl(w)[r] # Pl(v)[s]
      <3>1. Pl(v)[s] \in Owners
        BY <1>2, OneOwner
      <3>2. T[Pl(v)[s]] = 0
        BY <2>2, <3>1 DEF Balanced
      <3> QED
        BY <2>2, <3>2, PaidNone
    <2> QED
      BY <1>2, <2>1, <2>2 DEF Carried
  <1>3. ASSUME NEW p \in Owners, T[p] # 0 PROVE \E s \in Queue : Pl(v)[s] = p
    <2>1. PICK r \in Queue : Pl(w)[r] = p
      BY <1>3 DEF Balanced
    <2>2. p # NOTHING /\ Len(Bg(w)[r]) \in Nat
      BY OneOwner
    <2>3. Nb(w)[r] = Len(Bg(w)[r]) + T[p]
      BY <2>1, <2>2 DEF Balanced, Paid
    <2>4. Nb(w)[r] # 0
      BY <1>1, <1>3, <2>2, <2>3
    <2> QED
      BY <2>1, <2>2, <2>4 DEF Carried
  <1>4. ASSUME NEW s \in Queue, Pl(v)[s] = NOTHING PROVE Bg(v)[s] = <<>>
    <2>1. Tidy(w)
      BY TidyBooks
    <2>2. Pl(w)[s] = NOTHING \/ Nb(w)[s] = 0 => Bg(w)[s] = <<>>
      BY <2>1 DEF Tidy, Balanced
    <2> QED
      BY <1>4, <2>2 DEF Carried
  <1> QED
    BY <1>1, <1>2, <1>3, <1>4 DEF Balanced

\* A queue without a player in w has one in v: nobody counted on it.
LEMMA OpenedPaid ==
  ASSUME NEW w, NEW v \in Worlds, OneQueue(v), Opened(w, v), NEW T, Balanced(w, T),
         NEW s \in Queue, Pl(v)[s] # NOTHING
  PROVE  /\ Pl(v)[s] \in Owners
         /\ Paid(Pl(v)[s], Nb(w)[s], Bg(w)[s], T[Pl(v)[s]])
  <1>1. /\ Pl(v)[s] \in Owners /\ NOTHING \notin Owners
        /\ \A r \in Queue : Pl(v)[r] = Pl(v)[s] => r = s
    BY OneOwner
  <1>2. CASE Pl(v)[s] = Pl(w)[s]
    <2>1. Paid(Pl(w)[s], Nb(w)[s], Bg(w)[s], T[Pl(w)[s]])
      BY <1>2 DEF Balanced
    <2> QED
      BY <1>1, <1>2, <2>1
  <1>3. CASE Pl(v)[s] # Pl(w)[s]
    <2>1. Pl(w)[s] = NOTHING /\ Nb(w)[s] = 0 /\ Bg(w)[s] = <<>>
      BY <1>3 DEF Opened
    <2>2. \A r \in Queue : Pl(w)[r] # Pl(v)[s]
      BY <1>1, <1>3 DEF Opened
    <2>3. T[Pl(v)[s]] = 0
      BY <1>1, <2>2 DEF Balanced
    <2> QED
      BY <1>1, <2>1, <2>3, PaidNone
  <1> QED
    BY <1>2, <1>3

LEMMA OpenedFound ==
  ASSUME NEW w, NEW v, Opened(w, v), NOTHING \notin Owners, NEW T, Balanced(w, T),
         NEW p \in Owners, T[p] # 0
  PROVE  \E r \in Queue : Pl(w)[r] = p /\ Pl(v)[r] = p
  BY DEF Opened, Balanced

\* A task that waited is ready.
LEMMA ReadiedBooks ==
  ASSUME NEW w \in Worlds, NEW v \in Worlds, OneQueue(v), NEW q, NEW t \in Tasks,
         Readied(w, v, q, t), NEW T, NEW U, WithOne(T, t.progr, U), Balanced(w, U)
  PROVE  Balanced(v, T)
  <1> USE DEF WithOne
  <1>1. /\ q \in Queue /\ Nb(v) = Nb(w) /\ Opened(w, v) /\ Pl(v)[q] = t.progr
        /\ Bg(v) = [Bg(w) EXCEPT ![q] = Append(Bg(w)[q], t)]
    BY DEF Readied
  <1>2. /\ t.progr \in Owners /\ U[t.progr] = T[t.progr] + 1 /\ U[t.progr] # 0
        /\ \A p \in Owners : p # t.progr => U[p] = T[p]
    BY DEF Tasks, Owners
  <1>3. /\ NOTHING \notin Owners /\ Bg(w)[q] \in Seq(Tasks) /\ Len(Bg(w)[q]) \in Nat
        /\ Bg(w) \in [Queue -> Seq(Tasks)]
        /\ \A r, s \in Queue : Pl(v)[r] = Pl(v)[s] => r = s \/ Pl(v)[r] = NOTHING
    BY <1>1, OneOwner, BgType, LenProperties
  <1>4. ASSUME NEW s \in Queue, Pl(v)[s] # NOTHING
        PROVE  Paid(Pl(v)[s], Nb(v)[s], Bg(v)[s], T[Pl(v)[s]])
    <2>1. Pl(v)[s] \in Owners /\ Paid(Pl(v)[s], Nb(w)[s], Bg(w)[s], U[Pl(v)[s]])
      BY <1>1, <1>4, OpenedPaid
    <2>2. CASE s # q
      <3>1. Pl(v)[s] # t.progr
        BY <1>1, <1>3, <1>4, <2>2
      <3>2. Bg(v)[s] = Bg(w)[s]
        BY <1>1, <1>3, <2>2
      <3> QED
        BY <1>1, <1>2, <2>1, <3>1, <3>2
    <2>3. CASE s = q
      <3>1. PICK b : b = Bg(w)[q]
        OBVIOUS
      <3>2. PICK c : c = Append(b, t)
        OBVIOUS
      <3>3. Bg(v)[s] = c
        BY <1>1, <1>3, <2>3, <3>1, <3>2
      <3>4. Paid(t.progr, Nb(w)[s], b, T[t.progr] + 1) /\ b \in Seq(Tasks) /\ Len(b) \in Nat
        BY <1>1, <1>2, <1>3, <2>1, <2>3, <3>1
      <3>5. /\ c \in Seq(Tasks) /\ Len(c) = Len(b) + 1 /\ c[Len(b) + 1] = t
            /\ \A i \in 1..Len(b) : c[i] = b[i]
        BY <3>2, <3>4, AppendProperties
      <3>6. DOMAIN c = 1..(Len(b) + 1) /\ DOMAIN b = 1..Len(b)
        BY <3>4, <3>5, LenProperties
      <3>7. \A i \in 1..(Len(b) + 1) : i \in 1..Len(b) \/ i = Len(b) + 1
        BY <3>4
      <3>8. \A i \in DOMAIN c : c[i].progr = t.progr
        BY <3>4, <3>5, <3>6, <3>7 DEF Paid
      <3>9. Nb(w)[s] = Len(c) + T[t.progr]
        <4>1. Nb(w)[s] = Len(b) + (T[t.progr] + 1) /\ T[t.progr] \in Nat
          BY <1>2, <3>4 DEF Paid
        <4>2. Len(b) + (T[t.progr] + 1) = (Len(b) + 1) + T[t.progr]
          BY <3>4, <4>1, OneOff
        <4> QED
          BY ONLY <3>5, <4>1, <4>2
      <3> QED
        BY <1>1, <2>3, <3>3, <3>4, <3>8, <3>9 DEF Paid
    <2> QED
      BY <2>2, <2>3
  <1>5. ASSUME NEW p \in Owners, T[p] # 0 PROVE \E r \in Queue : Pl(v)[r] = p
    <2>1. U[p] # 0
      BY <1>2, <1>5
    <2>2. Opened(w, v) /\ NOTHING \notin Owners /\ Balanced(w, U)
      BY <1>1, <1>3
    <2> QED
      BY ONLY <2>1, <2>2, p \in Owners, OpenedFound
  <1>6. ASSUME NEW s \in Queue, Pl(v)[s] = NOTHING PROVE Bg(v)[s] = <<>>
    <2>1. s # q
      BY <1>1, <1>2, <1>3, <1>6
    <2>2. Bg(v)[s] = Bg(w)[s]
      BY <1>1, <1>3, <2>1
    <2> QED
      BY <1>1, <1>6, <2>2 DEF Opened, Balanced
  <1> QED
    BY <1>4, <1>5, <1>6 DEF Balanced

\* A task waits from now on.
LEMMA CountedBooks ==
  ASSUME NEW w \in Worlds, NEW v \in Worlds, OneQueue(v), NEW q \in Queue, NEW p \in Owners,
         Opened(w, v), Bg(v) = Bg(w), Pl(v)[q] = p,
         Nb(v) = [Nb(w) EXCEPT ![q] = Nb(w)[q] + 1], Limited => Nb(w)[q] < TaskLimit,
         NEW T, Balanced(w, T)
  PROVE  Balanced(v, [T EXCEPT ![p] = T[p] + 1])
  <1>1. PICK U : U = [T EXCEPT ![p] = T[p] + 1]
    OBVIOUS
  <1>2. /\ U \in [Owners -> Nat] /\ T \in [Owners -> Nat] /\ U[p] = T[p] + 1
        /\ \A o \in Owners : o # p => U[o] = T[o]
    BY <1>1 DEF Balanced
  <1>3. /\ NOTHING \notin Owners /\ TaskLimit \in Int
        /\ \A r, s \in Queue : Pl(v)[r] = Pl(v)[s] => r = s \/ Pl(v)[r] = NOTHING
        /\ \A r \in Queue : Len(Bg(w)[r]) \in Nat /\ Nb(w)[r] \in Int
    <2>1. \A r \in Queue : w.queue[r].num_bg \in Int
      BY WorldFields, RowFields
    <2>2. \A r \in Queue : Nb(w)[r] \in Int
      BY <2>1 DEF Nb
    <2> QED
      BY <2>2, OneOwner, TaskAssumption
  <1>4. ASSUME NEW s \in Queue, Pl(v)[s] # NOTHING
        PROVE  Paid(Pl(v)[s], Nb(v)[s], Bg(v)[s], U[Pl(v)[s]])
    <2>1. Pl(v)[s] \in Owners /\ Paid(Pl(v)[s], Nb(w)[s], Bg(w)[s], T[Pl(v)[s]])
      BY <1>4, OpenedPaid
    <2>2. CASE s # q
      <3>1. Pl(v)[s] # p /\ Nb(v)[s] = Nb(w)[s]
        BY <1>3, <1>4, <2>2 DEF Nb
      <3> QED
        BY <1>2, <2>1, <3>1
    <2>3. CASE s = q
      <3>1. Nb(v)[s] = Nb(w)[s] + 1
        BY <2>3 DEF Nb
      <3>2. Nb(w)[s] = Len(Bg(w)[s]) + T[p] /\ \A i \in DOMAIN Bg(w)[s] : Bg(w)[s][i].progr = p
        BY <2>1, <2>3 DEF Paid
      <3>3. Nb(v)[s] = Len(Bg(w)[s]) + U[p]
        BY <1>2, <1>3, <3>1, <3>2
      <3>4. Limited => Nb(v)[s] <= TaskLimit
        BY <1>3, <2>3, <3>1
      <3> QED
        BY <2>3, <3>2, <3>3, <3>4 DEF Paid
    <2> QED
      BY <2>2, <2>3
  <1>5. ASSUME NEW o \in Owners, U[o] # 0 PROVE \E r \in Queue : Pl(v)[r] = o
    <2>1. CASE o = p
      BY <2>1
    <2>2. CASE o # p
      <3>1. T[o] # 0
        BY <1>2, <1>5, <2>2
      <3> QED
        BY <1>3, <3>1, OpenedFound
    <2> QED
      BY <2>1, <2>2
  <1>7. \A s \in Queue : Pl(v)[s] = NOTHING => Bg(v)[s] = <<>>
    BY DEF Opened, Balanced
  <1>6. Balanced(v, U)
    BY <1>2, <1>4, <1>5, <1>7 DEF Balanced
  <1> QED
    BY <1>1, <1>6

\* A ready task leaves queue q for good: it starts, or it is killed.
LEMMA TookBooks ==
  ASSUME NEW w \in Worlds, OneQueue(w), NEW v, NEW q \in Queue, Pl(v) = Pl(w),
         Nb(v) = [Nb(w) EXCEPT ![q] = Nb(w)[q] - 1],
         NEW b, Bg(v) = [Bg(w) EXCEPT ![q] = b], Len(b) = Len(Bg(w)[q]) - 1, Len(b) \in Nat,
         \A i \in DOMAIN b : \E j \in DOMAIN Bg(w)[q] : b[i] = Bg(w)[q][j],
         NEW T, Balanced(w, T)
  PROVE  Balanced(v, T)
  <1>1. /\ T \in [Owners -> Nat] /\ TaskLimit \in Int
        /\ \A r \in Queue : Len(Bg(w)[r]) \in Nat /\ Nb(w)[r] \in Int
        /\ \A r \in Queue : Pl(w)[r] # NOTHING => Pl(w)[r] \in Owners
    BY OneOwner, TaskAssumption DEF Balanced
  <1>2. ASSUME NEW s \in Queue, Pl(v)[s] # NOTHING
        PROVE  Paid(Pl(v)[s], Nb(v)[s], Bg(v)[s], T[Pl(v)[s]])
    <2>1. Paid(Pl(v)[s], Nb(w)[s], Bg(w)[s], T[Pl(v)[s]]) /\ T[Pl(v)[s]] \in Nat
      BY <1>1, <1>2 DEF Balanced
    <2>2. CASE s # q
      <3>1. Nb(v)[s] = Nb(w)[s] /\ Bg(v)[s] = Bg(w)[s]
        BY <2>2 DEF Nb, Bg
      <3> QED
        BY <2>1, <3>1
    <2>3. CASE s = q
      <3>1. Nb(v)[s] = Nb(w)[s] - 1 /\ Bg(v)[s] = b
        BY <2>3 DEF Nb, Bg
      <3>2. /\ Nb(w)[s] = Len(Bg(w)[s]) + T[Pl(v)[s]]
            /\ Limited => Nb(w)[s] <= TaskLimit
            /\ \A j \in DOMAIN Bg(w)[s] : Bg(w)[s][j].progr = Pl(v)[s]
        BY <2>1 DEF Paid
      <3>3. \A i \in DOMAIN b : b[i].progr = Pl(v)[s]
        BY <2>3, <3>2
      <3>4. Nb(v)[s] = Len(b) + T[Pl(v)[s]] /\ (Limited => Nb(v)[s] <= TaskLimit)
        <4>1. (Len(Bg(w)[q]) + T[Pl(v)[s]]) - 1 = (Len(Bg(w)[q]) - 1) + T[Pl(v)[s]]
          BY <1>1, <2>1, OneOff
        <4>2. Limited => Nb(v)[s] <= TaskLimit
          BY <1>1, <3>1, <3>2, OneOff
        <4>3. Nb(v)[s] = (Len(Bg(w)[q]) + T[Pl(v)[s]]) - 1
          BY <2>3, <3>1, <3>2
        <4> QED
          BY <4>1, <4>2, <4>3
      <3> QED
        BY <3>1, <3>3, <3>4 DEF Paid
    <2> QED
      BY <2>2, <2>3
  <1>3. \A s \in Queue : Pl(v)[s] = NOTHING => Bg(v)[s] = <<>>
    <2>1. Bg(w)[q] # <<>>
      <3>1. Len(<<>>) = 0
        OBVIOUS
      <3> QED
        BY <3>1
    <2>2. Pl(w)[q] # NOTHING
      BY <2>1 DEF Balanced
    <2>3. \A s \in Queue : s # q => Bg(v)[s] = Bg(w)[s]
      BY DEF Bg
    <2> QED
      BY <2>2, <2>3 DEF Balanced
  <1> QED
    BY <1>1, <1>2, <1>3 DEF Balanced

\* A task of p that waits is killed.
LEMMA DropBooks ==
  ASSUME NEW w \in Worlds, OneQueue(w), NEW v, NEW p \in Owners, Dropped(w, v, p),
         NEW T, NEW U, WithOne(T, p, U), Balanced(w, U)
  PROVE  Balanced(v, T)
  <1> USE DEF WithOne, Dropped
  <1>1. /\ TaskLimit \in Int
        /\ \A r \in Queue : Len(Bg(w)[r]) \in Nat /\ Nb(w)[r] \in Int
        /\ \A r \in Queue : Pl(w)[r] # NOTHING => Pl(w)[r] \in Owners
    BY OneOwner, TaskAssumption
  <1>2. U[p] = T[p] + 1 /\ \A o \in Owners : o # p => U[o] = T[o]
    OBVIOUS
  <1>3. ASSUME NEW s \in Queue, Pl(v)[s] # NOTHING
        PROVE  Paid(Pl(v)[s], Nb(v)[s], Bg(v)[s], T[Pl(v)[s]])
    <2>1. Paid(Pl(v)[s], Nb(w)[s], Bg(w)[s], U[Pl(v)[s]]) /\ Pl(v)[s] \in Owners
      BY <1>1, <1>3 DEF Balanced
    <2>2. CASE Pl(w)[s] # p
      BY <1>2, <2>1, <2>2
    <2>3. CASE Pl(w)[s] = p
      <3>1. Nb(v)[s] = Nb(w)[s] - 1 /\ T[p] \in Nat /\ Pl(v)[s] = p
        BY <2>3
      <3>2. Nb(w)[s] = Len(Bg(w)[s]) + (T[p] + 1) /\ (Limited => Nb(w)[s] <= TaskLimit)
            /\ \A j \in DOMAIN Bg(w)[s] : Bg(w)[s][j].progr = p
        BY <1>2, <2>1, <3>1 DEF Paid
      <3>3. Nb(v)[s] = Len(Bg(w)[s]) + T[p] /\ (Limited => Nb(v)[s] <= TaskLimit)
        <4>1. (Len(Bg(w)[s]) + (T[p] + 1)) - 1 = Len(Bg(w)[s]) + T[p]
          BY <1>1, <3>1, OneOff
        <4>2. Limited => Nb(v)[s] <= TaskLimit
          BY <1>1, <3>1, <3>2, OneOff
        <4> QED
          BY <3>1, <3>2, <4>1, <4>2
      <3> QED
        BY <3>1, <3>2, <3>3 DEF Paid
    <2> QED
      BY <2>2, <2>3
  <1>4. ASSUME NEW o \in Owners, T[o] # 0 PROVE \E r \in Queue : Pl(v)[r] = o
    <2>1. U[o] # 0
      BY <1>2, <1>4
    <2> QED
      BY <2>1 DEF Balanced
  <1> QED
    BY <1>3, <1>4 DEF Balanced

LEMMA WholeSeq ==
  ASSUME NEW s \in Seq(Tasks)
  PROVE  SubSeq(s, 0 + 1, Len(s)) = s
  <1>1. PICK l : l = Len(s)
    OBVIOUS
  <1>2. l \in Nat /\ \A j \in 1..l : s[j] \in Tasks
    BY <1>1, LenProperties, ElementOfSeq
  <1>3. PICK a : a = SubSeq(s, 1, l)
    OBVIOUS
  <1>4. /\ a \in Seq(Tasks) /\ Len(a) = IF 1 <= l THEN l - 1 + 1 ELSE 0
        /\ \A j \in 1..(l - 1 + 1) : a[j] = s[1 + j - 1]
    BY <1>2, <1>3, SubSeqProperties
  <1>5. Len(a) = l /\ \A j \in 1..l : a[j] = s[j]
    BY ONLY <1>2, <1>4
  <1>6. a = s
    BY <1>1, <1>4, <1>5, SeqEqual
  <1>7. 0 + 1 = 1
    OBVIOUS
  <1> QED
    BY <1>1, <1>3, <1>6, <1>7

\* The rest of a list from place i on, and from the next place on.
LEMMA RestPlaced ==
  ASSUME NEW s \in Seq(Tasks), NEW i \in 1..Len(s)
  PROVE  /\ SubSeq(s, i + 1, Len(s)) \in Seq(Tasks)
         /\ Placed(SubSeq(s, i + 1, Len(s)), s[i], SubSeq(s, i, Len(s)))
  <1>1. PICK l : l = Len(s)
    OBVIOUS
  <1>2. l \in Nat /\ i \in 1..l /\ i \in Nat /\ \A j \in 1..l : s[j] \in Tasks
    BY <1>1, LenProperties, ElementOfSeq
  <1>3. PICK a : a = SubSeq(s, i, l)
    OBVIOUS
  <1>4. PICK b : b = SubSeq(s, i + 1, l)
    OBVIOUS
  <1>5. (\A j \in i..l : s[j] \in Tasks) /\ (\A j \in (i + 1)..l : s[j] \in Tasks)
        /\ i + 1 \in Int /\ i \in Int /\ l \in Int
    BY ONLY <1>2
  <1>6. /\ a \in Seq(Tasks) /\ Len(a) = IF i <= l THEN l - i + 1 ELSE 0
        /\ \A j \in 1..(l - i + 1) : a[j] = s[i + j - 1]
    BY <1>3, <1>5, SubSeqProperties
  <1>7. /\ b \in Seq(Tasks) /\ Len(b) = IF i + 1 <= l THEN l - (i + 1) + 1 ELSE 0
        /\ \A j \in 1..(l - (i + 1) + 1) : b[j] = s[(i + 1) + j - 1]
    BY <1>4, <1>5, SubSeqProperties
  <1>8. Len(b) = l - i /\ Len(a) = Len(b) + 1 /\ Len(b) \in Nat
    BY ONLY <1>2, <1>6, <1>7
  <1>9. \A j \in 1..(Len(b) + 1) : a[j] = s[i + j - 1]
    BY ONLY <1>2, <1>6, <1>8
  <1>10. \A j \in 1..Len(b) : b[j] = s[(i + 1) + j - 1]
    BY ONLY <1>2, <1>7, <1>8
  <1>11. ASSUME NEW j \in 1..(Len(b) + 1)
         PROVE  a[j] = IF j < 1 THEN b[j] ELSE IF j = 1 THEN s[i] ELSE b[j - 1]
    <2>1. CASE j = 1
      <3>1. i + j - 1 = i /\ ~(j < 1)
        BY ONLY <1>2, <2>1
      <3> QED
        BY ONLY <1>9, <1>11, <2>1, <3>1
    <2>2. CASE j # 1
      <3>1. j - 1 \in 1..Len(b) /\ ~(j < 1) /\ (i + 1) + (j - 1) - 1 = i + j - 1
        BY ONLY <1>2, <1>8, <1>11, <2>2
      <3> QED
        BY ONLY <1>9, <1>10, <1>11, <2>2, <3>1
    <2> QED
      BY <2>1, <2>2
  <1>12. a = [j \in 1..(Len(b) + 1) |-> a[j]]
    <2>1. DOMAIN a = 1..(Len(b) + 1)
      BY <1>6, <1>8, LenProperties
    <2> QED
      BY ONLY <1>6, <2>1
  <1>13. a = [j \in 1..(Len(b) + 1) |-> IF j < 1 THEN b[j] ELSE IF j = 1 THEN s[i] ELSE b[j - 1]]
    BY ONLY <1>11, <1>12
  <1>14. 1 \in 1..(Len(b) + 1)
    BY ONLY <1>8
  <1>15. Placed(b, s[i], a)
    BY ONLY <1>13, <1>14 DEF Placed
  <1> QED
    BY <1>1, <1>3, <1>4, <1>7, <1>15

-----------------------------------------------------------------------------
(* The tasks whose time has come.                                          *)

\* Of the programmers in P, those that have no queue.
Missing(w, P) == {p \in P : QueuesOf(w, p) = {}}

Advanced(x, y, moving, t, P) ==
  /\ Sound(y, moving) /\ Kept(x, y) /\ y.waiting = x.waiting /\ Rd(y) = Rd(x)
  /\ ReadyOne(Bg(y)) /\ ReadyIds(Bg(y)) = ReadyIds(Bg(x)) \cup {t.id}
  /\ Cardinality(Missing(y, P)) <= Cardinality(FreeSlots(y))
  /\ \E q : Readied(x, y, q, t)

\* Afterwards q is the queue of programmer p, an old one if p had one.
Homed(x, y, q, p) ==
  /\ q \in Queue /\ Live(y) = Live(x) \cup {q} /\ y.queue[q].player = p
  /\ \A r \in Live(x) : y.queue[r].player = x.queue[r].player
  /\ QueuesOf(x, p) # {} => q \in Live(x)

\* As long as there are as many free queues as programmers without one, every
\* programmer gets one, and that stays so.
LEMMA RoomFound ==
  ASSUME NEW x, NEW P, IsFiniteSet(P), NEW p \in P,
         Cardinality(Missing(x, P)) <= Cardinality(FreeSlots(x))
  PROVE  /\ CanFind(x, p)
         /\ IsFiniteSet(Missing(x, P)) /\ IsFiniteSet(FreeSlots(x))
         /\ Cardinality(Missing(x, P)) \in Nat /\ Cardinality(FreeSlots(x)) \in Nat
  <1>1. IsFiniteSet(Missing(x, P)) /\ IsFiniteSet(FreeSlots(x))
        /\ Cardinality(Missing(x, P)) \in Nat /\ Cardinality(FreeSlots(x)) \in Nat
    <2>1. Missing(x, P) \in SUBSET P /\ FreeSlots(x) \in SUBSET Queue
      BY DEF Missing, FreeSlots
    <2>2. IsFiniteSet(Missing(x, P)) /\ IsFiniteSet(FreeSlots(x))
      BY <2>1, QueueAssumption, FS_Subset
    <2> QED
      BY <2>2, FS_CardinalityType
  <1>2. CASE QueuesOf(x, p) # {}
    BY <1>1, <1>2 DEF CanFind
  <1>3. CASE QueuesOf(x, p) = {}
    <2>1. Missing(x, P) # {}
      BY <1>3 DEF Missing
    <2>2. Cardinality(Missing(x, P)) # 0
      BY <1>1, <2>1, FS_EmptySet
    <2>3. Cardinality(FreeSlots(x)) # 0
      BY <1>1, <2>2
    <2>4. FreeSlots(x) # {}
      BY <2>3, FS_EmptySet
    <2> QED
      BY <1>1, <2>4 DEF CanFind
  <1> QED
    BY <1>2, <1>3

LEMMA RoomLeft ==
  ASSUME NEW x, NEW P, IsFiniteSet(P), NEW p \in P,
         Cardinality(Missing(x, P)) <= Cardinality(FreeSlots(x)),
         NEW y, NEW q, Homed(x, y, q, p)
  PROVE  Cardinality(Missing(y, P)) <= Cardinality(FreeSlots(y))
  <1>1. IsFiniteSet(Missing(x, P)) /\ IsFiniteSet(FreeSlots(x))
        /\ Cardinality(Missing(x, P)) \in Nat /\ Cardinality(FreeSlots(x)) \in Nat
    BY RoomFound
  <1>2. \A r : QueuesOf(x, r) \subseteq QueuesOf(y, r)
    BY DEF QueuesOf, Homed
  <1>3. q \in QueuesOf(y, p)
    BY DEF QueuesOf, Homed
  <1>4. CASE q \in Live(x)
    <2>1. Missing(y, P) \in SUBSET Missing(x, P)
      BY <1>2 DEF Missing
    <2>2. FreeSlots(y) = FreeSlots(x)
      BY <1>4 DEF FreeSlots, Homed
    <2>3. Cardinality(Missing(y, P)) <= Cardinality(Missing(x, P))
          /\ Cardinality(Missing(y, P)) \in Nat
      BY <1>1, <2>1, FS_Subset, FS_CardinalityType
    <2> QED
      BY <1>1, <2>2, <2>3
  <1>5. CASE q \notin Live(x)
    <2>1. Missing(y, P) \in SUBSET (Missing(x, P) \ {p}) /\ p \in Missing(x, P)
      BY <1>2, <1>3, <1>5 DEF Missing, Homed
    <2>2. FreeSlots(y) = FreeSlots(x) \ {q} /\ q \in FreeSlots(x)
      BY <1>5 DEF FreeSlots, Homed
    <2>3. /\ IsFiniteSet(Missing(x, P) \ {p})
          /\ Cardinality(Missing(x, P) \ {p}) = Cardinality(Missing(x, P)) - 1
      BY <1>1, <2>1, FS_RemoveElement
    <2>4. Cardinality(FreeSlots(y)) = Cardinality(FreeSlots(x)) - 1
      BY <1>1, <2>2, FS_RemoveElement
    <2>5. Cardinality(Missing(y, P)) <= Cardinality(Missing(x, P) \ {p})
          /\ Cardinality(Missing(y, P)) \in Nat
      BY <2>1, <2>3, FS_Subset, FS_CardinalityType
    <2> QED
      BY <1>1, <2>3, <2>4, <2>5
  <1> QED
    BY <1>4, <1>5

\* One task moves.
LEMMA MoveNext ==
  ASSUME NEW x, NEW moving, Sound(x, moving), NEW t \in Tasks, NEW P, IsFiniteSet(P),
         t.progr \in P, Cardinality(Missing(x, P)) <= Cardinality(FreeSlots(x)),
         ReadyOne(Bg(x)), t.id \notin ReadyIds(Bg(x)), NEW y, y = MakeReady(x, t)
  PROVE  Advanced(x, y, moving, t, P)
  <1>1. CanFind(x, t.progr)
    BY RoomFound
  <1>2. /\ Sound(y, moving) /\ Kept(x, y) /\ y.waiting = x.waiting
        /\ \E q : /\ Readied(x, y, q, t) /\ Live(y) = Live(x) \cup {q}
                  /\ y.queue[q].player = t.progr
                  /\ \A r \in Live(x) : y.queue[r].player = x.queue[r].player
                  /\ QueuesOf(x, t.progr) # {} => q \in Live(x)
    BY <1>1, MoveOne
  <1>3. PICK q : Readied(x, y, q, t) /\ Homed(x, y, q, t.progr)
    BY <1>2 DEF Homed, Readied
  <1>4. x \in Worlds
    BY DEF Sound, SoundBut
  <1>5. ReadyOne(Bg(y)) /\ ReadyIds(Bg(y)) = ReadyIds(Bg(x)) \cup {t.id} /\ Rd(y) = Rd(x)
    BY <1>3, <1>4, ReadiedOne
  <1>6. Cardinality(Missing(y, P)) <= Cardinality(FreeSlots(y))
    BY <1>3, RoomLeft
  <1> QED
    BY <1>2, <1>3, <1>5, <1>6 DEF Advanced

\* The recursive functions of the model go through a list s and take one of
\* these steps for each of its elements.
Taking(k, x, e) ==
  CASE k = "ready" -> MakeReady(x, e)
    [] k = "waiting" -> enqueue_waiting(x, e)
    [] k = "bg" -> x \o e
    [] OTHER -> IF e.kind = k THEN Append(x, e) ELSE x

Chain(f, k, base, s, n) ==
  f = [i \in 0..n |-> IF i = 0 THEN base ELSE Taking(k, f[i - 1], s[i])]

LEMMA ChainExists ==
  ASSUME NEW k, NEW base, NEW s, NEW n \in Nat
  PROVE  \E f : Chain(f, k, base, s, n)
  <1> DEFINE F(g, m) == [i \in 0..m |-> IF i = 0 THEN base ELSE Taking(k, g[i - 1], s[i])]
             S == {m \in 0..n : \E g : g = F(g, m)}
  <1>1. 0 \in S
    <2>1. PICK g : g = [i \in 0..0 |-> base]
      OBVIOUS
    <2>2. g = F(g, 0)
      BY <2>1
    <2>3. 0 \in 0..n
      OBVIOUS
    <2> QED
      BY <2>2, <2>3
  <1>2. ASSUME NEW m \in 0..(n - 1), m \in S PROVE m + 1 \in S
    <2>1. PICK g : g = F(g, m)
      BY <1>2
    <2>2. PICK h : h = [i \in 0..(m + 1) |-> IF i <= m THEN g[i] ELSE Taking(k, g[m], s[m + 1])]
      OBVIOUS
    <2>3. m \in Nat /\ m + 1 \in 0..n
      OBVIOUS
    <2>4. ASSUME NEW i \in 0..(m + 1)
          PROVE  h[i] = IF i = 0 THEN base ELSE Taking(k, h[i - 1], s[i])
      <3>1. CASE i = 0
        <4>1. 0 \in 0..m /\ h[0] = g[0]
          BY <2>2, <2>3
        <4>2. g[0] = base
          BY <2>1, <4>1
        <4> QED
          BY <3>1, <4>1, <4>2
      <3>2. CASE i \in 1..m
        <4>1. i \in 0..m /\ i - 1 \in 0..m /\ i # 0 /\ i - 1 \in 0..(m + 1) /\ i <= m /\ i - 1 <= m
          BY <2>3, <3>2
        <4>2. h[i] = g[i] /\ h[i - 1] = g[i - 1]
          BY <2>2, <4>1
        <4>3. g[i] = Taking(k, g[i - 1], s[i])
          BY <2>1, <4>1
        <4> QED
          BY <4>1, <4>2, <4>3
      <3>3. CASE i = m + 1
        <4>1. i # 0 /\ i - 1 = m /\ ~(i <= m) /\ m \in 0..(m + 1)
          BY <2>3, <3>3
        <4>2. h[m] = g[m] /\ h[i] = Taking(k, g[m], s[m + 1])
          BY <2>2, <2>3, <4>1
        <4> QED
          BY <3>3, <4>1, <4>2
      <3> QED
        BY <2>3, <3>1, <3>2, <3>3
    <2>5. h = F(h, m + 1)
      BY <2>2, <2>4
    <2> QED
      BY <2>3, <2>5
  <1>3. n \in S
    <2>1. 0..n \subseteq S
      <3> HIDE DEF S
      <3> QED
        BY <1>1, <1>2, UpInduction
    <2>2. n \in 0..n
      OBVIOUS
    <2> HIDE DEF S
    <2> QED
      BY <2>1, <2>2
  <1> QED
    BY <1>3 DEF Chain

\* The worlds that the loop of run_ready_tasks goes through.
Moves(base, s, n) ==
  LET after[i \in 0..n] == IF i = 0 THEN base ELSE MakeReady(after[i - 1], s[i]) IN after

LEMMA MovesAre ==
  ASSUME NEW base, NEW s, NEW n \in Nat
  PROVE  /\ Moves(base, s, n)[0] = base
         /\ \A i \in 1..n : Moves(base, s, n)[i] = MakeReady(Moves(base, s, n)[i - 1], s[i])
  <1> DEFINE F(g) == [i \in 0..n |-> IF i = 0 THEN base ELSE MakeReady(g[i - 1], s[i])]
  <1>k. PICK k : k = "ready"
    OBVIOUS
  <1>1. PICK g : Chain(g, k, base, s, n)
    BY ONLY n \in Nat, ChainExists
  <1>2. \A x, e : Taking(k, x, e) = MakeReady(x, e)
    BY <1>k DEF Taking
  <1>3. g = F(g)
    BY <1>1, <1>2 DEF Chain
  <1>4. PICK f : f = Moves(base, s, n)
    OBVIOUS
  <1>5. f = CHOOSE h : h = F(h)
    BY <1>4 DEF Moves
  <1>6. f = F(f)
    <2> HIDE DEF F
    <2> QED
      BY <1>3, <1>5
  <1>7. f[0] = base /\ \A i \in 1..n : f[i] = MakeReady(f[i - 1], s[i])
    BY <1>6
  <1> QED
    BY <1>4, <1>7

Due(w, v, moving, E, id) ==
  /\ Sound(v, moving) /\ Kept(w, v) /\ Rd(v) = Rd(w)
  /\ OneEach(v.waiting, Bg(v), Rd(v), E, id)
  /\ Booked(w) => Booked(v)

LEMMA MoveDueSound ==
  ASSUME NEW w, NEW moving, Sound(w, moving), NEW at,
         Cardinality({p \in {t.progr : t \in ToSet(w.waiting)} : QueuesOf(w, p) = {}})
           <= Cardinality(FreeSlots(w)),
         NEW E, NEW id, OneEach(w.waiting, Bg(w), Rd(w), E, id),
         NEW v, v = MoveDue(w, at)
  PROVE  Due(w, v, moving, E, id)
  <1>1. w \in Worlds /\ SoundBut(w, moving, {})
    BY DEF Sound, SoundBut
  <1>2. PICK s : s = w.waiting
    OBVIOUS
  <1>3. /\ s \in Seq(Tasks) /\ Len(s) \in Nat /\ DOMAIN s = 1..Len(s)
        /\ \A i \in 1..Len(s) : s[i] \in Tasks /\ s[i].start \in Nat
        /\ WaitingSorted(s)
    BY <1>1, <1>2, WaitingList
  <1> DEFINE I == {i \in 1..Len(s) : s[i].start > at}
             n == IF (IF I # {} THEN Min(I) ELSE 0) = 0 THEN Len(s)
                  ELSE (IF I # {} THEN Min(I) ELSE 0) - 1
  <1>4. n \in 0..Len(s)
    <2>1. CASE I = {}
      BY <1>3, <2>1
    <2>2. CASE I # {}
      <3>1. I \subseteq Nat /\ I \subseteq 1..Len(s)
        BY <1>3
      <3> HIDE DEF I
      <3>2. Min(I) \in 1..Len(s)
        BY <2>2, <3>1, MinOfNumbers
      <3> QED
        BY <1>3, <2>2, <3>2
    <2> QED
      BY <2>1, <2>2
  <1>5. PICK m : m = n
    OBVIOUS
  <1>6. PICK base : base = [w EXCEPT !.waiting = SubSeq(s, m + 1, Len(s))]
    OBVIOUS
  <1>7. v = Moves(base, s, m)[m]
    <2>1. v = Moves([w EXCEPT !.waiting = SubSeq(s, n + 1, Len(s))], s, n)[n]
      BY <1>2, ZenonT(60) DEF MoveDue, SelectInSeq, Moves
    <2> HIDE DEF n
    <2> QED
      BY <1>5, <1>6, <2>1
  <1>8. m \in Nat /\ m \in 0..Len(s)
    BY <1>3, <1>4, <1>5
  <1> HIDE DEF n, I
  <1>9. PICK f : f = Moves(base, s, m)
    OBVIOUS
  <1>10. f[0] = base /\ (\A i \in 1..m : f[i] = MakeReady(f[i - 1], s[i])) /\ v = f[m]
    BY <1>7, <1>8, <1>9, MovesAre
  <1>11. PICK rest : rest = SubSeq(s, m + 1, Len(s))
    OBVIOUS
  <1>12. /\ rest \in Seq(Tasks) /\ DOMAIN rest = 1..(Len(s) - m)
         /\ \A i \in 1..(Len(s) - m) : rest[i] = s[m + i] /\ m + i \in (m + 1)..Len(s)
    <2>1. \A i \in (m + 1)..Len(s) : s[i] \in Tasks
      BY <1>3, <1>8
    <2>2. /\ rest \in Seq(Tasks)
          /\ Len(rest) = IF m + 1 <= Len(s) THEN Len(s) - (m + 1) + 1 ELSE 0
          /\ \A i \in 1..(Len(s) - (m + 1) + 1) : rest[i] = s[(m + 1) + i - 1]
      BY <1>3, <1>8, <1>11, <2>1, SubSeqProperties
    <2>a. /\ Len(s) - (m + 1) + 1 = Len(s) - m
          /\ (IF m + 1 <= Len(s) THEN Len(s) - (m + 1) + 1 ELSE 0) = Len(s) - m
      <3>1. PICK l : l = Len(s)
        OBVIOUS
      <3>2. l \in Nat /\ m \in Nat /\ m <= l
        BY <1>3, <1>8, <3>1
      <3>3. l - (m + 1) + 1 = l - m /\ (m + 1 <= l \/ l - m = 0)
        BY ONLY <3>2
      <3> QED
        BY ONLY <3>1, <3>3
    <2>3. Len(rest) = Len(s) - m /\ Len(s) - (m + 1) + 1 = Len(s) - m
      BY ONLY <2>2, <2>a
    <2>4. \A i \in 1..(Len(s) - m) : (m + 1) + i - 1 = m + i /\ m + i \in (m + 1)..Len(s)
      BY <1>3, <1>8
    <2> QED
      BY <2>2, <2>3, <2>4, LenProperties
  <1>13. WaitingSorted(rest)
    <2> SUFFICES ASSUME NEW i \in 1..(Len(s) - m), NEW j \in 1..(Len(s) - m), i < j
                 PROVE  rest[i].start <= rest[j].start
      BY <1>12 DEF WaitingSorted
    <2>1. m + i \in 1..Len(s) /\ m + j \in 1..Len(s) /\ m + i < m + j
      BY <1>3, <1>8
    <2> QED
      BY <1>3, <1>12, <2>1 DEF WaitingSorted
  <1>14. WaitingSet(w, base, moving, {}, rest)
    BY ONLY <1>1, <1>6, <1>11, <1>12, <1>13, SetWaiting
  <1>15. /\ Sound(base, moving) /\ Kept(w, base) /\ Live(base) = Live(w) /\ base.waiting = rest
         /\ Bg(base) = Bg(w) /\ Rd(base) = Rd(w)
         /\ \A p : QueuesOf(base, p) = QueuesOf(w, p)
         /\ Pl(base) = Pl(w) /\ Nb(base) = Nb(w)
    BY <1>14 DEF WaitingSet, Sound, Pl, Nb
  <1>16. PICK P : P = {t.progr : t \in ToSet(s)}
    OBVIOUS
  <1>17. IsFiniteSet(P) /\ \A i \in 1..Len(s) : s[i].progr \in P
    <2>1. PICK g : g = [i \in 1..Len(s) |-> s[i].progr]
      OBVIOUS
    <2>2. ToSet(s) = {s[i] : i \in 1..Len(s)}
      BY <1>3 DEF ToSet
    <2>3. g \in Surjection(1..Len(s), P)
      BY <1>16, <2>1, <2>2 DEF Surjection
    <2>4. IsFiniteSet(1..Len(s))
      BY <1>3, FS_Interval
    <2> QED
      BY <1>16, <2>2, <2>3, <2>4, FS_Surjection
  <1>18. /\ ListOne(s) /\ ReadyOne(Bg(w)) /\ ReaderOne(Rd(w)) /\ ExternOne(E)
         /\ Apart(ListIds(s), ReadyIds(Bg(w)), ReaderIds(Rd(w)), ExternIds(E), {id} \ {0})
    BY <1>2 DEF OneEach
  <1> DEFINE Gone(i) == {s[k].id : k \in 1..i}
             Good(i) == /\ Sound(f[i], moving) /\ Kept(w, f[i]) /\ f[i].waiting = rest
                        /\ Rd(f[i]) = Rd(w) /\ ReadyOne(Bg(f[i]))
                        /\ ReadyIds(Bg(f[i])) = ReadyIds(Bg(w)) \cup Gone(i)
                        /\ Cardinality(Missing(f[i], P)) <= Cardinality(FreeSlots(f[i]))
                        /\ Booked(w) => Balanced(f[i], Waits(SubSeq(s, i + 1, Len(s))))
             S == {i \in 0..m : Good(i)}
  <1>19. Good(0)
    <2>1. Gone(0) = {}
      <3>1. 1..0 = {}
        OBVIOUS
      <3> QED
        BY <3>1
    <2>2. Missing(base, P) = {p \in {t.progr : t \in ToSet(w.waiting)} : QueuesOf(w, p) = {}}
          /\ FreeSlots(base) = FreeSlots(w)
      BY <1>2, <1>15, <1>16 DEF Missing, FreeSlots
    <2>3. Booked(w) => Balanced(base, Waits(SubSeq(s, 0 + 1, Len(s))))
      <3>1. SubSeq(s, 0 + 1, Len(s)) = s
        BY <1>3, WholeSeq
      <3> QED
        BY <1>2, <1>15, <3>1 DEF Booked, Balanced
    <2> HIDE DEF Gone
    <2> QED
      BY <1>10, <1>15, <1>18, <2>1, <2>2, <2>3
  <1>20. ASSUME NEW i \in 0..(m - 1), Good(i) PROVE Good(i + 1)
    <2>1. /\ i \in Nat /\ i + 1 \in 1..m /\ i + 1 \in 1..Len(s) /\ (i + 1) - 1 = i
          /\ 1..(i + 1) = (1..i) \cup {i + 1} /\ \A k \in 1..i : k \in 1..Len(s) /\ k # i + 1
      BY <1>3, <1>8
    <2>2. PICK t : t = s[i + 1]
      OBVIOUS
    <2>3. t \in Tasks /\ t.progr \in P /\ t.id \in ListIds(s)
      BY <1>3, <1>17, <2>1, <2>2 DEF ListIds
    <2>4. PICK x : x = f[i]
      OBVIOUS
    <2>5. PICK y : y = f[i + 1]
      OBVIOUS
    <2>6. y = MakeReady(x, t)
      BY <1>10, <2>1, <2>2, <2>4, <2>5
    <2>7. t.id \notin ReadyIds(Bg(x))
      <3>1. t.id \notin ReadyIds(Bg(w))
        BY <1>18, <2>3 DEF Apart
      <3>2. \A k \in 1..i : s[k].id # t.id
        BY <1>3, <1>18, <2>1, <2>2 DEF ListOne
      <3>3. t.id \notin Gone(i)
        BY <3>2
      <3> HIDE DEF Gone
      <3> QED
        BY <1>20, <2>4, <3>1, <3>3
    <2>8. Gone(i + 1) = Gone(i) \cup {t.id}
      BY <2>1, <2>2
    <2> HIDE DEF Gone
    <2>9. /\ Sound(x, moving) /\ Kept(w, x) /\ x.waiting = rest
          /\ Rd(x) = Rd(w) /\ ReadyOne(Bg(x))
          /\ ReadyIds(Bg(x)) = ReadyIds(Bg(w)) \cup Gone(i)
          /\ Cardinality(Missing(x, P)) <= Cardinality(FreeSlots(x))
          /\ Booked(w) => Balanced(x, Waits(SubSeq(s, i + 1, Len(s))))
      BY <1>20, <2>4
    <2>10. Advanced(x, y, moving, t, P)
      BY ONLY <1>17, <2>3, <2>6, <2>7, <2>9, MoveNext
    <2>11. /\ Sound(y, moving) /\ Kept(x, y) /\ y.waiting = x.waiting /\ Rd(y) = Rd(x)
           /\ ReadyOne(Bg(y)) /\ ReadyIds(Bg(y)) = ReadyIds(Bg(x)) \cup {t.id}
           /\ Cardinality(Missing(y, P)) <= Cardinality(FreeSlots(y))
           /\ \E q : Readied(x, y, q, t)
      BY ONLY <2>10 DEF Advanced
    <2>12. Kept(w, y)
      BY <2>9, <2>11, KeptThenKept
    <2>13. ReadyIds(Bg(y)) = ReadyIds(Bg(w)) \cup Gone(i + 1)
      BY <2>8, <2>9, <2>11
    <2>14. Booked(w) => Balanced(y, Waits(SubSeq(s, (i + 1) + 1, Len(s))))
      <3>1. HAVE Booked(w)
      <3>2. PICK a : a = SubSeq(s, (i + 1) + 1, Len(s))
        OBVIOUS
      <3>3. PICK b : b = SubSeq(s, i + 1, Len(s))
        OBVIOUS
      <3>4. a \in Seq(Tasks) /\ Placed(a, t, b)
        BY <1>3, <2>1, <2>2, <3>2, <3>3, RestPlaced
      <3>5. WithOne(Waits(a), t.progr, Waits(b))
        BY <2>3, <3>4, WaitsPlaced, WaitsType DEF WithOne
      <3>6. x \in Worlds /\ y \in Worlds /\ OneQueue(y) /\ t \in Tasks
        BY <2>3, <2>9, <2>11 DEF Sound, SoundBut
      <3>7. Balanced(x, Waits(b))
        BY <2>9, <3>1, <3>3
      <3>8. PICK q : Readied(x, y, q, t)
        BY <2>11
      <3>9. Balanced(y, Waits(a))
        BY ONLY <3>5, <3>6, <3>7, <3>8, ReadiedBooks
      <3> QED
        BY <3>2, <3>9
    <2> QED
      BY <2>5, <2>9, <2>11, <2>12, <2>13, <2>14
  <1>21. Good(m)
    <2>1. 0 \in S
      <3>1. 0 \in 0..m
        BY <1>8
      <3> HIDE DEF Good
      <3> QED
        BY <1>19, <3>1
    <2>2. ASSUME NEW i \in 0..(m - 1), i \in S PROVE i + 1 \in S
      <3>1. i + 1 \in 0..m
        BY <1>8
      <3> HIDE DEF Good
      <3> QED
        BY <1>20, <2>2, <3>1
    <2> HIDE DEF S
    <2>3. 0..m \subseteq S
      BY <1>8, <2>1, <2>2, UpInduction
    <2>4. m \in S
      BY <1>8, <2>3
    <2> QED
      BY <2>4 DEF S
  <1>22. ListIds(rest) \subseteq ListIds(s) /\ ListIds(rest) \cap Gone(m) = {} /\ ListOne(rest)
         /\ Gone(m) \subseteq ListIds(s)
    <2>1. \A i \in 1..(Len(s) - m) : m + i \in 1..Len(s) /\ rest[i] = s[m + i] /\ m + i \notin 1..m
      BY <1>3, <1>8, <1>12
    <2>2. \A i \in 1..m : i \in 1..Len(s)
      BY <1>3, <1>8
    <2>3. \A i, j \in 1..Len(s) : s[i].id = s[j].id => i = j
      BY <1>3, <1>18 DEF ListOne
    <2>4. ListIds(rest) \subseteq ListIds(s)
      BY <1>3, <1>12, <2>1 DEF ListIds
    <2>5. Gone(m) \subseteq ListIds(s)
      BY <1>3, <2>2 DEF ListIds
    <2>6. ASSUME NEW i \in 1..(Len(s) - m), NEW k \in 1..m, rest[i].id = s[k].id PROVE FALSE
      BY <2>1, <2>2, <2>3, <2>6
    <2>7. ListIds(rest) \cap Gone(m) = {}
      BY <1>12, <2>6 DEF ListIds
    <2>8. ASSUME NEW i \in 1..(Len(s) - m), NEW j \in 1..(Len(s) - m), rest[i].id = rest[j].id
          PROVE  i = j
      <3>1. m + i = m + j
        BY <2>1, <2>3, <2>8
      <3> QED
        BY <1>3, <1>8, <3>1
    <2> QED
      BY <1>12, <2>4, <2>5, <2>7, <2>8 DEF ListOne
  <1>23. /\ Sound(v, moving) /\ Kept(w, v) /\ v.waiting = rest /\ Rd(v) = Rd(w)
         /\ ReadyOne(Bg(v)) /\ ReadyIds(Bg(v)) = ReadyIds(Bg(w)) \cup Gone(m)
         /\ Booked(w) => Balanced(v, Waits(rest))
    BY <1>10, <1>11, <1>21
  <1> HIDE DEF Gone, Good, S
  <1>24. Apart(ListIds(rest), ReadyIds(Bg(v)), ReaderIds(Rd(w)), ExternIds(E), {id} \ {0})
    BY ONLY <1>18, <1>22, <1>23 DEF Apart
  <1>25. Booked(w) => Booked(v)
    BY ONLY <1>23 DEF Booked
  <1> QED
    BY <1>18, <1>22, <1>23, <1>24, <1>25 DEF Due, OneEach

-----------------------------------------------------------------------------
(* The inductive invariant, and what is to be shown of a step.             *)

Inv ==
  /\ TypeOK
  /\ Sound(World, Moving)
  /\ Thread(World, phase, cur)
  /\ OneEach(waiting, Bg(World), Rd(World), external, cur.id)

ReadersKept(w, v) == \A q \in Live(w) : w.queue[q].reading # NoVm => q \in Live(v)

\* The counts stay right, as long as no task waits on an external queue: one that
\* comes back from there is not counted.
Ledger(v) == external = {} /\ Booked(World) => Booked(v)

\* The step leads to world v, in which the thread is at where with task c, and
\* the tasks in E wait on external queues.
Good(v, where, c, E) ==
  /\ Sound(v, Moving) /\ Thread(v, where, c) /\ OneEach(v.waiting, Bg(v), Rd(v), E, c.id)
  /\ E \subseteq Vms /\ ReadersKept(World, v) /\ Ledger(v)

\* The variables that have nothing to do with queues.
Clockwork ==
  /\ does' = does /\ now' \in 1..MaxTime
  /\ unused' \in SUBSET Conn

Safe == Inv' /\ ReadersKept(World, World') /\ Ledger(World')

LEMMA WorldIs ==
  /\ World.queue = queue /\ World.active = active /\ World.idle = idle
  /\ World.waiting = waiting
  BY DEF World

LEMMA SetWorldIs ==
  ASSUME NEW v \in Worlds, SetWorld(v)
  PROVE  World' = v /\ waiting' = v.waiting
  <1>1. v = [queue |-> v.queue, active |-> v.active, idle |-> v.idle, waiting |-> v.waiting]
    BY WorldFields
  <1> QED
    BY <1>1 DEF World, SetWorld

LEMMA StepTo ==
  ASSUME NEW v, SetWorld(v), Good(v, phase', cur', external'), Clockwork, does \in Workloads
  PROVE  Safe
  <1>1. v \in Worlds
    BY DEF Good, Sound, SoundBut
  <1>2. World' = v /\ waiting' = v.waiting
    BY <1>1, SetWorldIs
  <1>3. Moving' = Moving
    BY DEF Moving, Clockwork
  <1>4. TypeOK'
    BY <1>1, <1>2 DEF TypeOK, Good, Clockwork, Thread, Threads
  <1>5. Sound(World, Moving)'
    BY <1>2, <1>3 DEF Good
  <1>6. Thread(World, phase, cur)'
    BY <1>2 DEF Good
  <1>7. OneEach(waiting, Bg(World), Rd(World), external, cur.id)'
    <2>1. OneEach(v.waiting, Bg(v), Rd(v), external', cur'.id) /\ (Reads' <=> Reads)
      BY DEF Good, Reads, Clockwork
    <2> QED
      BY <1>2, <2>1 DEF OneEach
  <1> QED
    BY <1>2, <1>4, <1>5, <1>6, <1>7 DEF Safe, Inv, Good

\* What holds before the step, by the name w.
LEMMA Before ==
  ASSUME Inv, NEW w, w = World
  PROVE  /\ w \in Worlds /\ Sound(w, Moving) /\ SoundBut(w, Moving, {}) /\ Moving \in BOOLEAN
         /\ Thread(w, phase, cur)
         /\ w.queue = queue /\ w.active = active /\ w.idle = idle /\ w.waiting = waiting
         /\ OneEach(w.waiting, Bg(w), Rd(w), external, cur.id) /\ external \subseteq Vms
         /\ does \in Workloads /\ now \in 1..MaxTime
         /\ unused \in SUBSET Conn /\ Live(w) \subseteq Queue
         /\ w.queue \in [Queue -> TQueues]
         /\ does.users \subseteq User /\ does.conns \subseteq Conn
  <1>1. w.queue = queue /\ w.active = active /\ w.idle = idle /\ w.waiting = waiting
    BY WorldIs
  <1>2. does.users \subseteq User /\ does.conns \subseteq Conn /\ does \in Workloads
    BY TaskAssumption DEF Inv, TypeOK
  <1>3. /\ w \in Worlds /\ Sound(w, Moving) /\ SoundBut(w, Moving, {}) /\ Moving \in BOOLEAN
    BY DEF Inv, TypeOK, Sound, Moving
  <1>4. Live(w) \subseteq Queue /\ w.queue \in [Queue -> TQueues]
    BY <1>3, ActiveList, WorldFields
  <1> QED
    BY <1>1, <1>2, <1>3, <1>4 DEF Inv, TypeOK

\* A step in which nobody's tasks or counts change.
LEMMA CarriedLedger ==
  ASSUME Sound(World, Moving), NEW v, Sound(v, Moving), v.waiting = World.waiting,
         Carried(World, v)
  PROVE  Ledger(v)
  <1>1. World \in Worlds /\ OneQueue(World) /\ v \in Worlds /\ OneQueue(v)
    BY DEF Sound, SoundBut
  <1> QED
    BY <1>1, CarriedBooks DEF Ledger, Booked

\* A step in which no task moves.
LEMMA SameGood ==
  ASSUME Inv, NEW v, Sound(v, Moving), Kept(World, v), SameWork(World, v),
         NEW where, NEW c, Thread(v, where, c), c.id = cur.id
  PROVE  Good(v, where, c, external)
  <1>1. v \in Worlds /\ World \in Worlds
    BY DEF Inv, TypeOK, Sound, SoundBut
  <1>2. /\ v.waiting = World.waiting /\ Bg(v) = Bg(World) /\ Rd(v) = Rd(World)
        /\ Nb(v) = Nb(World) /\ Opened(World, v)
    BY <1>1, SameWorkIs
  <1>3. OneEach(v.waiting, Bg(v), Rd(v), external, c.id)
    BY <1>2, WorldIs DEF Inv
  <1>4. ReadersKept(World, v)
    BY DEF ReadersKept, Kept
  <1>5. Carried(World, v)
    BY <1>1, <1>2, SameCarried DEF Sound, SoundBut
  <1>6. Ledger(v)
    BY <1>2, <1>5, CarriedLedger DEF Inv
  <1> QED
    BY <1>3, <1>4, <1>6, Before DEF Good

LEMMA SelfLedger ==
  Ledger(World)
  BY DEF Ledger

\* A change of one queue.
LEMMA RowCounts ==
  ASSUME NEW w \in Worlds, NEW v, NEW q \in Live(w), NEW r, NEW moving, NEW but,
         RowSet(w, v, moving, but, q, r), r.player = w.queue[q].player
  PROVE  /\ q \in Queue /\ Pl(v) = Pl(w) /\ v.waiting = w.waiting
         /\ Nb(v) = [Nb(w) EXCEPT ![q] = r.num_bg] /\ Nb(w)[q] = w.queue[q].num_bg
         /\ Bg(v) = [Bg(w) EXCEPT ![q] = r.bg] /\ Bg(w)[q] = w.queue[q].bg
  <1>1. q \in Queue /\ Live(w) \subseteq Queue
    BY ActiveList
  <1>2. /\ Live(v) = Live(w) /\ v.queue[q] = r /\ v.waiting = w.waiting
        /\ \A p \in Queue \ {q} : v.queue[p] = w.queue[p]
    BY DEF RowSet
  <1>3. Pl(v) = Pl(w)
    BY <1>1, <1>2 DEF Pl
  <1>4. Nb(v) = [Nb(w) EXCEPT ![q] = r.num_bg] /\ Nb(w)[q] = w.queue[q].num_bg
    BY <1>1, <1>2 DEF Nb
  <1>5. Bg(v) = [Bg(w) EXCEPT ![q] = r.bg] /\ Bg(w)[q] = w.queue[q].bg
    BY <1>1, <1>2 DEF Bg
  <1> QED
    BY <1>1, <1>2, <1>3, <1>4, <1>5

LEMMA RowLedger ==
  ASSUME World \in Worlds, NEW v, NEW q \in Live(World), NEW r, NEW but,
         RowSet(World, v, Moving, but, q, r), r.player = World.queue[q].player,
         r.num_bg = World.queue[q].num_bg, r.bg = World.queue[q].bg
  PROVE  Ledger(v)
  <1>1. PICK w : w = World
    OBVIOUS
  <1>2. PICK m : m = Moving
    OBVIOUS
  <1>3. /\ w \in Worlds /\ q \in Live(w) /\ RowSet(w, v, m, but, q, r)
        /\ r.player = w.queue[q].player
    BY <1>1, <1>2
  <1>4. r.num_bg = w.queue[q].num_bg /\ r.bg = w.queue[q].bg
    BY <1>1
  <1>5. /\ q \in Queue /\ Pl(v) = Pl(w) /\ v.waiting = w.waiting
        /\ Nb(v) = [Nb(w) EXCEPT ![q] = r.num_bg] /\ Nb(w)[q] = w.queue[q].num_bg
        /\ Bg(v) = [Bg(w) EXCEPT ![q] = r.bg] /\ Bg(w)[q] = w.queue[q].bg
    BY ONLY <1>3, RowCounts
  <1>6. Nb(v) = Nb(w) /\ Bg(v) = Bg(w)
    <2>1. Nb(w) = [Nb(w) EXCEPT ![q] = Nb(w)[q]]
      BY <1>5 DEF Nb
    <2>2. Bg(w) = [Bg(w) EXCEPT ![q] = Bg(w)[q]]
      BY <1>5 DEF Bg
    <2> QED
      BY <1>4, <1>5, <2>1, <2>2
  <1> QED
    BY <1>1, <1>5, <1>6 DEF Ledger, Booked, Balanced

\* One of the ready tasks of a queue has left it.
LEMMA TookLedger ==
  ASSUME Sound(World, Moving), NEW v, NEW q \in Live(World), NEW r, NEW but,
         RowSet(World, v, Moving, but, q, r), r.player = World.queue[q].player,
         r.num_bg = World.queue[q].num_bg - 1, Len(r.bg) = Len(World.queue[q].bg) - 1,
         \A i \in DOMAIN r.bg : \E j \in DOMAIN World.queue[q].bg : r.bg[i] = World.queue[q].bg[j]
  PROVE  Ledger(v)
  <1>1. PICK w : w = World
    OBVIOUS
  <1>2. PICK m : m = Moving
    OBVIOUS
  <1>3. /\ w \in Worlds /\ q \in Live(w) /\ RowSet(w, v, m, but, q, r)
        /\ r.player = w.queue[q].player /\ OneQueue(w)
    BY <1>1, <1>2 DEF Sound, SoundBut
  <1>4. PICK b : b = r.bg
    OBVIOUS
  <1>5. /\ r.num_bg = w.queue[q].num_bg - 1 /\ Len(b) = Len(w.queue[q].bg) - 1
        /\ \A i \in DOMAIN b : \E j \in DOMAIN w.queue[q].bg : b[i] = w.queue[q].bg[j]
    BY <1>1, <1>4
  <1>6. /\ q \in Queue /\ Pl(v) = Pl(w) /\ v.waiting = w.waiting
        /\ Nb(v) = [Nb(w) EXCEPT ![q] = r.num_bg] /\ Nb(w)[q] = w.queue[q].num_bg
        /\ Bg(v) = [Bg(w) EXCEPT ![q] = r.bg] /\ Bg(w)[q] = w.queue[q].bg
    BY ONLY <1>3, RowCounts
  <1>7. Nb(v) = [Nb(w) EXCEPT ![q] = Nb(w)[q] - 1]
    BY ONLY <1>5, <1>6
  <1>8. Bg(v) = [Bg(w) EXCEPT ![q] = b] /\ Len(b) = Len(Bg(w)[q]) - 1
    BY ONLY <1>4, <1>5, <1>6
  <1>9. \A i \in DOMAIN b : \E j \in DOMAIN Bg(w)[q] : b[i] = Bg(w)[q][j]
    BY ONLY <1>5, <1>6
  <1>10. PICK T : T = Waits(w.waiting)
    OBVIOUS
  <1>12. Len(b) \in Nat
    <2>1. v \in Worlds /\ v.queue[q] = r
      BY <1>3 DEF RowSet, SoundBut
    <2>2. b \in Seq(Tasks)
      BY <1>4, <1>6, <2>1, WorldFields, RowFields
    <2> QED
      BY <2>2, LenProperties
  <1>11. Balanced(w, T) => Balanced(v, T)
    <2>1. HAVE Balanced(w, T)
    <2> QED
      BY ONLY <1>3, <1>6, <1>7, <1>8, <1>9, <1>12, <2>1, TookBooks
  <1> QED
    BY <1>1, <1>6, <1>10, <1>11 DEF Ledger, Booked

\* What is done after a step that kept the counts right.
LEMMA FreedLedger ==
  ASSUME NEW w, Sound(w, Moving), Ledger(w), NEW v, Freed(w, v, Moving)
  PROVE  Ledger(v)
  <1>1. w \in Worlds /\ OneQueue(w) /\ v \in Worlds /\ OneQueue(v) /\ v.waiting = w.waiting
    BY DEF Freed, Sound, SoundBut
  <1>2. Carried(w, v)
    BY FreedCarried
  <1> QED
    BY <1>1, <1>2, CarriedBooks DEF Ledger, Booked

LEMMA SameLedger ==
  ASSUME NEW w \in Worlds, OneQueue(w), Ledger(w), NEW v \in Worlds, OneQueue(v),
         Kept(w, v), SameWork(w, v)
  PROVE  Ledger(v)
  <1>1. v.waiting = w.waiting /\ Bg(v) = Bg(w) /\ Nb(v) = Nb(w) /\ Opened(w, v)
    BY SameWorkIs
  <1>2. Carried(w, v)
    BY <1>1, SameCarried
  <1> QED
    BY <1>1, <1>2, CarriedBooks DEF Ledger, Booked

LEMMA TakenLedger ==
  ASSUME Sound(World, Moving), NEW v, TakenOver(World, v, Moving)
  PROVE  Ledger(v)
  <1>1. World \in Worlds /\ OneQueue(World) /\ v \in Worlds /\ OneQueue(v)
        /\ v.waiting = World.waiting
    BY DEF TakenOver, Sound, SoundBut
  <1>2. Booked(World) => Carried(World, v)
    BY <1>1, TidyBooks DEF TakenOver, Booked
  <1> QED
    BY <1>1, <1>2, CarriedBooks DEF Ledger, Booked

\* A task that the limit lets in waits from now on.
LEMMA CountedLedger ==
  ASSUME Sound(World, Moving), NEW t \in Tasks, CanFind(World, t.progr),
         check_user_task_limit(t.progr), NEW v, v = enqueue_waiting(World, t)
  PROVE  Ledger(v)
  <1>1. PICK w : w = World
    OBVIOUS
  <1>2. /\ w \in Worlds /\ Sound(w, Moving) /\ w.waiting \in Seq(Tasks) /\ w.queue = queue
        /\ Live(w) \subseteq Queue
    BY <1>1, WorldFields, WorldIs, ActiveList DEF Sound, SoundBut
  <1>3. /\ Sound(v, Moving) /\ Bg(v) = Bg(w) /\ Placed(w.waiting, t, v.waiting) /\ Opened(w, v)
        /\ \E q \in Queue : Pl(v)[q] = t.progr /\ Nb(v) = [Nb(w) EXCEPT ![q] = Nb(w)[q] + 1]
    BY <1>1, <1>2, EnqueueWaiting
  <1>4. PICK p : p = t.progr
    OBVIOUS
  <1>5. PICK q \in Queue : Pl(v)[q] = p /\ Nb(v) = [Nb(w) EXCEPT ![q] = Nb(w)[q] + 1]
    BY <1>3, <1>4
  <1>6. v \in Worlds /\ OneQueue(v)
    BY <1>3 DEF Sound, SoundBut
  <1>7. /\ p \in Owners /\ p # NOTHING
        /\ Waits(v.waiting) = [Waits(w.waiting) EXCEPT ![p] = Waits(w.waiting)[p] + 1]
    BY <1>2, <1>3, <1>4, <1>6, WaitsPlaced, OneOwner
  <1>8. Limited => Nb(w)[q] < TaskLimit
    <2>1. CASE QueuesOf(w, p) = {}
      <3>1. Pl(w)[q] # p
        BY <1>7, <2>1 DEF Pl, QueuesOf
      <3>2. Nb(w)[q] = 0
        BY <1>3, <1>5, <3>1 DEF Opened
      <3>3. TaskLimit < 0 \/ 0 < TaskLimit
        BY <1>1, <1>4, <2>1 DEF check_user_task_limit
      <3> QED
        BY <3>2, <3>3, TaskAssumption DEF Limited
    <2>2. CASE QueuesOf(w, p) # {}
      <3>1. PICK r : r = QueueOf(w, p)
        OBVIOUS
      <3>2. r \in QueuesOf(w, p)
        BY <2>2, <3>1 DEF QueueOf
      <3>3. r \in Queue /\ Pl(w)[r] = p /\ Nb(w)[r] = w.queue[r].num_bg
        BY <1>2, <3>2 DEF QueuesOf, Pl, Nb
      <3>4. Pl(v)[r] = p
        BY <1>3, <1>7, <3>3 DEF Opened
      <3>5. r = q
        BY <1>5, <1>6, <1>7, <3>3, <3>4, OneOwner
      <3>6. TaskLimit < 0 \/ w.queue[r].num_bg < TaskLimit
        BY <1>1, <1>2, <1>4, <2>2, <3>1 DEF check_user_task_limit
      <3>7. TaskLimit < 0 \/ Nb(w)[q] < TaskLimit
        BY <3>3, <3>5, <3>6
      <3> QED
        BY <3>7, TaskAssumption DEF Limited
    <2> QED
      BY <2>1, <2>2
  <1>9. ASSUME Booked(w) PROVE Booked(v)
    <2>1. PICK T : T = Waits(w.waiting)
      OBVIOUS
    <2>2. Balanced(w, T)
      BY <1>9, <2>1 DEF Booked
    <2>3. Balanced(v, [T EXCEPT ![p] = T[p] + 1])
      BY ONLY <1>2, <1>3, <1>5, <1>6, <1>7, <1>8, <2>2, CountedBooks
    <2> QED
      BY <1>7, <2>1, <2>3 DEF Booked
  <1> QED
    BY <1>1, <1>9 DEF Ledger

\* The thread stays where it is and the first of the active queues too.
LEMMA SameThread ==
  ASSUME NEW w, NEW v, Kept(w, v), NEW where, NEW c, Thread(w, where, c)
  PROVE  Thread(v, where, c)
  BY DEF Thread, Kept

\* A thread without a task relies on no queue.
LEMMA IdleThread ==
  ASSUME NEW v, NEW where \in {"loop", "ready"}
  PROVE  Thread(v, where, NoTask)
  BY DEF Thread, Threads, NoTask, Running

-----------------------------------------------------------------------------
(* main_loop.                                                              *)

LEMMA NewConnectionSafe ==
  ASSUME Inv, NEW c, server_new_connection(c) PROVE Safe
  <1>1. PICK w : w = World
    OBVIOUS
  <1>2. /\ Sound(w, Moving) /\ SoundBut(w, Moving, {}) /\ Thread(w, phase, cur)
        /\ does \in Workloads /\ now \in 1..MaxTime
        /\ unused \in SUBSET Conn
    BY <1>1, Before
  <1>3. PICK v : v = find_tqueue(w, c)
    OBVIOUS
  <1>4. PICK q : q = QueueOf(v, c)
    OBVIOUS
  <1>5. PICK o : o = [v.queue[q] EXCEPT !.connected = TRUE]
    OBVIOUS
  <1>6. PICK x : x = enqueue_input_task(SetRow(v, q, o), q, Line("INBAND", 0), FALSE)
    OBVIOUS
  <1>7. PICK y : y = [x.queue[q] EXCEPT !.susp = TRUE]
    OBVIOUS
  <1>8. PICK z : z = SetRow(x, q, y)
    OBVIOUS
  <1>9. SetWorld(z)
    BY <1>1, <1>3, <1>4, <1>5, <1>6, <1>7, <1>8 DEF server_new_connection, SetRow
  <1>10. Found(w, v, Moving, {}, c, q) /\ c \in Conn
    <2>1. c \in User \cup Conn /\ CanFind(w, c) /\ c \in Conn
      BY <1>1, <1>2 DEF server_new_connection
    <2> QED
      BY <1>2, <1>3, <1>4, <2>1, FindQueue
  <1>11. /\ Sound(v, Moving) /\ Kept(w, v) /\ SameWork(w, v) /\ q \in Live(v) /\ q \in Queue
         /\ v.queue[q].player = c /\ c # NOTHING
    BY <1>10, TaskAssumption DEF Found, Sound
  <1>12. Line("INBAND", 0) \in Lines
    BY DEF Line, Lines, InputKinds
  <1>13. Enqueued(v, x, Moving, q, TRUE)
    BY ONLY <1>5, <1>6, <1>11, <1>12, EnqueueOn
  <1>14. /\ Sound(x, Moving) /\ SoundBut(x, Moving, {}) /\ Kept(v, x) /\ SameWork(v, x)
         /\ Live(x) = Live(v) /\ x.queue[q].input # <<>> /\ x \in Worlds
         /\ LiveRow(x.queue[q]) /\ (q \in x.idle => IdleRow(x.queue[q], Moving))
    BY <1>11, <1>13 DEF Enqueued, Sound, SoundBut
  <1>15. x.queue[q] \in TQueues
    BY <1>11, <1>14, WorldFields
  <1>16. /\ y \in TQueues /\ y.usage = x.queue[q].usage /\ y.player = x.queue[q].player
         /\ y.bg = x.queue[q].bg /\ y.reading = x.queue[q].reading /\ y.num_bg = x.queue[q].num_bg
         /\ y.input = x.queue[q].input /\ y.connected = x.queue[q].connected
         /\ y.hold = x.queue[q].hold /\ y.no_oob = x.queue[q].no_oob
    BY <1>7, <1>15 DEF TQueues
  <1>17. LiveRow(y) /\ (q \in x.idle \ {} => IdleRow(y, Moving))
    BY <1>14, <1>16 DEF LiveRow, IdleRow, Quiet, is_out_of_input
  <1>18. RowSet(x, z, Moving, {}, q, y)
    BY <1>8, <1>11, <1>14, <1>16, <1>17, RowChanged
  <1>19. Sound(z, Moving) /\ Kept(x, z) /\ SameWork(x, z)
    BY <1>16, <1>17, <1>18 DEF RowSet, Sound
  <1>20. Kept(w, z) /\ SameWork(w, z)
    BY <1>11, <1>14, <1>19, KeptThenKept
  <1>21. Good(z, phase, cur, external)
    BY <1>1, <1>2, <1>19, <1>20, SameGood, SameThread
  <1>22. Good(z, phase', cur', external') /\ Clockwork
    BY <1>2, <1>21 DEF server_new_connection, Clockwork
  <1> QED
    BY <1>2, <1>9, <1>22, StepTo

LEMMA ReceiveLineSafe ==
  ASSUME Inv, NEW q \in Live(World), NEW kind \in InputKinds, server_receive_line(q, kind)
  PROVE  Safe
  <1>1. PICK w : w = World
    OBVIOUS
  <1>2. /\ Sound(w, Moving) /\ Thread(w, phase, cur)
        /\ does \in Workloads /\ now \in 1..MaxTime
        /\ unused \in SUBSET Conn
    BY <1>1, Before
  <1>3. PICK v : v = enqueue_input_task(w, q, Line(kind, 1), FALSE)
    OBVIOUS
  <1>4. Line(kind, 1) \in Lines
    BY DEF Line, Lines
  <1>5. Enqueued(w, v, Moving, q, w.queue[q].connected)
    BY <1>1, <1>2, <1>3, <1>4, Enqueue
  <1>6. Good(v, phase, cur, external)
    BY <1>1, <1>2, <1>5, SameGood, SameThread DEF Enqueued
  <1>7. SetWorld(v) /\ Good(v, phase', cur', external') /\ Clockwork
    BY <1>1, <1>2, <1>3, <1>6 DEF server_receive_line, Clockwork
  <1> QED
    BY <1>2, <1>7, StepTo

LEMMA FlushCommandSafe ==
  ASSUME Inv, NEW q \in Live(World), ReceiveFlushCommand(q)
  PROVE  Safe
  <1>1. PICK w : w = World
    OBVIOUS
  <1>2. /\ SoundBut(w, Moving, {}) /\ Thread(w, phase, cur)
        /\ does \in Workloads /\ now \in 1..MaxTime
        /\ unused \in SUBSET Conn
    BY <1>1, Before
  <1>3. PICK v : v = flush_input(w, q)
    OBVIOUS
  <1>4. SoundBut(v, Moving, {}) /\ Kept(w, v) /\ SameWork(w, v)
    BY <1>1, <1>2, <1>3, Flush
  <1>5. Good(v, phase, cur, external)
    BY <1>1, <1>2, <1>4, SameGood, SameThread DEF Sound
  <1>6. SetWorld(v) /\ Good(v, phase', cur', external') /\ Clockwork
    BY <1>1, <1>2, <1>3, <1>5 DEF ReceiveFlushCommand, Clockwork
  <1> QED
    BY <1>2, <1>6, StepTo

\* The id of a new task is that of no other.
LEMMA FreshId ==
  ASSUME Inv, FreshIds # {}
  PROVE  /\ new_task_id \in TaskId /\ new_task_id # cur.id
         /\ new_task_id \notin ListIds(waiting) /\ new_task_id \notin ReadyIds(Bg(World))
         /\ new_task_id \notin ReaderIds(Rd(World)) /\ new_task_id \notin ExternIds(external)
  <1>1. PICK w : w = World
    OBVIOUS
  <1>2. /\ w \in Worlds /\ Live(w) \subseteq Queue /\ w.queue = queue /\ w.waiting = waiting
        /\ does \in Workloads /\ w.queue \in [Queue -> TQueues]
    BY <1>1, Before
  <1>3. does.ids \subseteq TaskId /\ TaskId \subseteq Nat
    BY <1>2, TaskAssumption
  <1>4. new_task_id \in FreshIds
    <2>1. FreshIds \subseteq Nat
      BY <1>3 DEF FreshIds
    <2> QED
      BY <2>1, MinOfNumbers DEF new_task_id
  <1>5. PICK id : id = new_task_id
    OBVIOUS
  <1>6. /\ id \in TaskId /\ id # cur.id /\ id \notin WaitingIds /\ id \notin BgIds(w)
        /\ id \notin ReadingIds /\ id \notin ExternalIds
    BY <1>1, <1>3, <1>4, <1>5 DEF FreshIds, QueuedIds
  <1>7. ListIds(waiting) \subseteq WaitingIds
    BY DEF ListIds, WaitingIds, ToSet
  <1>8. ReadyIds(Bg(w)) \subseteq BgIds(w)
    <2> SUFFICES ASSUME NEW q \in Queue, NEW i \in DOMAIN Bg(w)[q]
                 PROVE  Bg(w)[q][i].id \in BgIds(w)
      BY DEF ReadyIds, ListIds
    <2>1. DOMAIN <<>> = {}
      OBVIOUS
    <2>2. q \in Live(w) /\ Bg(w)[q] = w.queue[q].bg
      BY <2>1 DEF Bg
    <2> QED
      BY <2>2 DEF BgIds, ToSet
  <1>9. ReaderIds(Rd(w)) \subseteq ReadingIds
    BY <1>1, <1>2 DEF ReaderIds, ReadingIds, Rd
  <1>10. ExternIds(external) = ExternalIds
    BY DEF ExternIds, ExternalIds
  <1> QED
    BY <1>1, <1>5, <1>6, <1>7, <1>8, <1>9, <1>10

\* The running task may have any id that no other task has, or none.
LEMMA CurrentOne ==
  ASSUME NEW W, NEW B, NEW R, NEW E, NEW old, NEW id, OneEach(W, B, R, E, old),
         id = 0 \/ (/\ id \notin ListIds(W) /\ id \notin ReadyIds(B)
                    /\ id \notin ReaderIds(R) /\ id \notin ExternIds(E))
  PROVE  OneEach(W, B, R, E, id)
  BY DEF OneEach, Apart

LEMMA SpareFresh ==
  ASSUME SpareIds PROVE FreshIds # {}
  <1>1. IdsForLines \in Nat /\ Cardinality({}) = 0
    BY TaskAssumption, FS_EmptySet DEF IdsForLines
  <1>2. Cardinality(FreshIds) > IdsForLines
    BY DEF SpareIds
  <1>3. Cardinality(FreshIds) # Cardinality({})
    BY ONLY <1>1, <1>2
  <1> QED
    BY ONLY <1>3

\* A step that leaves the world alone and starts or goes on with task c.
LEMMA SameWorld ==
  ASSUME Inv, UNCHANGED <<queue, active, idle, waiting, external>>, Clockwork,
         Thread(World, phase', cur'), OneEach(waiting, Bg(World), Rd(World), external, cur'.id)
  PROVE  Safe
  <1>1. PICK w : w = World
    OBVIOUS
  <1>2. Sound(w, Moving) /\ external \subseteq Vms /\ does \in Workloads /\ w.waiting = waiting
    BY <1>1, Before
  <1>3. SetWorld(w)
    BY <1>1, WorldIs DEF SetWorld
  <1>4. Good(w, phase', cur', external')
    BY <1>1, <1>2, SelfLedger DEF Good, ReadersKept
  <1> QED
    BY <1>2, <1>3, <1>4, StepTo

LEMMA TaskStarts ==
  ASSUME Inv, FreshIds # {}, UNCHANGED <<queue, active, idle, waiting, external>>, Clockwork,
         phase' = "task", NEW progr \in User, NEW q \in Live(World) \cup {0},
         cur' = Running(new_task_id, progr, 0, FALSE, q)
  PROVE  Safe
  <1>1. Thread(World, phase', cur')
    <2>1. q \in Queue \cup {0} /\ new_task_id \in TaskId
      BY Before, FreshId
    <2> QED
      BY <2>1 DEF Thread, Threads, Running, NoTask
  <1>2. OneEach(waiting, Bg(World), Rd(World), external, cur'.id)
    <2>1. cur'.id = new_task_id
      BY DEF Running
    <2> QED
      BY <2>1, FreshId, CurrentOne DEF Inv
  <1> QED
    BY <1>1, <1>2, SameWorld

LEMMA CloseConnectionSafe ==
  ASSUME Inv, NEW q, NEW progr \in does.users, CloseConnection(q, progr)
  PROVE  Safe
  <1>1. /\ does \in Workloads /\ now \in 1..MaxTime
        /\ unused \in SUBSET Conn /\ does.users \subseteq User
    BY Before
  <1>2. FreshIds # {} /\ q \in Live(World) \cup {0} /\ progr \in User
    BY <1>1, SpareFresh DEF CloseConnection
  <1>3. Clockwork
    BY <1>1 DEF CloseConnection, Clockwork
  <1> QED
    BY <1>2, <1>3, TaskStarts DEF CloseConnection

LEMMA ServerTaskSafe ==
  ASSUME Inv, NEW progr \in does.users, ServerTask(progr)
  PROVE  Safe
  <1>1. /\ does \in Workloads /\ now \in 1..MaxTime
        /\ unused \in SUBSET Conn /\ does.users \subseteq User
    BY Before
  <1>2. FreshIds # {} /\ 0 \in Live(World) \cup {0} /\ progr \in User
    BY <1>1, SpareFresh DEF ServerTask
  <1>3. Clockwork
    BY <1>1 DEF ServerTask, Clockwork
  <1> QED
    BY <1>2, <1>3, TaskStarts DEF ServerTask

LEMMA TickSafe ==
  ASSUME Inv, Tick PROVE Safe
  <1>1. /\ does \in Workloads /\ now \in 1..MaxTime
        /\ unused \in SUBSET Conn /\ Thread(World, phase, cur)
    BY Before
  <1>2. now + 1 \in 1..MaxTime
    BY <1>1, TaskAssumption DEF Tick
  <1>3. Clockwork
    BY <1>1, <1>2 DEF Tick, Clockwork
  <1> QED
    BY <1>1, <1>3, SameWorld DEF Tick, Inv

LEMMA ExecCompletesSafe ==
  ASSUME Inv, NEW vm \in external, ExecCompletes(vm)
  PROVE  Safe
  <1>1. PICK w : w = World
    OBVIOUS
  <1>2. /\ w \in Worlds /\ Sound(w, Moving) /\ Thread(w, phase, cur)
        /\ does \in Workloads /\ now \in 1..MaxTime
        /\ unused \in SUBSET Conn /\ external \subseteq Vms
        /\ OneEach(w.waiting, Bg(w), Rd(w), external, cur.id)
    BY <1>1, Before
  <1>3. vm \in Vms /\ CanFind(w, vm.progr)
    BY <1>1, <1>2 DEF ExecCompletes
  <1>4. PICK v : v = resume_task(w, vm)
    OBVIOUS
  <1>5. PICK t : t = Task("SUSPENDED", vm.id, vm.progr, 0)
    OBVIOUS
  <1>6. /\ Sound(v, Moving) /\ Kept(w, v) /\ v.waiting = w.waiting
        /\ \E q : Readied(w, v, q, t)
    BY ONLY <1>2, <1>3, <1>4, <1>5, ResumeTask
  <1>7. t \in Tasks /\ t.id = vm.id
    BY <1>3, <1>5 DEF Task, Tasks, Vms
  <1>8. t.id \in ExternIds(external)
    BY <1>7 DEF ExternIds
  <1>9. t.id \notin ReadyIds(Bg(w)) /\ ReadyOne(Bg(w))
    BY <1>2, <1>8 DEF OneEach, Apart
  <1>10. ReadyOne(Bg(v)) /\ ReadyIds(Bg(v)) = ReadyIds(Bg(w)) \cup {t.id} /\ Rd(v) = Rd(w)
    BY <1>2, <1>6, <1>7, <1>9, ReadiedOne
  <1>11. ExternIds(external \ {vm}) = ExternIds(external) \ {t.id} /\ ExternOne(external \ {vm})
    BY <1>2, <1>7 DEF OneEach, ExternOne, ExternIds
  <1>12. OneEach(v.waiting, Bg(v), Rd(v), external \ {vm}, cur.id)
    BY ONLY <1>2, <1>6, <1>8, <1>10, <1>11 DEF OneEach, Apart
  <1>13. Good(v, phase, cur, external \ {vm})
    BY <1>1, <1>2, <1>6, <1>12, SameThread DEF Good, ReadersKept, Kept, Ledger
  <1>14. SetWorld(v) /\ Good(v, phase', cur', external') /\ Clockwork
    BY <1>1, <1>2, <1>4, <1>13 DEF ExecCompletes, Clockwork
  <1> QED
    BY <1>2, <1>14, StepTo

-----------------------------------------------------------------------------
(* run_ready_tasks.                                                        *)

LEMMA RunReadyTasksSafe ==
  ASSUME Inv, RunReadyTasks PROVE Safe
  <1>1. PICK w : w = World
    OBVIOUS
  <1>2. /\ Sound(w, Moving) /\ Thread(w, phase, cur) /\ external \subseteq Vms
        /\ does \in Workloads /\ now \in 1..MaxTime
        /\ unused \in SUBSET Conn /\ w.waiting = waiting
        /\ OneEach(w.waiting, Bg(w), Rd(w), external, cur.id)
    BY <1>1, Before
  <1>3. PICK v : v = MoveDue(w, now)
    OBVIOUS
  <1>4. Cardinality({p \in {t.progr : t \in ToSet(w.waiting)} : QueuesOf(w, p) = {}})
          <= Cardinality(FreeSlots(w))
    BY <1>1, <1>2 DEF RunReadyTasks
  <1>5. Due(w, v, Moving, external, cur.id)
    BY <1>2, <1>3, <1>4, MoveDueSound
  <1>6. cur = NoTask
    BY <1>2 DEF Thread, RunReadyTasks
  <1>7. Good(v, "ready", cur, external)
    BY <1>1, <1>2, <1>5, <1>6, IdleThread DEF Due, Good, ReadersKept, Kept, Ledger
  <1>8. SetWorld(v) /\ Good(v, phase', cur', external') /\ Clockwork
    BY <1>1, <1>2, <1>3, <1>7 DEF RunReadyTasks, Clockwork
  <1> QED
    BY <1>2, <1>8, StepTo

\* The head queue: it is active, and there is no task.
LEMMA AtHeadIs ==
  ASSUME Inv, AtHead, NEW w, w = World, NEW q, q = HeadQueue
  PROVE  /\ q \in Queue /\ q \in Live(w) /\ q \notin w.idle /\ q = w.active[1] /\ w.active # <<>>
         /\ w.queue[q] = queue[q] /\ w.queue[q] \in TQueues /\ LiveRow(w.queue[q])
         /\ cur = NoTask /\ w.queue[q].usage \in 0..MaxUsage /\ q # 0
         /\ q \in ToSet(w.active)
  <1>1. /\ w \in Worlds /\ Thread(w, phase, cur) /\ w.active = active /\ w.queue = queue
        /\ SoundBut(w, Moving, {}) /\ w.queue \in [Queue -> TQueues]
    BY Before
  <1>2. w.active # <<>> /\ q = Head(w.active)
    BY <1>1 DEF AtHead, HeadQueue
  <1>3. q = w.active[1] /\ q \in ToSet(w.active) /\ q \in Queue
    BY <1>1, <1>2, ActiveList
  <1>4. q \in Live(w) /\ q \notin w.idle /\ w.queue[q].usage >= 0
    BY <1>1, <1>3 DEF SoundBut, ListsSound, Live
  <1>5. cur = NoTask
    BY <1>1 DEF Thread, AtHead
  <1>6. w.queue[q] \in TQueues /\ LiveRow(w.queue[q])
    BY <1>1, <1>3, <1>4 DEF SoundBut
  <1>7. w.queue[q].usage \in 0..MaxUsage
    BY <1>4, <1>6, RowFields
  <1>8. q # 0
    BY <1>3, QueueAssumption
  <1> QED
    BY <1>1, <1>2, <1>3, <1>4, <1>5, <1>6, <1>7, <1>8

\* A change of the head queue, which is active.
LEMMA HeadRow ==
  ASSUME Inv, AtHead, NEW w, w = World, NEW q, q = HeadQueue, NEW r \in TQueues,
         r.usage = w.queue[q].usage, r.player = w.queue[q].player, LiveRow(r),
         NEW v, v = SetRow(w, q, r)
  PROVE  /\ RowSet(w, v, Moving, {}, q, r) /\ Sound(v, Moving)
         /\ v.active[1] = q /\ v.active # <<>> /\ ReadersKept(w, v)
         /\ Rd(v) = [Rd(w) EXCEPT ![q] = r.reading.id]
         /\ Bg(v) = [Bg(w) EXCEPT ![q] = r.bg]
         /\ w.queue[q].bg = Bg(w)[q] /\ w.queue[q].reading.id = Rd(w)[q]
  <1>1. /\ q \in Queue /\ q \in Live(w) /\ q \notin w.idle /\ q = w.active[1] /\ w.active # <<>>
    BY AtHeadIs
  <1>2. SoundBut(w, Moving, {}) /\ Live(w) \subseteq Queue
    BY Before
  <1>3. RowSet(w, v, Moving, {}, q, r)
    BY <1>1, <1>2, RowChanged
  <1>4. /\ Sound(v, Moving) /\ Live(v) = Live(w) /\ v.queue[q] = r /\ v.active = w.active
        /\ \A p \in Queue \ {q} : v.queue[p] = w.queue[p]
    BY <1>1, <1>3 DEF RowSet, Sound
  <1>5. ReadersKept(w, v)
    BY <1>4 DEF ReadersKept
  <1>6. Rd(v) = [Rd(w) EXCEPT ![q] = r.reading.id] /\ Bg(v) = [Bg(w) EXCEPT ![q] = r.bg]
    BY <1>1, <1>2, <1>4 DEF Rd, Bg
  <1>7. w.queue[q].bg = Bg(w)[q] /\ w.queue[q].reading.id = Rd(w)[q]
    BY <1>1 DEF Bg, Rd
  <1> QED
    BY <1>1, <1>3, <1>4, <1>5, <1>6, <1>7

\* A reader that reads no more.
LEMMA ReaderTake ==
  ASSUME NEW R \in [Queue -> TaskId \cup {0}], ReaderOne(R), NEW q \in Queue, R[q] # 0,
         NEW T, T = [R EXCEPT ![q] = 0]
  PROVE  ReaderOne(T) /\ ReaderIds(T) = ReaderIds(R) \ {R[q]} /\ R[q] \in ReaderIds(R)
  <1>1. T[q] = 0 /\ \A p \in Queue \ {q} : T[p] = R[p] /\ (R[p] = 0 \/ R[p] # R[q])
    BY DEF ReaderOne
  <1>2. ReaderIds(T) = ReaderIds(R) \ {R[q]}
    BY <1>1 DEF ReaderIds
  <1>3. ReaderOne(T)
    BY <1>1 DEF ReaderOne
  <1> QED
    BY <1>2, <1>3 DEF ReaderIds

LEMMA ResumeReaderSafe ==
  ASSUME Inv, AtHead, NEW h \in TQueues, h.reading # NoVm, h.reading = queue[HeadQueue].reading,
         h.bg = queue[HeadQueue].bg, h.usage = queue[HeadQueue].usage,
         h.player = queue[HeadQueue].player, h.num_bg = queue[HeadQueue].num_bg, LiveRow(h),
         ResumeReader(h)
  PROVE  Safe
  <1>1. PICK w : w = World
    OBVIOUS
  <1>2. PICK q : q = HeadQueue
    OBVIOUS
  <1>3. /\ w \in Worlds /\ external \subseteq Vms
        /\ does \in Workloads /\ now \in 1..MaxTime
        /\ unused \in SUBSET Conn /\ OneEach(w.waiting, Bg(w), Rd(w), external, cur.id)
    BY <1>1, Before
  <1>4. /\ q \in Queue /\ q \in Live(w) /\ q = w.active[1] /\ q # 0
        /\ w.queue[q] = queue[q] /\ w.queue[q] \in TQueues /\ cur = NoTask
    BY <1>1, <1>2, AtHeadIs
  <1>5. PICK r : r = [h EXCEPT !.reading = NoVm, !.parsing = FALSE]
    OBVIOUS
  <1>6. /\ r \in TQueues /\ r.reading = NoVm /\ r.bg = h.bg /\ r.usage = h.usage
        /\ r.player = h.player /\ r.susp = h.susp /\ r.connected = h.connected
        /\ r.input = h.input /\ r.num_bg = h.num_bg
    BY <1>5 DEF TQueues
  <1>7. LiveRow(r)
    BY <1>6 DEF LiveRow
  <1>8. PICK v : v = SetRow(w, q, r)
    OBVIOUS
  <1>9. SetWorld(v)
    BY <1>1, <1>2, <1>5, <1>8 DEF ResumeReader, SetRow
  <1>10. /\ RowSet(w, v, Moving, {}, q, r) /\ Sound(v, Moving)
         /\ v.active[1] = q /\ v.active # <<>> /\ ReadersKept(w, v)
         /\ Rd(v) = [Rd(w) EXCEPT ![q] = r.reading.id]
         /\ Bg(v) = [Bg(w) EXCEPT ![q] = r.bg]
         /\ w.queue[q].bg = Bg(w)[q] /\ w.queue[q].reading.id = Rd(w)[q]
    <2>1. r.usage = w.queue[q].usage /\ r.player = w.queue[q].player
      BY <1>2, <1>4, <1>6
    <2> QED
      BY <1>1, <1>2, <1>6, <1>7, <1>8, <2>1, HeadRow
  <1>11. h.reading \in Vms /\ h.reading.id = Rd(w)[q] /\ h.reading.id # 0
    <2>1. h.reading \in Vms
      BY RowFields
    <2> QED
      BY <1>2, <1>4, <1>10, <2>1, TaskAssumption DEF Vms
  <1>12. Bg(v) = Bg(w) /\ v.waiting = w.waiting
    <2>1. r.bg = Bg(w)[q]
      BY <1>2, <1>4, <1>6, <1>10, ZenonT(60)
    <2>2. Bg(w) \in [Queue -> Seq(Tasks)]
      BY <1>3, BgType
    <2> QED
      BY <1>10, <2>1, <2>2 DEF RowSet
  <1>13. ReaderOne(Rd(v)) /\ ReaderIds(Rd(v)) = ReaderIds(Rd(w)) \ {h.reading.id}
         /\ h.reading.id \in ReaderIds(Rd(w))
    <2>1. Rd(w) \in [Queue -> TaskId \cup {0}] /\ ReaderOne(Rd(w))
      BY <1>3, BgType DEF OneEach
    <2>2. NoVm.id = 0
      BY DEF NoVm
    <2>3. PICK R : R = Rd(w)
      OBVIOUS
    <2>4. PICK T : T = Rd(v)
      OBVIOUS
    <2>5. T = [R EXCEPT ![q] = 0] /\ R[q] = h.reading.id
      BY <1>6, <1>10, <1>11, <2>2, <2>3, <2>4
    <2>6. R \in [Queue -> TaskId \cup {0}] /\ ReaderOne(R) /\ R[q] # 0 /\ q \in Queue
      BY <1>4, <1>11, <2>1, <2>3
    <2>7. ReaderOne(T) /\ ReaderIds(T) = ReaderIds(R) \ {R[q]} /\ R[q] \in ReaderIds(R)
      BY ONLY <2>5, <2>6, ReaderTake
    <2> QED
      BY <2>3, <2>4, <2>5, <2>7
  <1>14. OneEach(v.waiting, Bg(v), Rd(v), external, h.reading.id)
    BY <1>3, <1>12, <1>13 DEF OneEach, Apart
  <1>15. phase' = "task" /\ cur' = Running(h.reading.id, h.reading.progr, q, FALSE, 0)
    BY <1>2 DEF ResumeReader, Start
  <1>16. Thread(v, phase', cur') /\ cur'.id = h.reading.id
    BY <1>4, <1>10, <1>11, <1>15 DEF Thread, Threads, Running, Vms
  <1>17. Ledger(v)
    <2>1. /\ r.player = w.queue[q].player /\ r.num_bg = w.queue[q].num_bg
          /\ r.bg = w.queue[q].bg
      BY <1>2, <1>4, <1>6
    <2> QED
      BY <1>1, <1>3, <1>4, <1>10, <2>1, RowLedger
  <1>18. Good(v, phase', cur', external') /\ Clockwork
    BY <1>1, <1>3, <1>10, <1>14, <1>16, <1>17 DEF Good, ResumeReader, Clockwork
  <1> QED
    BY <1>3, <1>9, <1>18, StepTo

LEMMA ReaderAtEofSafe ==
  ASSUME Inv, ReaderAtEof PROVE Safe
  <1>1. /\ queue[HeadQueue] \in TQueues /\ LiveRow(queue[HeadQueue])
        /\ queue[HeadQueue].reading # NoVm /\ AtHead
    BY AtHeadIs DEF ReaderAtEof, HeadReaderAtEof
  <1> QED
    BY <1>1, ResumeReaderSafe DEF ReaderAtEof

\* The line that the head queue offers can be taken.
LEMMA HeadLine ==
  ASSUME Inv, AtHead, HeadInput # 0, NEW h, h = dequeue_input_task(queue[HeadQueue], HeadInput)
  PROVE  /\ h \in TQueues /\ LiveRow(h)
         /\ h.player = queue[HeadQueue].player /\ h.bg = queue[HeadQueue].bg
         /\ h.usage = queue[HeadQueue].usage /\ h.reading = queue[HeadQueue].reading
         /\ h.num_bg = queue[HeadQueue].num_bg
  <1>1. PICK s : s = queue[HeadQueue]
    OBVIOUS
  <1>2. s \in TQueues /\ LiveRow(s)
    BY <1>1, AtHeadIs
  <1>3. HeadInput \in 1..Len(s.input)
    BY <1>1, <1>2, IndexIs DEF HeadInput
  <1> QED
    BY <1>1, <1>2, <1>3, Dequeue

LEMMA ReaderGetsLineSafe ==
  ASSUME Inv, ReaderGetsLine PROVE Safe
  <1>1. PICK h : h = dequeue_input_task(queue[HeadQueue], HeadInput)
    OBVIOUS
  <1>2. /\ h \in TQueues /\ LiveRow(h) /\ AtHead
        /\ h.player = queue[HeadQueue].player /\ h.bg = queue[HeadQueue].bg
        /\ h.usage = queue[HeadQueue].usage /\ h.reading = queue[HeadQueue].reading
        /\ h.num_bg = queue[HeadQueue].num_bg
    BY <1>1, HeadLine DEF ReaderGetsLine
  <1>3. h.reading # NoVm /\ ResumeReader(h)
    BY <1>1, <1>2 DEF ReaderGetsLine
  <1> QED
    BY <1>2, <1>3, ResumeReaderSafe

\* The head queue has given up a line, without a task to run for it.
LEMMA HeadDone ==
  ASSUME Inv, AtHead, NEW h \in TQueues, LiveRow(h), h.player = queue[HeadQueue].player,
         h.bg = queue[HeadQueue].bg, h.usage = queue[HeadQueue].usage,
         h.reading = queue[HeadQueue].reading, h.num_bg = queue[HeadQueue].num_bg,
         NEW v, v = SetRow(World, HeadQueue, h), NEW y, y = DidOne(v, HeadQueue, 0)
  PROVE  Good(v, "ready", cur, external) /\ Good(y, "loop", cur, external)
  <1>1. PICK w : w = World
    OBVIOUS
  <1>2. PICK q : q = HeadQueue
    OBVIOUS
  <1>3. /\ w \in Worlds /\ external \subseteq Vms
        /\ OneEach(w.waiting, Bg(w), Rd(w), external, cur.id)
    BY <1>1, Before
  <1>4. /\ q \in Queue /\ q \in Live(w) /\ q = w.active[1]
        /\ w.queue[q] = queue[q] /\ cur = NoTask /\ w.queue[q].usage \in 0..MaxUsage
    BY <1>1, <1>2, AtHeadIs
  <1>5. /\ RowSet(w, v, Moving, {}, q, h) /\ Sound(v, Moving)
        /\ v.active[1] = q /\ v.active # <<>> /\ ReadersKept(w, v)
        /\ Rd(v) = [Rd(w) EXCEPT ![q] = h.reading.id]
        /\ Bg(v) = [Bg(w) EXCEPT ![q] = h.bg]
        /\ w.queue[q].bg = Bg(w)[q] /\ w.queue[q].reading.id = Rd(w)[q]
    <2>1. h.usage = w.queue[q].usage /\ h.player = w.queue[q].player /\ v = SetRow(w, q, h)
      BY <1>1, <1>2, <1>4
    <2> QED
      BY <1>1, <1>2, <2>1, HeadRow
  <1>6. Bg(v) = Bg(w) /\ Rd(v) = Rd(w) /\ v.waiting = w.waiting
    <2>1. h.bg = Bg(w)[q] /\ h.reading.id = Rd(w)[q]
      BY <1>2, <1>4, <1>5
    <2>2. Bg(w) \in [Queue -> Seq(Tasks)] /\ Rd(w) \in [Queue -> TaskId \cup {0}]
      BY <1>3, BgType
    <2> QED
      BY <1>5, <2>1, <2>2 DEF RowSet
  <1>a. Ledger(v)
    <2>1. /\ h.player = w.queue[q].player /\ h.num_bg = w.queue[q].num_bg
          /\ h.bg = w.queue[q].bg
      BY <1>2, <1>4
    <2> QED
      BY <1>1, <1>3, <1>4, <1>5, <2>1, RowLedger
  <1>7. Good(v, "ready", cur, external)
    BY <1>1, <1>3, <1>4, <1>5, <1>6, <1>a, IdleThread DEF Good
  <1>8. Freed(v, y, Moving)
    <2>1. v.queue[q].usage = w.queue[q].usage
      BY <1>2, <1>4, <1>5 DEF RowSet
    <2>2. v.queue[q].usage + 0 <= MaxUsage
      BY <1>4, <2>1, TaskAssumption
    <2> QED
      BY <1>2, <1>5, <2>2, DidOneSound
  <1>9. /\ Sound(y, Moving) /\ y.waiting = v.waiting /\ Rd(y) = Rd(v) /\ ReadersKept(v, y)
        /\ \A p \in Queue : Bg(y)[p] = Bg(v)[p] \/ Bg(y)[p] = <<>>
    BY <1>8 DEF Freed, ReadersKept
  <1>10. ReadyOne(Bg(y)) /\ ReadyIds(Bg(y)) \subseteq ReadyIds(Bg(v))
    BY <1>3, <1>6, <1>9, ReadyFewer DEF OneEach
  <1>11. OneEach(y.waiting, Bg(y), Rd(y), external, cur.id)
    BY <1>3, <1>6, <1>9, <1>10 DEF OneEach, Apart
  <1>12. ReadersKept(w, y)
    <2>1. /\ \A p \in Queue \ {q} : v.queue[p] = w.queue[p]
          /\ v.queue[q].reading = w.queue[q].reading /\ Live(v) = Live(w) /\ Live(w) \subseteq Queue
      BY <1>1, <1>2, <1>4, <1>5, Before DEF RowSet
    <2> QED
      BY <1>9, <2>1 DEF ReadersKept
  <1>13. Ledger(y)
    BY <1>5, <1>8, <1>a, FreedLedger
  <1> QED
    BY <1>1, <1>3, <1>4, <1>7, <1>9, <1>11, <1>12, <1>13, IdleThread DEF Good

LEMMA ParserNeedsMoreSafe ==
  ASSUME Inv, ParserNeedsMore PROVE Safe
  <1>1. PICK h : h = dequeue_input_task(queue[HeadQueue], HeadInput)
    OBVIOUS
  <1>2. /\ h \in TQueues /\ LiveRow(h) /\ AtHead
        /\ h.player = queue[HeadQueue].player /\ h.bg = queue[HeadQueue].bg
        /\ h.usage = queue[HeadQueue].usage /\ h.reading = queue[HeadQueue].reading
        /\ h.num_bg = queue[HeadQueue].num_bg
    BY <1>1, HeadLine DEF ParserNeedsMore
  <1>3. PICK v : v = SetRow(World, HeadQueue, h)
    OBVIOUS
  <1>4. PICK y : y = DidOne(v, HeadQueue, 0)
    OBVIOUS
  <1>5. Good(y, "loop", cur, external)
    BY <1>2, <1>3, <1>4, HeadDone
  <1>6. SetWorld(y)
    <2>1. World.queue[HeadQueue] = queue[HeadQueue]
      BY WorldIs
    <2> QED
      BY <1>1, <1>3, <1>4, <2>1 DEF ParserNeedsMore, SetRow
  <1>7. Clockwork /\ does \in Workloads
    BY Before DEF ParserNeedsMore, Clockwork
  <1> QED
    BY <1>5, <1>6, <1>7, StepTo DEF ParserNeedsMore

LEMMA LineWithoutTaskSafe ==
  ASSUME Inv, NEW blank \in BOOLEAN, LineWithoutTask(blank) PROVE Safe
  <1>1. PICK h : h = dequeue_input_task(queue[HeadQueue], HeadInput)
    OBVIOUS
  <1>2. /\ h \in TQueues /\ LiveRow(h) /\ AtHead
        /\ h.player = queue[HeadQueue].player /\ h.bg = queue[HeadQueue].bg
        /\ h.usage = queue[HeadQueue].usage /\ h.reading = queue[HeadQueue].reading
        /\ h.num_bg = queue[HeadQueue].num_bg
    BY <1>1, HeadLine DEF LineWithoutTask
  <1>3. PICK v : v = SetRow(World, HeadQueue, h)
    OBVIOUS
  <1>4. PICK y : y = DidOne(v, HeadQueue, 0)
    OBVIOUS
  <1>5. Good(v, "ready", cur, external) /\ Good(y, "loop", cur, external)
    BY <1>2, <1>3, <1>4, HeadDone
  <1>6. /\ SetWorld(IF blank THEN v ELSE y) /\ phase' = IF blank THEN "ready" ELSE "loop"
        /\ UNCHANGED <<external, cur, now, unused, does>>
    BY <1>1, <1>3, <1>4 DEF LineWithoutTask, SetRow
  <1>7. Clockwork /\ does \in Workloads
    BY <1>6, Before DEF Clockwork
  <1>8. CASE blank
    BY <1>5, <1>6, <1>7, <1>8, StepTo
  <1>9. CASE ~blank
    BY <1>5, <1>6, <1>7, <1>9, StepTo
  <1> QED
    BY <1>8, <1>9

LEMMA LineStartsTaskSafe ==
  ASSUME Inv, NEW progr \in does.users, LineStartsTask(progr) PROVE Safe
  <1>1. PICK h : h = dequeue_input_task(queue[HeadQueue], HeadInput)
    OBVIOUS
  <1>2. /\ h \in TQueues /\ LiveRow(h) /\ AtHead
        /\ h.player = queue[HeadQueue].player /\ h.bg = queue[HeadQueue].bg
        /\ h.usage = queue[HeadQueue].usage /\ h.reading = queue[HeadQueue].reading
        /\ h.num_bg = queue[HeadQueue].num_bg
    BY <1>1, HeadLine DEF LineStartsTask
  <1>3. PICK v : v = SetRow(World, HeadQueue, h)
    OBVIOUS
  <1>4. Good(v, "ready", cur, external)
    BY <1>2, <1>3, HeadDone
  <1>5. PICK w : w = World
    OBVIOUS
  <1>6. PICK q : q = HeadQueue
    OBVIOUS
  <1>7. /\ q \in Queue /\ q # 0 /\ q = w.active[1] /\ w.active # <<>> /\ cur = NoTask
        /\ w \in Worlds
    BY <1>2, <1>5, <1>6, AtHeadIs, Before
  <1>8. v.active = w.active /\ v.waiting = w.waiting
    BY <1>3, <1>5, <1>7, WorldFields DEF SetRow
  <1>9. PICK login \in BOOLEAN : cur' = Running(new_task_id, progr, q, login, 0)
    <2>1. PICK login : login = (~(InputKind(queue[HeadQueue], HeadInput) = "OOB") /\ queue[HeadQueue].player \notin User)
      OBVIOUS
    <2> QED
      BY <1>6, <2>1 DEF LineStartsTask, Start
  <1>10. /\ SetWorld(v) /\ phase' = "task" /\ UNCHANGED <<external, now, unused, does>>
         /\ FreshIds # {}
    BY <1>1, <1>3 DEF LineStartsTask, Start, SetRow
  <1>11. progr \in User /\ Clockwork /\ does \in Workloads
    BY <1>10, Before DEF Clockwork
  <1>12. /\ new_task_id \in TaskId
         /\ new_task_id \notin ListIds(waiting) /\ new_task_id \notin ReadyIds(Bg(w))
         /\ new_task_id \notin ReaderIds(Rd(w)) /\ new_task_id \notin ExternIds(external)
    BY <1>5, <1>10, FreshId
  <1>13. Thread(v, "task", cur') /\ cur'.id = new_task_id
    BY <1>7, <1>8, <1>9, <1>11, <1>12 DEF Thread, Threads, Running
  <1>14. OneEach(v.waiting, Bg(v), Rd(v), external, new_task_id)
    <2>1. v.waiting = waiting /\ Bg(v) = Bg(w) /\ Rd(v) = Rd(w)
      <3>1. Live(v) = Live(w) /\ v.queue = [w.queue EXCEPT ![q] = h]
        BY <1>3, <1>5, <1>6, <1>7, WorldFields DEF SetRow, Live
      <3>2. w.queue[q] = queue[HeadQueue] /\ w.queue \in [Queue -> TQueues] /\ w.waiting = waiting
        BY <1>5, <1>6, Before
      <3> QED
        BY <1>2, <1>7, <1>8, <3>1, <3>2 DEF Bg, Rd
    <2>2. OneEach(v.waiting, Bg(v), Rd(v), external, cur.id)
      BY <1>4 DEF Good
    <2> QED
      BY <1>12, <2>1, <2>2, CurrentOne
  <1>15. Good(v, phase', cur', external')
    BY <1>4, <1>10, <1>13, <1>14 DEF Good
  <1> QED
    BY <1>10, <1>11, <1>15, StepTo

LEMMA RunBackgroundSafe ==
  ASSUME Inv, RunBackground PROVE Safe
  <1>1. PICK w : w = World
    OBVIOUS
  <1>2. PICK q : q = HeadQueue
    OBVIOUS
  <1>3. /\ w \in Worlds /\ external \subseteq Vms
        /\ does \in Workloads /\ now \in 1..MaxTime
        /\ unused \in SUBSET Conn /\ OneEach(w.waiting, Bg(w), Rd(w), external, cur.id)
    BY <1>1, Before
  <1>4. AtHead /\ queue[q].bg # <<>>
    BY <1>2 DEF RunBackground
  <1>5. /\ q \in Queue /\ q \in Live(w) /\ q = w.active[1] /\ q # 0
        /\ w.queue[q] = queue[q] /\ w.queue[q] \in TQueues /\ cur = NoTask /\ LiveRow(w.queue[q])
    BY <1>1, <1>2, <1>4, AtHeadIs
  <1>6. PICK h : h = w.queue[q]
    OBVIOUS
  <1>7. h \in TQueues /\ h.bg \in Seq(Tasks) /\ h.bg # <<>> /\ h.num_bg \in Int /\ LiveRow(h)
    BY <1>4, <1>5, <1>6, RowFields
  <1>8. PICK u : u = Tail(h.bg)
    OBVIOUS
  <1>9. PICK t : t = Head(h.bg)
    OBVIOUS
  <1>10. u \in Seq(Tasks) /\ t \in Tasks /\ t = h.bg[1] /\ 1 \in DOMAIN h.bg
    <2>1. Len(h.bg) \in Nat /\ Len(h.bg) # 0 /\ DOMAIN h.bg = 1..Len(h.bg)
      BY <1>7, LenProperties, EmptySeq
    <2>2. 1 \in 1..Len(h.bg)
      BY <2>1
    <2> QED
      BY <1>7, <1>8, <1>9, <2>1, <2>2, HeadTailProperties
  <1>11. PICK r : r = dequeue_bg_task(h)
    OBVIOUS
  <1>12. /\ r \in TQueues /\ r.bg = u /\ r.usage = h.usage /\ r.player = h.player
         /\ r.susp = h.susp /\ r.connected = h.connected /\ r.input = h.input
         /\ r.reading = h.reading /\ r.num_bg = h.num_bg - 1
    <2>1. PICK n : n = h.num_bg - 1
      OBVIOUS
    <2>2. n \in Int
      BY <1>7, <2>1
    <2>3. r = [h EXCEPT !.bg = u, !.num_bg = n]
      BY <1>8, <1>11, <2>1 DEF dequeue_bg_task
    <2> QED
      BY <1>7, <1>10, <2>1, <2>2, <2>3 DEF TQueues
  <1>13. LiveRow(r)
    BY <1>7, <1>12 DEF LiveRow
  <1>14. PICK v : v = SetRow(w, q, r)
    OBVIOUS
  <1>15. SetWorld(v)
    BY <1>1, <1>2, <1>6, <1>11, <1>14 DEF RunBackground, SetRow
  <1>16. /\ RowSet(w, v, Moving, {}, q, r) /\ Sound(v, Moving)
         /\ v.active[1] = q /\ v.active # <<>> /\ ReadersKept(w, v)
         /\ Rd(v) = [Rd(w) EXCEPT ![q] = r.reading.id]
         /\ Bg(v) = [Bg(w) EXCEPT ![q] = r.bg]
         /\ w.queue[q].bg = Bg(w)[q] /\ w.queue[q].reading.id = Rd(w)[q]
    BY <1>1, <1>2, <1>4, <1>6, <1>12, <1>13, <1>14, HeadRow
  <1>17. Rd(v) = Rd(w) /\ v.waiting = w.waiting
    <2>1. r.reading.id = Rd(w)[q]
      BY <1>6, <1>12, <1>16
    <2>2. Rd(w) \in [Queue -> TaskId \cup {0}]
      BY <1>3, BgType
    <2> QED
      BY <1>16, <2>1, <2>2 DEF RowSet
  <1>18. ReadyOne(Bg(v)) /\ ReadyIds(Bg(v)) = ReadyIds(Bg(w)) \ {t.id} /\ t.id \in ReadyIds(Bg(w))
    <2>1. PICK B : B = Bg(w)
      OBVIOUS
    <2>2. PICK C : C = Bg(v)
      OBVIOUS
    <2>3. /\ B \in [Queue -> Seq(Tasks)] /\ ReadyOne(B) /\ B[q] = h.bg
          /\ C = [B EXCEPT ![q] = u]
      BY <1>3, <1>6, <1>12, <1>16, <2>1, <2>2, BgType DEF OneEach
    <2>4. ListOne(h.bg)
      BY <1>5, <2>3 DEF ReadyOne
    <2>5. ListOne(u) /\ ListIds(u) = ListIds(B[q]) \ {t.id}
      BY <1>7, <1>8, <1>9, <2>3, <2>4, ListTail
    <2>6. t.id \in ListIds(B[q]) /\ q \in Queue /\ u \in Seq(Tasks)
      BY <1>5, <1>10, <2>3 DEF ListIds
    <2>7. OneLess(B, C, q, u, t.id)
      BY <2>3, <2>5, <2>6 DEF OneLess
    <2> QED
      BY <2>1, <2>2, <2>7, ReadyTake
  <1>19. OneEach(v.waiting, Bg(v), Rd(v), external, t.id)
    BY <1>3, <1>17, <1>18 DEF OneEach, Apart
  <1>20. phase' = "task" /\ cur' = Running(t.id, t.progr, q, FALSE, 0)
    BY <1>2, <1>5, <1>6, <1>9 DEF RunBackground, Start
  <1>21. Thread(v, phase', cur') /\ cur'.id = t.id
    BY <1>5, <1>10, <1>16, <1>20 DEF Thread, Threads, Running, Tasks
  <1>22. Ledger(v)
    <2>1. Len(u) = Len(h.bg) - 1 /\ \A j \in DOMAIN u : \E k \in DOMAIN h.bg : u[j] = h.bg[k]
      <3>1. Len(h.bg) \in Nat /\ DOMAIN h.bg = 1..Len(h.bg) /\ DOMAIN u = 1..Len(u)
        BY <1>7, <1>10, LenProperties
      <3>2. Len(u) = Len(h.bg) - 1 /\ \A j \in 1..Len(u) : u[j] = h.bg[j + 1]
        BY <1>7, <1>8, HeadTailProperties
      <3>3. \A j \in 1..Len(u) : j + 1 \in 1..Len(h.bg)
        BY ONLY <3>1, <3>2
      <3> QED
        BY ONLY <3>1, <3>2, <3>3
    <2>2. /\ r.player = World.queue[q].player /\ r.num_bg = World.queue[q].num_bg - 1
          /\ r.bg = u /\ World.queue[q].bg = h.bg /\ q \in Live(World)
          /\ RowSet(World, v, Moving, {}, q, r)
      BY <1>1, <1>5, <1>6, <1>12, <1>16
    <2>3. /\ Len(r.bg) = Len(World.queue[q].bg) - 1
          /\ \A j \in DOMAIN r.bg : \E k \in DOMAIN World.queue[q].bg :
               r.bg[j] = World.queue[q].bg[k]
      BY ONLY <2>1, <2>2
    <2>4. Sound(World, Moving)
      BY DEF Inv
    <2> QED
      BY ONLY <2>2, <2>3, <2>4, TookLedger
  <1>23. Good(v, phase', cur', external') /\ Clockwork
    BY <1>1, <1>3, <1>16, <1>19, <1>21, <1>22 DEF Good, RunBackground, Clockwork
  <1> QED
    BY <1>3, <1>15, <1>23, StepTo

Deactivated(w, v, moving) ==
  /\ Sound(v, moving) /\ Live(v) = Live(w) /\ v.waiting = w.waiting
  /\ Bg(v) = Bg(w) /\ Rd(v) = Rd(w) /\ Pl(v) = Pl(w) /\ Nb(v) = Nb(w)

\* The first active queue becomes idle.
LEMMA Deactivate ==
  ASSUME NEW w, NEW moving, Sound(w, moving), w.active # <<>>,
         NEW q, q = w.active[1], IdleRow(w.queue[q], moving),
         NEW v, v = deactivate_tqueue([w EXCEPT !.active = Tail(w.active)], q)
  PROVE  Deactivated(w, v, moving)
  <1>0. w \in Worlds /\ SoundBut(w, moving, {}) /\ ListsSound(w) /\ OneQueue(w)
    BY DEF Sound, SoundBut
  <1>1. /\ w.queue \in [Queue -> TQueues] /\ w.active \in Seq(Queue)
        /\ w.idle \subseteq Queue /\ w.waiting \in Seq(Tasks) /\ Live(w) \subseteq Queue
        /\ ToSet(w.active) \subseteq Queue /\ \A i \in DOMAIN w.active : w.active[i] \in Queue
        /\ Len(w.active) \in Nat /\ DOMAIN w.active = 1..Len(w.active)
        /\ q \in ToSet(w.active) /\ q \in Queue /\ w.queue[q] \in TQueues
    BY <1>0, WorldFields, ActiveList
  <1>2. Len(w.active) >= 1 /\ 1 \in DOMAIN w.active
    <2>1. Len(w.active) # 0
      BY <1>1, EmptySeq
    <2> QED
      BY <1>1, <2>1
  <1>3. PICK t : t = Tail(w.active)
    OBVIOUS
  <1>4. t \in Seq(Queue) /\ DOMAIN t = 1..(Len(w.active) - 1)
        /\ \A i \in 1..(Len(w.active) - 1) : t[i] = w.active[i + 1] /\ i + 1 \in 1..Len(w.active)
    <2>1. t \in Seq(Queue) /\ Len(t) = Len(w.active) - 1
          /\ \A i \in 1..Len(t) : t[i] = w.active[i + 1]
      BY <1>1, <1>3, HeadTailProperties
    <2> QED
      BY <1>1, <1>2, <2>1, LenProperties
  <1>5. PICK r : r = [w.queue[q] EXCEPT !.usage = NO_USAGE]
    OBVIOUS
  <1>6. r \in TQueues /\ r.usage = NO_USAGE /\ r.player = w.queue[q].player
        /\ r.bg = w.queue[q].bg /\ r.reading = w.queue[q].reading
        /\ r.susp = w.queue[q].susp /\ r.connected = w.queue[q].connected
        /\ r.input = w.queue[q].input /\ r.num_bg = w.queue[q].num_bg
        /\ r.hold = w.queue[q].hold /\ r.no_oob = w.queue[q].no_oob
    <2>1. NO_USAGE \in -1..MaxUsage
      BY TaskAssumption DEF NO_USAGE
    <2> QED
      BY <1>1, <1>5, <2>1 DEF TQueues
  <1>7. /\ v.queue = [w.queue EXCEPT ![q] = r] /\ v.active = t /\ v.idle = w.idle \cup {q}
        /\ v.waiting = w.waiting /\ v \in Worlds
    BY <1>0, <1>1, <1>3, <1>4, <1>5, <1>6 DEF Worlds, deactivate_tqueue
  <1>8. v.queue[q] = r /\ \A p \in Queue \ {q} : v.queue[p] = w.queue[p]
    BY <1>1, <1>7
  <1>9. ASSUME NEW i \in DOMAIN t PROVE t[i] # q /\ t[i] \in Queue
    <2>1. i \in 1..(Len(w.active) - 1) /\ i + 1 \in 1..Len(w.active) /\ t[i] = w.active[i + 1]
      BY <1>4
    <2>2. 1 < i + 1
      BY ONLY <2>1, <1>1
    <2>3. w.active[1] # w.active[i + 1]
      BY <1>0, <1>1, <1>2, <2>1, <2>2 DEF ListsSound
    <2> QED
      BY <1>1, <2>1, <2>3
  <1>10. ToSet(w.active) = ToSet(t) \cup {q} /\ q \notin ToSet(t)
    <2>1. ToSet(t) \subseteq ToSet(w.active) /\ q \notin ToSet(t)
      BY <1>1, <1>4, <1>9 DEF ToSet
    <2>2. ASSUME NEW i \in 1..Len(w.active) PROVE w.active[i] \in ToSet(t) \cup {q}
      <3>1. CASE i = 1
        BY <3>1
      <3>2. CASE i # 1
        <4>1. i - 1 \in 1..(Len(w.active) - 1) /\ (i - 1) + 1 = i
          BY <1>1, <3>2
        <4> QED
          BY <1>4, <4>1 DEF ToSet
      <3> QED
        BY <3>1, <3>2
    <2>3. ToSet(w.active) \subseteq ToSet(t) \cup {q}
      BY <1>1, <2>2 DEF ToSet
    <2> QED
      BY <1>1, <2>1, <2>3
  <1>11. Live(v) = Live(w)
    BY <1>7, <1>10 DEF Live
  <1>12. \A p \in Queue : /\ v.queue[p].player = w.queue[p].player /\ v.queue[p].bg = w.queue[p].bg
                          /\ v.queue[p].reading = w.queue[p].reading
                          /\ v.queue[p].num_bg = w.queue[p].num_bg
    BY <1>6, <1>8
  <1>13. ListsSound(v)
    <2>1. ASSUME NEW i \in 1..(Len(w.active) - 1), NEW j \in 1..(Len(w.active) - 1), i < j
          PROVE  t[i] # t[j] /\ v.queue[t[i]].usage <= v.queue[t[j]].usage
      <3>1. i + 1 < j + 1
        BY <1>1, <2>1
      <3>2. i + 1 \in DOMAIN w.active /\ j + 1 \in DOMAIN w.active
            /\ t[i] = w.active[i + 1] /\ t[j] = w.active[j + 1]
            /\ t[i] \in Queue \ {q} /\ t[j] \in Queue \ {q}
        BY <1>1, <1>4, <1>9
      <3>3. /\ w.active[i + 1] # w.active[j + 1]
            /\ w.queue[w.active[i + 1]].usage <= w.queue[w.active[j + 1]].usage
        BY <1>0, <3>1, <3>2 DEF ListsSound
      <3> QED
        BY <1>8, <3>2, <3>3
    <2>2. ToSet(v.active) \cap v.idle = {}
      BY <1>0, <1>7, <1>10 DEF ListsSound
    <2>3. \A p \in ToSet(v.active) : v.queue[p].usage >= 0
      BY <1>0, <1>1, <1>7, <1>8, <1>10 DEF ListsSound
    <2>4. \A p \in v.idle : v.queue[p].usage = NO_USAGE
      <3> TAKE p \in v.idle
      <3>1. CASE p = q
        BY <1>6, <1>8, <3>1
      <3>2. CASE p # q
        <4>1. p \in w.idle /\ w.queue[p].usage = NO_USAGE /\ p \in Queue
          BY <1>0, <1>7, <3>2, WorldFields DEF ListsSound
        <4> QED
          BY <1>8, <3>2, <4>1
      <3> QED
        BY <3>1, <3>2
    <2>5. \A i, j \in DOMAIN v.active :
            i < j => /\ v.active[i] # v.active[j]
                     /\ v.queue[v.active[i]].usage <= v.queue[v.active[j]].usage
      <3>0. v.active = t
        BY <1>7
      <3> TAKE i, j \in DOMAIN v.active
      <3> HAVE i < j
      <3>1. i \in 1..(Len(w.active) - 1) /\ j \in 1..(Len(w.active) - 1)
        BY <1>4, <3>0
      <3>2. t[i] # t[j] /\ v.queue[t[i]].usage <= v.queue[t[j]].usage
        BY <2>1, <3>1
      <3> QED
        BY ONLY <3>0, <3>2
    <2>6. \A i, j \in DOMAIN v.waiting :
            i < j => v.waiting[i].start <= v.waiting[j].start
      BY <1>0, <1>7 DEF ListsSound
    <2> QED
      BY ONLY <2>2, <2>3, <2>4, <2>5, <2>6 DEF ListsSound
  <1>14. OneQueue(v)
    <2>1. \A p \in Live(w) : v.queue[p].player = w.queue[p].player
      BY <1>1, <1>12
    <2> QED
      BY ONLY <1>0, <1>11, <2>1 DEF OneQueue
  <1>15. \A p \in Live(v) : LiveRow(v.queue[p])
    <2>1. LiveRow(r)
      <3>1. LiveRow(w.queue[q])
        BY <1>0, <1>1 DEF SoundBut, Live
      <3> QED
        BY <1>6, <3>1 DEF LiveRow
    <2> QED
      BY <1>0, <1>1, <1>8, <1>11, <2>1 DEF SoundBut
  <1>16. \A p \in v.idle \ {} : IdleRow(v.queue[p], moving)
    <2>1. IdleRow(r, moving)
      BY <1>6 DEF IdleRow, Quiet, is_out_of_input
    <2> QED
      BY <1>0, <1>1, <1>7, <1>8, <2>1 DEF SoundBut
  <1>17. Sound(v, moving)
    BY <1>7, <1>13, <1>14, <1>15, <1>16 DEF Sound, SoundBut
  <1>18. Bg(v) = Bg(w) /\ Rd(v) = Rd(w) /\ Pl(v) = Pl(w) /\ Nb(v) = Nb(w)
    BY <1>11, <1>12 DEF Bg, Rd, Pl, Nb
  <1> QED
    BY <1>7, <1>11, <1>17, <1>18 DEF Deactivated

LEMMA DeactivateHeadSafe ==
  ASSUME Inv, DeactivateHead PROVE Safe
  <1>1. PICK w : w = World
    OBVIOUS
  <1>2. PICK q : q = HeadQueue
    OBVIOUS
  <1>3. /\ Sound(w, Moving) /\ external \subseteq Vms /\ w.active = active
        /\ does \in Workloads /\ now \in 1..MaxTime
        /\ unused \in SUBSET Conn /\ OneEach(w.waiting, Bg(w), Rd(w), external, cur.id)
    BY <1>1, Before
  <1>4. /\ q = w.active[1] /\ w.active # <<>> /\ w.queue[q] = queue[q]
        /\ w.queue[q] \in TQueues /\ cur = NoTask
    BY <1>1, <1>2, AtHeadIs DEF DeactivateHead
  <1>5. PICK h : h = queue[q]
    OBVIOUS
  <1>6. /\ ~(h.reading # NoVm /\ is_out_of_input(h)) /\ h.bg = <<>>
        /\ InputIndex(h, IF h.hold /\ h.reading = NoVm THEN "DQ_OOB" ELSE "DQ_FIRST") = 0
    BY <1>2, <1>5 DEF DeactivateHead, HeadReaderAtEof, HeadInput
  <1>7. h \in TQueues /\ h.input \in Seq(Lines) /\ Len(h.input) \in Nat
        /\ DOMAIN h.input = 1..Len(h.input)
    BY <1>4, <1>5, RowFields, LenProperties
  <1>8. Quiet(h)
    <2>1. CASE h.hold /\ h.reading = NoVm
      <3>1. InputIndex(h, "DQ_OOB") = 0
        BY <1>6, <2>1
      <3>2. h.no_oob \/ \A i \in 1..Len(h.input) : h.input[i].kind # "OOB"
        BY <1>7, <3>1, IndexIs
      <3> QED
        BY <1>7, <2>1, <3>2 DEF Quiet, ToSet
    <2>2. CASE ~(h.hold /\ h.reading = NoVm)
      <3>1. InputIndex(h, "DQ_FIRST") = 0
        BY <1>6, <2>2
      <3>2. \A i \in 1..Len(h.input) : FALSE
        BY <1>7, <3>1, IndexIs
      <3>3. Len(h.input) = 0
        BY <1>7, <3>2
      <3> QED
        BY <1>7, <3>3, EmptySeq DEF Quiet
    <2> QED
      BY <2>1, <2>2
  <1>9. IdleRow(h, Moving)
    BY <1>6, <1>8 DEF IdleRow
  <1>10. PICK v : v = deactivate_tqueue([w EXCEPT !.active = Tail(w.active)], q)
    OBVIOUS
  <1>11. Deactivated(w, v, Moving)
    BY <1>3, <1>4, <1>5, <1>9, <1>10, Deactivate
  <1>a. Ledger(v)
    BY <1>1, <1>11 DEF Deactivated, Ledger, Booked, Balanced
  <1>12. Good(v, "ready", cur, external)
    BY <1>1, <1>3, <1>4, <1>11, <1>a, IdleThread DEF Good, Deactivated, ReadersKept
  <1>13. SetWorld(v) /\ Good(v, phase', cur', external') /\ Clockwork
    BY <1>1, <1>2, <1>3, <1>10, <1>12 DEF DeactivateHead, AtHead, Clockwork
  <1> QED
    BY <1>3, <1>13, StepTo

LEMMA NothingReadySafe ==
  ASSUME Inv, NothingReady PROVE Safe
  <1>1. PICK w : w = World
    OBVIOUS
  <1>2. /\ Sound(w, Moving) /\ external \subseteq Vms /\ Thread(w, phase, cur)
        /\ does \in Workloads /\ now \in 1..MaxTime
        /\ unused \in SUBSET Conn /\ OneEach(w.waiting, Bg(w), Rd(w), external, cur.id)
    BY <1>1, Before
  <1>3. PICK v : v = FreeEmpty(w)
    OBVIOUS
  <1>4. Freed(w, v, Moving)
    BY <1>2, <1>3, FreeEmptySound
  <1>5. /\ Sound(v, Moving) /\ v.waiting = w.waiting /\ Rd(v) = Rd(w) /\ ReadersKept(w, v)
        /\ \A p \in Queue : Bg(v)[p] = Bg(w)[p] \/ Bg(v)[p] = <<>>
    BY <1>4 DEF Freed, ReadersKept
  <1>6. ReadyOne(Bg(v)) /\ ReadyIds(Bg(v)) \subseteq ReadyIds(Bg(w))
    BY <1>2, <1>5, ReadyFewer DEF OneEach
  <1>7. OneEach(v.waiting, Bg(v), Rd(v), external, cur.id)
    BY <1>2, <1>5, <1>6 DEF OneEach, Apart
  <1>8. cur = NoTask
    BY <1>2 DEF Thread, NothingReady
  <1>9. SetWorld(v) /\ Good(v, phase', cur', external') /\ Clockwork
    <2>1. Ledger(v)
      BY <1>1, <1>2, <1>4, SelfLedger, FreedLedger
    <2> QED
      BY <1>1, <1>2, <1>3, <1>5, <1>7, <1>8, <2>1, IdleThread DEF NothingReady, Clockwork, Good
  <1> QED
    BY <1>2, <1>9, StepTo

-----------------------------------------------------------------------------
(* What a running task does.                                               *)

LEMMA TaskContinues ==
  ASSUME Inv, TaskGoesOn, NEW v, SetWorld(v), Sound(v, Moving), Kept(World, v),
         external' \subseteq Vms,
         OneEach(v.waiting, Bg(v), Rd(v), external', cur.id), Ledger(v)
  PROVE  Safe
  <1>1. Thread(World, phase, cur) /\ does \in Workloads /\ now \in 1..MaxTime /\ unused \in SUBSET Conn
    BY Before
  <1>2. Thread(v, phase', cur') /\ cur' = cur
    BY <1>1, SameThread DEF TaskGoesOn
  <1>3. Good(v, phase', cur', external')
    BY <1>2 DEF Good, ReadersKept, Kept
  <1>4. Clockwork
    BY <1>1 DEF TaskGoesOn, Clockwork
  <1> QED
    BY <1>1, <1>3, <1>4, StepTo

LEMMA TaskContinuesSame ==
  ASSUME Inv, TaskGoesOn, NEW v, SetWorld(v), Sound(v, Moving), Kept(World, v),
         SameWork(World, v), external' = external
  PROVE  Safe
  <1>1. v \in Worlds /\ World \in Worlds
    BY DEF Inv, TypeOK, Sound, SoundBut
  <1>2. v.waiting = World.waiting /\ Bg(v) = Bg(World) /\ Rd(v) = Rd(World)
    BY <1>1, SameWorkIs
  <1>3. OneEach(v.waiting, Bg(v), Rd(v), external', cur.id) /\ external' \subseteq Vms
    BY <1>2, Before
  <1>4. Ledger(v)
    <2>1. World \in Worlds /\ OneQueue(World) /\ v \in Worlds /\ OneQueue(v)
      BY <1>1, Before DEF Sound, SoundBut
    <2> QED
      BY <2>1, SelfLedger, SameLedger
  <1> QED
    BY <1>3, <1>4, TaskContinues

\* The tasks of a world in which one queue is different.
RowWorks(w, v, q, r) ==
  /\ Rd(v) = [Rd(w) EXCEPT ![q] = r.reading.id]
  /\ Bg(v) = [Bg(w) EXCEPT ![q] = r.bg]
  /\ w.queue[q].bg = Bg(w)[q] /\ w.queue[q].reading.id = Rd(w)[q]
  /\ r.reading = w.queue[q].reading => Rd(v) = Rd(w)
  /\ r.bg = w.queue[q].bg => Bg(v) = Bg(w)

LEMMA RowWork ==
  ASSUME NEW w \in Worlds, NEW v, NEW q \in Live(w), NEW r, NEW moving, NEW but,
         RowSet(w, v, moving, but, q, r)
  PROVE  RowWorks(w, v, q, r)
  <1>1. q \in Queue /\ Live(w) \subseteq Queue
    BY ActiveList
  <1>2. /\ Live(v) = Live(w) /\ v.queue[q] = r
        /\ \A p \in Queue \ {q} : v.queue[p] = w.queue[p]
    BY DEF RowSet
  <1>3. Rd(v) = [Rd(w) EXCEPT ![q] = r.reading.id] /\ Bg(v) = [Bg(w) EXCEPT ![q] = r.bg]
    BY <1>1, <1>2 DEF Rd, Bg
  <1>4. w.queue[q].bg = Bg(w)[q] /\ w.queue[q].reading.id = Rd(w)[q]
    BY <1>1 DEF Bg, Rd
  <1>5. r.reading = w.queue[q].reading => Rd(v) = Rd(w)
    BY <1>1, <1>2 DEF Rd
  <1>6. r.bg = w.queue[q].bg => Bg(v) = Bg(w)
    BY <1>1, <1>2 DEF Bg
  <1> QED
    BY <1>3, <1>4, <1>5, <1>6 DEF RowWorks

LEMMA ForkSafe ==
  ASSUME Inv, NEW delay \in Int, Fork(delay) PROVE Safe
  <1>1. PICK w : w = World
    OBVIOUS
  <1>2. /\ w \in Worlds /\ Sound(w, Moving) /\ Thread(w, phase, cur) /\ external \subseteq Vms
        /\ now \in 1..MaxTime /\ w.waiting = waiting
        /\ w.waiting \in Seq(Tasks)
        /\ OneEach(w.waiting, Bg(w), Rd(w), external, cur.id)
    BY <1>1, Before, WorldFields
  <1>3. PICK t : t = Task("FORKED", new_task_id, cur.progr, now + delay)
    OBVIOUS
  <1>4. FreshIds # {} /\ CanFind(w, cur.progr)
    BY <1>1, SpareFresh DEF Fork
  <1>5. /\ new_task_id \in TaskId /\ new_task_id # cur.id
        /\ new_task_id \notin ListIds(w.waiting) /\ new_task_id \notin ReadyIds(Bg(w))
        /\ new_task_id \notin ReaderIds(Rd(w)) /\ new_task_id \notin ExternIds(external)
    BY <1>1, <1>2, <1>4, FreshId
  <1>6. t \in Tasks /\ t.id = new_task_id /\ t.progr = cur.progr
    <2>1. cur.progr \in User
      BY <1>2 DEF Thread, Fork, InTask
    <2>2. now + delay \in Nat
      BY <1>2, TaskAssumption DEF Fork
    <2> QED
      BY <1>3, <1>5, <2>1, <2>2 DEF Task, Tasks
  <1>7. PICK v : v = enqueue_waiting(w, t)
    OBVIOUS
  <1>8. /\ Sound(v, Moving) /\ Kept(w, v) /\ Bg(v) = Bg(w) /\ Rd(v) = Rd(w)
        /\ Placed(w.waiting, t, v.waiting)
    BY <1>2, <1>4, <1>6, <1>7, EnqueueWaiting
  <1>9. ListOne(v.waiting) /\ ListIds(v.waiting) = ListIds(w.waiting) \cup {t.id}
    <2>1. ListOne(w.waiting) /\ t.id \notin ListIds(w.waiting)
      BY <1>2, <1>5, <1>6 DEF OneEach
    <2> QED
      BY <1>2, <1>6, <1>8, <2>1, ListPut
  <1>10. OneEach(v.waiting, Bg(v), Rd(v), external, cur.id)
    BY <1>2, <1>5, <1>6, <1>8, <1>9 DEF OneEach, Apart
  <1>11. SetWorld(v) /\ TaskGoesOn /\ external' = external
    BY <1>1, <1>3, <1>7 DEF Fork
  <1>12. Ledger(v)
    <2>1. check_user_task_limit(t.progr)
      BY <1>6 DEF Fork
    <2> QED
      BY <1>1, <1>2, <1>4, <1>6, <1>7, <2>1, CountedLedger
  <1> QED
    BY <1>1, <1>2, <1>8, <1>10, <1>11, <1>12, TaskContinues

LEMMA KillWaitingSafe ==
  ASSUME Inv, NEW i \in 1..Len(waiting), KillWaiting(i) PROVE Safe
  <1>1. PICK w : w = World
    OBVIOUS
  <1>2. /\ w \in Worlds /\ Sound(w, Moving) /\ SoundBut(w, Moving, {}) /\ external \subseteq Vms
        /\ now \in 1..MaxTime /\ w.waiting = waiting
        /\ w.waiting \in Seq(Tasks) /\ w.queue = queue /\ Live(w) \subseteq Queue
        /\ OneEach(w.waiting, Bg(w), Rd(w), external, cur.id)
    BY <1>1, Before, WorldFields
  <1>3. PICK s : s = RemoveAt(w.waiting, i)
    OBVIOUS
  <1>4. PICK y : y = [w EXCEPT !.waiting = s]
    OBVIOUS
  <1>5. WaitingSet(w, y, Moving, {}, s) /\ i \in 1..Len(w.waiting)
    BY <1>2, <1>3, <1>4, RemoveWaiting
  <1>6. /\ SoundBut(y, Moving, {}) /\ Kept(w, y) /\ Live(y) = Live(w)
        /\ y.queue = w.queue /\ y.active = w.active /\ y.idle = w.idle /\ y.waiting = s
        /\ Bg(y) = Bg(w) /\ Rd(y) = Rd(w) /\ y \in Worlds
        /\ \A p : QueuesOf(y, p) = QueuesOf(w, p)
    BY <1>5 DEF WaitingSet, SoundBut
  <1>7. PICK p : p = w.waiting[i].progr
    OBVIOUS
  <1>8. PICK owners : owners = QueuesOf(w, p)
    OBVIOUS
  <1>9. p \in User /\ p # NOTHING /\ p \notin Conn
    <2>1. w.waiting[i] \in Tasks
      BY <1>2, <1>5, ElementOfSeq
    <2> QED
      BY <1>7, <2>1, TaskAssumption DEF Tasks
  <1>10. PICK v : v = [y EXCEPT !.queue = [q \in Queue |-> IF q \in owners
                          THEN [w.queue[q] EXCEPT !.num_bg = @ - 1] ELSE w.queue[q]]]
    OBVIOUS
  <1>11. SetWorld(v)
    <2>1. PICK Q : Q = [q \in Queue |-> IF q \in owners
                          THEN [w.queue[q] EXCEPT !.num_bg = @ - 1] ELSE w.queue[q]]
      OBVIOUS
    <2>2. /\ w.queue = queue /\ w.active = active /\ w.idle = idle /\ w.waiting = waiting
      BY <1>1, Before
    <2>3. v.queue = Q /\ v.active = active /\ v.idle = idle /\ v.waiting = s
      BY <1>6, <1>10, <2>1, <2>2, WorldFields
    <2>4. owners = QueuesOf(World, waiting[i].progr) /\ s = RemoveAt(waiting, i)
      BY <1>1, <1>3, <1>7, <1>8, <2>2
    <2>5. queue' = Q /\ active' = active /\ idle' = idle /\ waiting' = s
      BY <2>1, <2>2, <2>4 DEF KillWaiting, SetWorld, World
    <2> QED
      BY <2>3, <2>5 DEF SetWorld
  <1>12. Sound(v, Moving) /\ Kept(y, v) /\ SameTasks(y, v)
    <2>1. w.queue \in [Queue -> TQueues]
      BY <1>2, WorldFields
    <2>2. CASE owners = {}
      <3>1. v = y
        BY <1>6, <1>10, <2>1, <2>2, WorldFields
      <3> QED
        BY <1>6, <3>1 DEF Sound, Kept, SameTasks
    <2>3. CASE owners # {}
      <3>1. PICK q : q \in owners
        BY <2>3
      <3>2. q \in Live(w) /\ w.queue[q].player = p /\ q \in Queue
        BY <1>2, <1>8, <3>1 DEF QueuesOf
      <3>3. owners = {q}
        BY <1>2, <1>8, <1>9, <3>1, <3>2 DEF SoundBut, OneQueue, QueuesOf
      <3>4. PICK r : r = [w.queue[q] EXCEPT !.num_bg = w.queue[q].num_bg - 1]
        OBVIOUS
      <3>5. /\ w.queue[q] \in TQueues /\ w.queue[q].num_bg - 1 \in Int
        BY <2>1, <3>2, RowFields
      <3>6. /\ r \in TQueues /\ r.usage = w.queue[q].usage /\ r.player = w.queue[q].player
            /\ r.bg = w.queue[q].bg /\ r.reading = w.queue[q].reading
            /\ r.input = w.queue[q].input /\ r.connected = w.queue[q].connected
            /\ r.hold = w.queue[q].hold /\ r.no_oob = w.queue[q].no_oob
            /\ r.susp = w.queue[q].susp
        BY <3>4, <3>5 DEF TQueues
      <3>7. v = SetRow(y, q, r)
        BY <1>6, <1>10, <2>1, <3>2, <3>3, <3>4, WorldFields DEF SetRow
      <3>8. LiveRow(r) /\ (q \in y.idle \ {} => IdleRow(r, Moving))
        <4>1. LiveRow(w.queue[q]) /\ (q \in w.idle => IdleRow(w.queue[q], Moving))
          BY <1>2, <3>2 DEF SoundBut
        <4> QED
          BY <1>6, <1>9, <3>2, <3>6, <4>1 DEF LiveRow, IdleRow, Quiet, is_out_of_input
      <3>9. RowSet(y, v, Moving, {}, q, r)
        BY <1>6, <3>2, <3>6, <3>7, <3>8, RowChanged
      <3>10. r.bg = y.queue[q].bg /\ r.reading = y.queue[q].reading
        BY <1>6, <3>6
      <3> QED
        BY <3>8, <3>9, <3>10 DEF RowSet, Sound
    <2> QED
      BY <2>2, <2>3
  <1>13. Kept(w, v) /\ v.waiting = s /\ Bg(v) = Bg(w) /\ Rd(v) = Rd(w)
    <2>1. v \in Worlds
      BY <1>12 DEF Sound, SoundBut
    <2> QED
      BY <1>6, <1>12, <2>1, SameTasksIs, KeptThenKept
  <1>14. ListOne(s) /\ ListIds(s) \subseteq ListIds(w.waiting)
    BY <1>2, <1>3, <1>5, ListTake DEF OneEach
  <1>15. OneEach(v.waiting, Bg(v), Rd(v), external, cur.id)
    BY <1>2, <1>13, <1>14 DEF OneEach, Apart
  <1>16. TaskGoesOn /\ external' = external
    BY DEF KillWaiting
  <1>17. Ledger(v)
    <2>1. w.queue \in [Queue -> TQueues] /\ owners \subseteq Live(w) /\ owners \subseteq Queue
      BY <1>2, <1>8, WorldFields DEF QueuesOf
    <2>2. v.queue = [q \in Queue |-> IF q \in owners
                       THEN [w.queue[q] EXCEPT !.num_bg = w.queue[q].num_bg - 1] ELSE w.queue[q]]
          /\ v.active = w.active /\ v.idle = w.idle
      BY <1>6, <1>10, WorldFields
    <2>3. Live(v) = Live(w)
      BY <2>2 DEF Live
    <2>4. \A q \in Queue : /\ v.queue[q].player = w.queue[q].player
                           /\ v.queue[q].num_bg = IF q \in owners THEN w.queue[q].num_bg - 1
                                                  ELSE w.queue[q].num_bg
      BY <2>1, <2>2 DEF TQueues
    <2>5. Pl(v) = Pl(w)
      BY <2>3, <2>4 DEF Pl
    <2>6. \A q \in Queue : q \in owners <=> Pl(w)[q] = p
      BY <1>8, <1>9, <2>1 DEF QueuesOf, Pl
    <2>7. \A q \in Queue : Nb(v)[q] = IF Pl(w)[q] = p THEN Nb(w)[q] - 1 ELSE Nb(w)[q]
      BY <2>1, <2>3, <2>4, <2>6 DEF Nb
    <2>8. PICK a : a = w.waiting[i]
      OBVIOUS
    <2>9. Placed(s, a, w.waiting) /\ s \in Seq(Tasks) /\ a \in Tasks /\ a.progr = p
      BY <1>2, <1>3, <1>5, <1>7, <2>8, RemovePlaced, ElementOfSeq
    <2>10. PICK T : T = Waits(s)
      OBVIOUS
    <2>11. PICK U : U = Waits(w.waiting)
      OBVIOUS
    <2>12. p \in Owners /\ WithOne(T, p, U)
      BY <2>9, <2>10, <2>11, WaitsType, WaitsPlaced DEF WithOne
    <2>13. w \in Worlds /\ OneQueue(w) /\ Dropped(w, v, p)
      BY <1>2, <1>13, <2>5, <2>7 DEF SoundBut, Dropped
    <2>14. Balanced(w, U) => Balanced(v, T)
      <3>1. HAVE Balanced(w, U)
      <3> QED
        BY ONLY <2>12, <2>13, <3>1, DropBooks
    <2> QED
      BY <1>1, <1>13, <2>10, <2>11, <2>14 DEF Ledger, Booked
  <1> QED
    BY <1>1, <1>2, <1>11, <1>12, <1>13, <1>15, <1>16, <1>17, TaskContinues

LEMMA KillReadingSafe ==
  ASSUME Inv, NEW q, KillReading(q) PROVE Safe
  <1>1. PICK w : w = World
    OBVIOUS
  <1>2. /\ w \in Worlds /\ Sound(w, Moving) /\ SoundBut(w, Moving, {}) /\ external \subseteq Vms
        /\ w.queue \in [Queue -> TQueues]
        /\ w.queue = queue /\ Live(w) \subseteq Queue
        /\ OneEach(w.waiting, Bg(w), Rd(w), external, cur.id)
    BY <1>1, Before
  <1>3. PICK h : h = w.queue[q]
    OBVIOUS
  <1>4. /\ q \in Live(w) /\ q \in Queue /\ h \in TQueues /\ h.reading # NoVm
        /\ h.reading \in Vms /\ h.reading.id \in TaskId
    <2>1. q \in Live(w) /\ q \in Queue /\ h \in TQueues /\ h.reading # NoVm
      BY <1>1, <1>2, <1>3 DEF KillReading
    <2> QED
      BY <2>1, RowFields DEF Vms
  <1>5. PICK r : r = [h EXCEPT !.reading = NoVm, !.parsing = FALSE]
    OBVIOUS
  <1>6. /\ r \in TQueues /\ r.reading = NoVm /\ r.bg = h.bg /\ r.usage = h.usage
        /\ r.player = h.player /\ r.susp = h.susp /\ r.connected = h.connected
        /\ r.input = h.input /\ r.num_bg = h.num_bg
    BY <1>4, <1>5 DEF TQueues
  <1>7. LiveRow(r) /\ (q \in w.idle \ {} => IdleRow(r, Moving))
    <2>1. LiveRow(h) /\ (q \in w.idle => IdleRow(h, Moving))
      BY <1>2, <1>3, <1>4 DEF SoundBut
    <2> QED
      BY <1>4, <1>6, <2>1 DEF LiveRow, IdleRow, Quiet
  <1>8. PICK v : v = SetRow(w, q, r)
    OBVIOUS
  <1>9. RowSet(w, v, Moving, {}, q, r)
    BY <1>2, <1>3, <1>4, <1>6, <1>7, <1>8, RowChanged
  <1>10. Sound(v, Moving) /\ Kept(w, v) /\ v.waiting = w.waiting
    BY <1>7, <1>9 DEF RowSet, Sound
  <1>11. PICK R : R = Rd(w)
    OBVIOUS
  <1>12. PICK T : T = Rd(v)
    OBVIOUS
  <1>13. T = [R EXCEPT ![q] = 0] /\ R[q] = h.reading.id /\ Bg(v) = Bg(w)
    <2>1. NoVm.id = 0
      BY DEF NoVm
    <2>2. RowWorks(w, v, q, r)
      BY <1>2, <1>4, <1>9, RowWork
    <2> QED
      BY <1>3, <1>6, <1>11, <1>12, <2>1, <2>2 DEF RowWorks
  <1>14. R \in [Queue -> TaskId \cup {0}] /\ ReaderOne(R) /\ R[q] # 0 /\ q \in Queue
    BY <1>2, <1>4, <1>11, <1>13, BgType, TaskAssumption DEF OneEach
  <1>15. ReaderOne(T) /\ ReaderIds(T) = ReaderIds(R) \ {R[q]}
    BY ONLY <1>13, <1>14, ReaderTake
  <1>16. OneEach(v.waiting, Bg(v), Rd(v), external, cur.id)
    BY <1>2, <1>10, <1>11, <1>12, <1>13, <1>15 DEF OneEach, Apart
  <1>17. SetWorld(v)
    <2>1. v.queue = [w.queue EXCEPT ![q] = r] /\ v.active = w.active /\ v.idle = w.idle
          /\ v.waiting = w.waiting
      BY <1>2, <1>8, WorldFields DEF SetRow
    <2> QED
      BY <1>1, <1>2, <1>3, <1>4, <1>5, <2>1 DEF KillReading, SetWorld, World
  <1>18. TaskGoesOn /\ external' = external
    BY DEF KillReading
  <1>19. Ledger(v)
    BY <1>1, <1>2, <1>3, <1>4, <1>6, <1>9, RowLedger
  <1> QED
    BY <1>1, <1>2, <1>10, <1>16, <1>17, <1>18, <1>19, TaskContinues

LEMMA KillReadySafe ==
  ASSUME Inv, NEW q, NEW i, KillReady(q, i) PROVE Safe
  <1>1. PICK w : w = World
    OBVIOUS
  <1>2. /\ w \in Worlds /\ Sound(w, Moving) /\ SoundBut(w, Moving, {}) /\ external \subseteq Vms
        /\ w.queue \in [Queue -> TQueues]
        /\ w.queue = queue /\ w.active = active /\ Live(w) \subseteq Queue
        /\ OneEach(w.waiting, Bg(w), Rd(w), external, cur.id)
    BY <1>1, Before
  <1>3. PICK h : h = w.queue[q]
    OBVIOUS
  <1>4. /\ q \in Live(w) /\ q \notin w.idle /\ q \in Queue /\ h \in TQueues /\ LiveRow(h)
        /\ i \in 1..Len(h.bg) /\ h.bg \in Seq(Tasks) /\ h.num_bg \in Int
    <2>1. q \in Live(w) /\ q \notin w.idle /\ i \in 1..Len(h.bg)
      BY <1>1, <1>2, <1>3 DEF KillReady, Live, SoundBut, ListsSound
    <2> QED
      BY <1>2, <1>3, <2>1, RowFields DEF SoundBut
  <1>5. PICK u : u = RemoveAt(h.bg, i)
    OBVIOUS
  <1>6. PICK id : id = h.bg[i].id
    OBVIOUS
  <1>7. PICK r : r = [h EXCEPT !.bg = u, !.num_bg = h.num_bg - 1]
    OBVIOUS
  <1>8. ListOne(h.bg) => ListOne(u) /\ ListIds(u) = ListIds(h.bg) \ {id}
    BY <1>4, <1>5, <1>6, ListTake
  <1>9. u \in Seq(Tasks)
    BY <1>4, <1>5, RemoveIs
  <1>10. /\ r \in TQueues /\ r.bg = u /\ r.reading = h.reading /\ r.usage = h.usage
         /\ r.player = h.player /\ r.susp = h.susp /\ r.connected = h.connected
         /\ r.input = h.input /\ r.num_bg = h.num_bg - 1
    <2>1. PICK n : n = h.num_bg - 1
      OBVIOUS
    <2>2. n \in Int
      BY <1>4, <2>1
    <2> QED
      BY <1>4, <1>7, <1>9, <2>1, <2>2 DEF TQueues
  <1>11. LiveRow(r)
    <2>1. h.bg # <<>>
      <3>1. Len(h.bg) # 0
        BY <1>4
      <3> QED
        BY <3>1
    <2> QED
      BY <1>4, <1>10, <2>1 DEF LiveRow
  <1>12. PICK v : v = SetRow(w, q, r)
    OBVIOUS
  <1>13. RowSet(w, v, Moving, {}, q, r)
    BY <1>2, <1>3, <1>4, <1>10, <1>11, <1>12, RowChanged
  <1>14. Sound(v, Moving) /\ Kept(w, v) /\ v.waiting = w.waiting
    BY <1>4, <1>13 DEF RowSet, Sound
  <1>15. PICK B : B = Bg(w)
    OBVIOUS
  <1>16. PICK C : C = Bg(v)
    OBVIOUS
  <1>17. C = [B EXCEPT ![q] = u] /\ B[q] = h.bg /\ Rd(v) = Rd(w)
    <2>1. RowWorks(w, v, q, r)
      BY <1>2, <1>4, <1>13, RowWork
    <2> QED
      BY <1>3, <1>10, <1>15, <1>16, <2>1 DEF RowWorks
  <1>18. OneLess(B, C, q, u, id)
    <2>1. B \in [Queue -> Seq(Tasks)] /\ ReadyOne(B)
      BY <1>2, <1>15, BgType DEF OneEach
    <2>2. ListOne(h.bg)
      BY <1>4, <1>17, <2>1 DEF ReadyOne
    <2>3. id \in ListIds(h.bg)
      <3>1. DOMAIN h.bg = 1..Len(h.bg)
        BY <1>4, LenProperties
      <3> QED
        BY <1>4, <1>6, <3>1 DEF ListIds
    <2> QED
      BY <1>4, <1>8, <1>9, <1>17, <2>1, <2>2, <2>3 DEF OneLess
  <1>19. ReadyOne(C) /\ ReadyIds(C) = ReadyIds(B) \ {id}
    BY <1>18, ReadyTake
  <1>20. OneEach(v.waiting, Bg(v), Rd(v), external, cur.id)
    BY <1>2, <1>14, <1>15, <1>16, <1>17, <1>19 DEF OneEach, Apart
  <1>21. SetWorld(v)
    <2>1. v.queue = [w.queue EXCEPT ![q] = r] /\ v.active = w.active /\ v.idle = w.idle
          /\ v.waiting = w.waiting
      BY <1>2, <1>12, WorldFields DEF SetRow
    <2> QED
      BY <1>1, <1>2, <1>3, <1>4, <1>5, <1>7, <2>1, ZenonT(60) DEF KillReady, SetWorld, World
  <1>22. TaskGoesOn /\ external' = external
    BY DEF KillReady
  <1>23. Ledger(v)
    <2>1. Len(u) = Len(h.bg) - 1 /\ \A j \in DOMAIN u : \E k \in DOMAIN h.bg : u[j] = h.bg[k]
      <3>1. Len(h.bg) \in Nat /\ DOMAIN h.bg = 1..Len(h.bg) /\ DOMAIN u = 1..Len(u)
        BY <1>4, <1>9, LenProperties
      <3>2. /\ Len(u) = Len(h.bg) - 1
            /\ \A j \in 1..(Len(h.bg) - 1) : u[j] = IF j < i THEN h.bg[j] ELSE h.bg[j + 1]
        BY <1>4, <1>5, RemoveIs
      <3>3. \A j \in 1..Len(u) : j \in 1..Len(h.bg) /\ j + 1 \in 1..Len(h.bg)
        BY ONLY <3>1, <3>2
      <3> QED
        BY ONLY <3>1, <3>2, <3>3
    <2>2. /\ r.player = World.queue[q].player /\ r.num_bg = World.queue[q].num_bg - 1
          /\ r.bg = u /\ World.queue[q].bg = h.bg /\ q \in Live(World)
          /\ RowSet(World, v, Moving, {}, q, r)
      BY <1>1, <1>3, <1>4, <1>10, <1>13
    <2>3. /\ Len(r.bg) = Len(World.queue[q].bg) - 1
          /\ \A j \in DOMAIN r.bg : \E k \in DOMAIN World.queue[q].bg :
               r.bg[j] = World.queue[q].bg[k]
      BY ONLY <2>1, <2>2
    <2>4. Sound(World, Moving)
      BY DEF Inv
    <2> QED
      BY ONLY <2>2, <2>3, <2>4, TookLedger
  <1> QED
    BY <1>1, <1>2, <1>14, <1>20, <1>21, <1>22, <1>23, TaskContinues

LEMMA KillExternalSafe ==
  ASSUME Inv, NEW vm, KillExternal(vm) PROVE Safe
  <1>1. PICK w : w = World
    OBVIOUS
  <1>2. /\ w \in Worlds /\ Sound(w, Moving) /\ external \subseteq Vms
        /\ OneEach(w.waiting, Bg(w), Rd(w), external, cur.id)
    BY <1>1, Before
  <1>3. SetWorld(w) /\ TaskGoesOn /\ external' = external \ {vm}
    BY <1>1, WorldIs DEF KillExternal, SetWorld
  <1>4. ExternOne(external') /\ ExternIds(external') \subseteq ExternIds(external)
    BY <1>2, <1>3 DEF OneEach, ExternOne, ExternIds
  <1>5. OneEach(w.waiting, Bg(w), Rd(w), external', cur.id)
    BY <1>2, <1>4 DEF OneEach, Apart
  <1>6. Kept(w, w) /\ external' \subseteq Vms
    BY <1>2, <1>3 DEF Kept
  <1> QED
    BY <1>1, <1>2, <1>3, <1>5, <1>6, SelfLedger, TaskContinues

LEMMA ResumeSafe ==
  ASSUME Inv, NEW i \in 1..Len(waiting), Resume(i) PROVE Safe
  <1>1. PICK w : w = World
    OBVIOUS
  <1>2. /\ w \in Worlds /\ Sound(w, Moving) /\ SoundBut(w, Moving, {}) /\ external \subseteq Vms
        /\ now \in 1..MaxTime /\ w.waiting = waiting
        /\ w.waiting \in Seq(Tasks)
        /\ OneEach(w.waiting, Bg(w), Rd(w), external, cur.id)
    BY <1>1, Before, WorldFields
  <1>3. PICK s : s = RemoveAt(w.waiting, i)
    OBVIOUS
  <1>4. PICK y : y = [w EXCEPT !.waiting = s]
    OBVIOUS
  <1>5. WaitingSet(w, y, Moving, {}, s) /\ i \in 1..Len(w.waiting)
    BY <1>2, <1>3, <1>4, RemoveWaiting
  <1>6. /\ Sound(y, Moving) /\ Kept(w, y) /\ y.waiting = s /\ y \in Worlds
        /\ Bg(y) = Bg(w) /\ Rd(y) = Rd(w)
        /\ \A p : CanFind(w, p) => CanFind(y, p)
        /\ Pl(y) = Pl(w) /\ Nb(y) = Nb(w)
    BY <1>5 DEF WaitingSet, SoundBut, Sound, Pl, Nb
  <1>7. PICK a : a = w.waiting[i]
    OBVIOUS
  <1>8. a \in Tasks /\ a.id \in ListIds(w.waiting)
    <2>1. DOMAIN w.waiting = 1..Len(w.waiting)
      BY <1>2, LenProperties
    <2> QED
      BY <1>2, <1>5, <1>7, <2>1, ElementOfSeq DEF ListIds
  <1>9. PICK t : t = [a EXCEPT !.start = now]
    OBVIOUS
  <1>10. t \in Tasks /\ t.id = a.id /\ t.progr = a.progr
    <2>1. now \in Nat
      BY <1>2, TaskAssumption
    <2> QED
      BY <1>8, <1>9, <2>1 DEF Tasks
  <1>11. PICK v : v = MakeReady(y, t)
    OBVIOUS
  <1>12. SetWorld(v)
    <2>1. SetWorld(do_resume(w, i, now))
      BY <1>1 DEF Resume
    <2>2. do_resume(w, i, now) = v
      BY <1>3, <1>4, <1>7, <1>9, <1>10, <1>11 DEF do_resume
    <2> QED
      BY <2>1, <2>2
  <1>13. CanFind(y, t.progr)
    BY <1>1, <1>2, <1>6, <1>7, <1>10 DEF Resume
  <1>14. /\ Sound(v, Moving) /\ Kept(y, v) /\ v.waiting = y.waiting
         /\ \E q : Readied(y, v, q, t)
    BY <1>6, <1>10, <1>11, <1>13, MoveOne
  <1>15. ListOne(s) /\ ListIds(s) = ListIds(w.waiting) \ {t.id}
    BY <1>2, <1>3, <1>5, <1>7, <1>10, ListTake DEF OneEach
  <1>16. t.id \notin ReadyIds(Bg(y)) /\ ReadyOne(Bg(y))
    BY <1>2, <1>6, <1>8, <1>10 DEF OneEach, Apart
  <1>17. ReadyOne(Bg(v)) /\ ReadyIds(Bg(v)) = ReadyIds(Bg(w)) \cup {t.id} /\ Rd(v) = Rd(w)
    BY <1>6, <1>10, <1>14, <1>16, ReadiedOne
  <1>18. t.id \in ListIds(w.waiting) /\ v.waiting = s /\ Kept(w, v)
    BY <1>6, <1>8, <1>10, <1>14, KeptThenKept
  <1>19. OneEach(v.waiting, Bg(v), Rd(v), external, cur.id)
    BY ONLY <1>2, <1>15, <1>17, <1>18 DEF OneEach, Apart
  <1>20. TaskGoesOn /\ external' = external
    BY DEF Resume
  <1>21. Ledger(v)
    <2>1. Placed(s, a, w.waiting) /\ s \in Seq(Tasks)
      BY <1>2, <1>3, <1>5, <1>7, RemovePlaced
    <2>2. PICK T : T = Waits(s)
      OBVIOUS
    <2>3. PICK U : U = Waits(w.waiting)
      OBVIOUS
    <2>4. WithOne(T, t.progr, U)
      BY <1>8, <1>10, <2>1, <2>2, <2>3, WaitsType, WaitsPlaced DEF WithOne
    <2>5. y \in Worlds /\ v \in Worlds /\ OneQueue(v) /\ t \in Tasks
      BY <1>6, <1>10, <1>14 DEF Sound, SoundBut
    <2>6. PICK q : Readied(y, v, q, t)
      BY <1>14
    <2>7. Balanced(y, U) => Balanced(v, T)
      <3>1. HAVE Balanced(y, U)
      <3> QED
        BY ONLY <2>4, <2>5, <2>6, <3>1, ReadiedBooks
    <2>8. Balanced(w, U) => Balanced(y, U)
      BY <1>6 DEF Balanced
    <2> QED
      BY <1>1, <1>18, <2>2, <2>3, <2>7, <2>8 DEF Ledger, Booked
  <1> QED
    BY <1>1, <1>2, <1>12, <1>14, <1>18, <1>19, <1>20, <1>21, TaskContinues

LEMMA ForceInputSafe ==
  ASSUME Inv, NEW player \in does.users \cup does.conns, NEW kind \in InputKinds, NEW at_front,
         ForceInput(player, kind, at_front)
  PROVE  Safe
  <1>1. PICK w : w = World
    OBVIOUS
  <1>2. /\ Sound(w, Moving) /\ SoundBut(w, Moving, {}) /\ does \in Workloads
        /\ player \in User \cup Conn
    BY <1>1, Before
  <1>3. PICK v : v = find_tqueue(w, player)
    OBVIOUS
  <1>4. PICK q : q = QueueOf(v, player)
    OBVIOUS
  <1>5. PICK x : x = enqueue_input_task(v, q, Line(kind, 1), at_front)
    OBVIOUS
  <1>6. Found(w, v, Moving, {}, player, q)
    <2>1. CanFind(w, player)
      BY <1>1 DEF ForceInput
    <2> QED
      BY <1>2, <1>3, <1>4, <2>1, FindQueue
  <1>7. Sound(v, Moving) /\ Kept(w, v) /\ SameWork(w, v) /\ q \in Live(v)
    BY <1>6 DEF Found, Sound
  <1>8. Line(kind, 1) \in Lines
    BY DEF Line, Lines
  <1>9. Enqueued(v, x, Moving, q, v.queue[q].connected)
    BY <1>5, <1>7, <1>8, Enqueue
  <1>10. Sound(x, Moving) /\ Kept(w, x) /\ SameWork(w, x)
    BY <1>7, <1>9, KeptThenKept DEF Enqueued
  <1>11. SetWorld(x) /\ TaskGoesOn /\ external' = external
    BY <1>1, <1>3, <1>4, <1>5 DEF ForceInput
  <1> QED
    BY <1>1, <1>10, <1>11, TaskContinuesSame

LEMMA FlushInputSafe ==
  ASSUME Inv, NEW player \in does.users \cup does.conns, FlushInput(player)
  PROVE  Safe
  <1>1. PICK w : w = World
    OBVIOUS
  <1>2. /\ Sound(w, Moving) /\ SoundBut(w, Moving, {})
        /\ player \in User \cup Conn
    BY <1>1, Before
  <1>3. PICK v : v = find_tqueue(w, player)
    OBVIOUS
  <1>4. PICK q : q = QueueOf(v, player)
    OBVIOUS
  <1>5. PICK x : x = flush_input(v, q)
    OBVIOUS
  <1>6. Found(w, v, Moving, {}, player, q)
    <2>1. CanFind(w, player)
      BY <1>1 DEF FlushInput
    <2> QED
      BY <1>2, <1>3, <1>4, <2>1, FindQueue
  <1>7. SoundBut(v, Moving, {}) /\ Kept(w, v) /\ SameWork(w, v) /\ q \in Live(v)
    BY <1>6 DEF Found
  <1>8. SoundBut(x, Moving, {}) /\ Kept(v, x) /\ SameWork(v, x)
    BY <1>5, <1>7, Flush
  <1>9. Sound(x, Moving) /\ Kept(w, x) /\ SameWork(w, x)
    BY <1>7, <1>8, KeptThenKept DEF Sound
  <1>10. SetWorld(x) /\ TaskGoesOn /\ external' = external
    BY <1>1, <1>3, <1>4, <1>5 DEF FlushInput
  <1> QED
    BY <1>1, <1>2, <1>9, <1>10, TaskContinuesSame

LEMMA ReadInputNowSafe ==
  ASSUME Inv, NEW q, read_input_now(q) PROVE Safe
  <1>1. PICK w : w = World
    OBVIOUS
  <1>2. /\ w \in Worlds /\ SoundBut(w, Moving, {})
        /\ w.queue \in [Queue -> TQueues] /\ w.queue = queue /\ Live(w) \subseteq Queue
    BY <1>1, Before
  <1>3. PICK h : h = w.queue[q]
    OBVIOUS
  <1>4. /\ q \in Live(w) /\ q \in Queue /\ h \in TQueues /\ LiveRow(h)
        /\ (q \in w.idle => IdleRow(h, Moving))
    BY <1>1, <1>2, <1>3 DEF read_input_now, SoundBut
  <1>5. PICK i : i = InputIndex(h, "DQ_INBAND")
    OBVIOUS
  <1>6. i \in 1..Len(h.input)
    BY <1>2, <1>3, <1>4, <1>5, IndexIs DEF read_input_now
  <1>7. PICK r : r = dequeue_input_task(h, i)
    OBVIOUS
  <1>8. /\ r \in TQueues /\ r.player = h.player /\ r.bg = h.bg /\ r.usage = h.usage
        /\ r.reading = h.reading /\ LiveRow(r) /\ (q \in w.idle \ {} => IdleRow(r, Moving))
        /\ r.num_bg = h.num_bg
    BY <1>4, <1>6, <1>7, Dequeue
  <1>9. PICK v : v = SetRow(w, q, r)
    OBVIOUS
  <1>10. RowSet(w, v, Moving, {}, q, r)
    BY <1>2, <1>3, <1>4, <1>8, <1>9, RowChanged
  <1>11. Sound(v, Moving) /\ Kept(w, v) /\ SameWork(w, v)
    BY <1>3, <1>8, <1>10 DEF RowSet, Sound
  <1>12. SetWorld(v) /\ TaskGoesOn /\ external' = external
    BY <1>1, <1>2, <1>3, <1>5, <1>7, <1>9 DEF read_input_now, SetRow
  <1> QED
    BY <1>1, <1>2, <1>11, <1>12, TaskContinuesSame

\* An option of a connection changes; its queue is activated if need be.
LEMMA OptionSet ==
  ASSUME Inv, NEW w, w = World, NEW q \in Live(w), NEW r \in TQueues,
         r.usage = w.queue[q].usage, r.player = w.queue[q].player, r.bg = w.queue[q].bg,
         r.num_bg = w.queue[q].num_bg, r.reading = w.queue[q].reading,
         r.input = w.queue[q].input, r.susp = w.queue[q].susp,
         r.connected = w.queue[q].connected,
         NEW due, ~due => (q \in w.idle => Quiet(r)),
         NEW v, v = SetRow(w, q, r),
         SetWorld(IF due THEN ensure_usage(v, q) ELSE v), TaskGoesOn,
         external' = external
  PROVE  Safe
  <1>1. /\ w \in Worlds /\ SoundBut(w, Moving, {})
        /\ q \in Queue
    BY Before
  <1>2. LiveRow(w.queue[q]) /\ (q \in w.idle => IdleRow(w.queue[q], Moving))
    BY <1>1 DEF SoundBut
  <1>3. LiveRow(r)
    BY <1>2 DEF LiveRow
  <1>4. RowSet(w, v, Moving, {}, q, r)
    BY <1>1, <1>3, RowChanged
  <1>5. CASE ~due
    <2>1. q \in w.idle \ {} => IdleRow(r, Moving)
      BY <1>2, <1>5 DEF IdleRow, is_out_of_input
    <2>2. Sound(v, Moving) /\ Kept(w, v) /\ SameWork(w, v)
      BY <1>4, <2>1 DEF RowSet, Sound
    <2> QED
      BY <1>1, <1>5, <2>2, TaskContinuesSame
  <1>6. CASE due
    <2>1. PICK x : x = ensure_usage(v, q)
      OBVIOUS
    <2>2. SoundBut(v, Moving, {} \cup {q}) /\ Kept(w, v) /\ SameWork(w, v) /\ q \in Live(v)
      BY <1>4 DEF RowSet
    <2>3. Ensured(v, x, Moving, {} \cup {q}, q)
      BY <2>1, <2>2, EnsureSound
    <2>4. ({} \cup {q}) \ {q} = {}
      OBVIOUS
    <2>5. Sound(x, Moving) /\ Kept(v, x) /\ SameWork(v, x)
      BY <2>3, <2>4 DEF Ensured, Sound
    <2>6. Kept(w, x) /\ SameWork(w, x) /\ SetWorld(x)
      BY <1>6, <2>1, <2>2, <2>5, KeptThenKept
    <2> QED
      BY <1>1, <2>5, <2>6, TaskContinuesSame
  <1> QED
    BY <1>5, <1>6

LEMMA SetHoldInputSafe ==
  ASSUME Inv, NEW q, NEW value \in BOOLEAN, SetHoldInput(q, value) PROVE Safe
  <1>1. PICK w : w = World
    OBVIOUS
  <1>2. /\ w \in Worlds /\ SoundBut(w, Moving, {})
        /\ w.queue \in [Queue -> TQueues] /\ w.queue = queue /\ Live(w) \subseteq Queue
    BY <1>1, Before
  <1>3. PICK h : h = w.queue[q]
    OBVIOUS
  <1>4. /\ q \in Live(w) /\ q \in Queue /\ h \in TQueues
        /\ (q \in w.idle => Quiet(h))
    BY <1>1, <1>2, <1>3 DEF SetHoldInput, SoundBut, IdleRow
  <1>5. PICK r : r = [h EXCEPT !.hold = value]
    OBVIOUS
  <1>6. /\ r \in TQueues /\ r.usage = h.usage /\ r.player = h.player /\ r.bg = h.bg
        /\ r.num_bg = h.num_bg /\ r.reading = h.reading /\ r.input = h.input
        /\ r.susp = h.susp /\ r.connected = h.connected /\ r.hold = value
        /\ r.no_oob = h.no_oob
    BY <1>4, <1>5 DEF TQueues
  <1>7. PICK due : due = (~value /\ h.input # <<>>)
    OBVIOUS
  <1>8. ~due => (q \in w.idle => Quiet(r))
    BY <1>4, <1>6, <1>7 DEF Quiet
  <1>9. PICK v : v = SetRow(w, q, r)
    OBVIOUS
  <1>10. SetWorld(IF due THEN ensure_usage(v, q) ELSE v)
    BY <1>1, <1>2, <1>3, <1>5, <1>7, <1>9 DEF SetHoldInput, SetRow
  <1>11. TaskGoesOn /\ external' = external
    BY DEF SetHoldInput
  <1> QED
    BY <1>1, <1>3, <1>4, <1>6, <1>8, <1>9, <1>10, <1>11, OptionSet

LEMMA SetDisableOobSafe ==
  ASSUME Inv, NEW q, NEW value \in BOOLEAN, SetDisableOob(q, value) PROVE Safe
  <1>1. PICK w : w = World
    OBVIOUS
  <1>2. /\ w \in Worlds /\ SoundBut(w, Moving, {})
        /\ w.queue \in [Queue -> TQueues] /\ w.queue = queue /\ Live(w) \subseteq Queue
    BY <1>1, Before
  <1>3. PICK h : h = w.queue[q]
    OBVIOUS
  <1>4. /\ q \in Live(w) /\ q \in Queue /\ h \in TQueues
        /\ (q \in w.idle => Quiet(h))
    BY <1>1, <1>2, <1>3 DEF SetDisableOob, SoundBut, IdleRow
  <1>5. PICK r : r = [h EXCEPT !.no_oob = value]
    OBVIOUS
  <1>6. /\ r \in TQueues /\ r.usage = h.usage /\ r.player = h.player /\ r.bg = h.bg
        /\ r.num_bg = h.num_bg /\ r.reading = h.reading /\ r.input = h.input
        /\ r.susp = h.susp /\ r.connected = h.connected /\ r.hold = h.hold
        /\ r.no_oob = value
    BY <1>4, <1>5 DEF TQueues
  <1>7. PICK due : due = (~value /\ \E line \in ToSet(h.input) : line.kind = "OOB")
    OBVIOUS
  <1>8. ~due => (q \in w.idle => Quiet(r))
    BY <1>4, <1>6, <1>7 DEF Quiet
  <1>9. PICK v : v = SetRow(w, q, r)
    OBVIOUS
  <1>10. SetWorld(IF due THEN ensure_usage(v, q) ELSE v)
    BY <1>1, <1>2, <1>3, <1>5, <1>7, <1>9 DEF SetDisableOob, SetRow
  <1>11. TaskGoesOn /\ external' = external
    BY DEF SetDisableOob
  <1> QED
    BY <1>1, <1>3, <1>4, <1>6, <1>8, <1>9, <1>10, <1>11, OptionSet

\* A connection that takes a player over loses no task and doubles none.
LEMMA TakenOverOne ==
  ASSUME NEW w \in Worlds, NEW v, NEW moving, TakenOver(w, v, moving), NEW E, NEW id,
         OneEach(w.waiting, Bg(w), Rd(w), E, id)
  PROVE  OneEach(v.waiting, Bg(v), Rd(v), E, id)
  <1>1. PICK B : Joined(Bg(w), B) /\ Joined(B, Bg(v))
    BY DEF TakenOver
  <1>2. v.waiting = w.waiting /\ Rd(v) = Rd(w)
    BY DEF TakenOver
  <1>3. Bg(w) \in [Queue -> Seq(Tasks)] /\ ReadyOne(Bg(w))
    BY BgType DEF OneEach
  <1>4. B \in [Queue -> Seq(Tasks)] /\ ReadyOne(B) /\ ReadyIds(B) = ReadyIds(Bg(w))
    BY <1>1, <1>3, ReadyJoin
  <1>5. ReadyOne(Bg(v)) /\ ReadyIds(Bg(v)) = ReadyIds(B)
    BY <1>1, <1>4, ReadyJoin
  <1> QED
    BY <1>2, <1>4, <1>5 DEF OneEach

LEMMA SwitchPlayerSafe ==
  ASSUME Inv, NEW q, NEW new \in does.users, SwitchPlayer(q, new) PROVE Safe
  <1>1. PICK w : w = World
    OBVIOUS
  <1>2. /\ w \in Worlds /\ Sound(w, Moving) /\ external \subseteq Vms
        /\ w.queue = queue /\ new \in User /\ Moving \in BOOLEAN
        /\ OneEach(w.waiting, Bg(w), Rd(w), external, cur.id)
    BY <1>1, Before
  <1>3. /\ q \in Live(w) /\ w.queue[q].connected /\ w.queue[q].player # new /\ FreeSlots(w) # {}
        /\ Moving
    BY <1>1, <1>2 DEF SwitchPlayer, InTask, Moving
  <1>4. PICK v : v = CloseExisting(TakePlayer(w, q, new), w, new)
    OBVIOUS
  <1>5. TakenOver(w, v, Moving)
    BY <1>2, <1>3, <1>4, TakeOver
  <1>6. Sound(v, Moving) /\ Kept(w, v)
    BY <1>5 DEF TakenOver
  <1>7. OneEach(v.waiting, Bg(v), Rd(v), external, cur.id)
    BY <1>2, <1>5, TakenOverOne
  <1>8. SetWorld(v) /\ TaskGoesOn /\ external' = external
    BY <1>1, <1>4 DEF SwitchPlayer
  <1>9. Ledger(v)
    BY <1>1, <1>2, <1>5, TakenLedger
  <1> QED
    BY <1>1, <1>2, <1>6, <1>7, <1>8, <1>9, TaskContinues

-----------------------------------------------------------------------------
(* The end of a task.                                                      *)

\* Whoever is blocked on a queue of w still is in v.
StillReading(w, v) ==
  \A q \in Live(w) : w.queue[q].reading # NoVm => q \in Live(v) /\ v.queue[q].reading # NoVm

LEMMA KeepReading ==
  ASSUME NEW w, NEW v, Kept(w, v), SameWork(w, v)
  PROVE  StillReading(w, v)
  BY DEF Kept, SameWork, SameTasks, StillReading

LEMMA TaskEnds ==
  ASSUME Inv, NEW w, Sound(w, Moving), Kept(World, w), StillReading(World, w), EndTask(w),
         external' \subseteq Vms,
         OneEach(w.waiting, Bg(w), Rd(w), external', 0), Ledger(w)
  PROVE  Safe
  <1>1. /\ Thread(World, phase, cur) /\ does \in Workloads /\ now \in 1..MaxTime
        /\ unused \in SUBSET Conn
    BY Before
  <1>2. Clockwork /\ phase' = "loop" /\ cur' = NoTask /\ cur'.id = 0
    BY <1>1 DEF EndTask, Clockwork, NoTask, Running
  <1>3. w \in Worlds /\ SoundBut(w, Moving, {})
    BY DEF Sound, SoundBut
  <1>4. ASSUME NEW v, SetWorld(v), Sound(v, Moving), ReadersKept(World, v),
               OneEach(v.waiting, Bg(v), Rd(v), external', 0), Ledger(v)
        PROVE  Safe
    <2>1. Good(v, phase', cur', external')
      BY <1>2, <1>4, IdleThread DEF Good
    <2> QED
      BY <1>1, <1>2, <1>4, <2>1, StepTo
  <1>5. CASE cur.q = 0 /\ SetWorld(IF cur.closing = 0 THEN w ELSE free_task_queue(w, cur.closing))
    <2>1. CASE cur.closing = 0
      <3>1. ReadersKept(World, w)
        BY DEF ReadersKept, Kept
      <3> QED
        BY <1>4, <1>5, <2>1, <3>1
    <2>2. CASE cur.closing # 0
      <3>1. PICK q : q = cur.closing
        OBVIOUS
      <3>2. q \in Live(w)
        BY <1>1, <2>2, <3>1 DEF Thread, Kept
      <3>3. PICK v : v = free_task_queue(w, q)
        OBVIOUS
      <3>4. SoundBut(v, Moving, {} \ {q}) /\ Kept(w, v) /\ SameWork(w, v)
        BY <1>3, <3>2, <3>3, FreeQueue
      <3>5. Sound(v, Moving) /\ v \in Worlds
        <4>1. {} \ {q} = {}
          OBVIOUS
        <4> QED
          BY <3>4, <4>1 DEF Sound, SoundBut
      <3>6. v.waiting = w.waiting /\ Bg(v) = Bg(w) /\ Rd(v) = Rd(w)
        BY <1>3, <3>4, <3>5, SameWorkIs
      <3>7. SetWorld(v) /\ ReadersKept(World, v)
        BY <1>5, <2>2, <3>1, <3>3, <3>4 DEF ReadersKept, Kept
      <3>8. Ledger(v)
        <4>1. OneQueue(w) /\ OneQueue(v)
          BY <1>3, <3>5 DEF Sound, SoundBut
        <4> QED
          BY <1>3, <3>4, <3>5, <4>1, SameLedger
      <3> QED
        BY <1>4, <3>5, <3>6, <3>7, <3>8
    <2> QED
      BY <2>1, <2>2
  <1>6. ASSUME cur.q # 0, NEW d \in Durations, w.queue[cur.q].usage + d <= MaxUsage,
               SetWorld(DidOne(w, cur.q, d))
        PROVE  Safe
    <2>1. PICK q : q = cur.q
      OBVIOUS
    <2>2. w.active # <<>> /\ w.active[1] = q /\ d \in Nat
      BY <1>1, <1>6, <2>1, TaskAssumption DEF Thread, Kept
    <2>3. PICK v : v = DidOne(w, q, d)
      OBVIOUS
    <2>4. Freed(w, v, Moving)
      BY <1>6, <2>1, <2>2, <2>3, DidOneSound
    <2>5. /\ Sound(v, Moving) /\ v.waiting = w.waiting /\ Rd(v) = Rd(w)
          /\ \A p \in Queue : Bg(v)[p] = Bg(w)[p] \/ Bg(v)[p] = <<>>
          /\ \A p \in Live(w) : w.queue[p].reading # NoVm => p \in Live(v)
      BY <2>4 DEF Freed
    <2>6. ReadyOne(Bg(v)) /\ ReadyIds(Bg(v)) \subseteq ReadyIds(Bg(w))
      BY <2>5, ReadyFewer DEF OneEach
    <2>7. OneEach(v.waiting, Bg(v), Rd(v), external', 0)
      BY <2>5, <2>6 DEF OneEach, Apart
    <2>8. SetWorld(v) /\ ReadersKept(World, v)
      BY <1>6, <2>1, <2>3, <2>5 DEF ReadersKept, StillReading
    <2>9. Ledger(v)
      BY <2>4, FreedLedger
    <2> QED
      BY <1>4, <2>5, <2>7, <2>8, <2>9
  <1> QED
    BY <1>5, <1>6 DEF EndTask

LEMMA FinishSafe ==
  ASSUME Inv, Finish PROVE Safe
  <1>1. PICK w : w = World
    OBVIOUS
  <1>2. /\ Sound(w, Moving) /\ external \subseteq Vms
        /\ OneEach(w.waiting, Bg(w), Rd(w), external, cur.id)
    BY <1>1, Before
  <1>3. OneEach(w.waiting, Bg(w), Rd(w), external, 0)
    BY <1>2, CurrentOne
  <1>4. Kept(World, w) /\ StillReading(World, w)
    BY <1>1 DEF Kept, StillReading
  <1>5. EndTask(w) /\ external' = external
    BY <1>1 DEF Finish
  <1> QED
    BY <1>1, <1>2, <1>3, <1>4, <1>5, SelfLedger, TaskEnds

\* The running task has an id of its own.
LEMMA CurrentId ==
  ASSUME Inv, phase = "task", NEW w, w = World
  PROVE  /\ cur.id \in TaskId /\ cur.progr \in User /\ cur.id # 0
         /\ cur.id \notin ListIds(w.waiting) /\ cur.id \notin ReadyIds(Bg(w))
         /\ cur.id \notin ReaderIds(Rd(w)) /\ cur.id \notin ExternIds(external)
  <1>1. Thread(w, phase, cur) /\ OneEach(w.waiting, Bg(w), Rd(w), external, cur.id)
    BY Before
  <1>2. cur.id \in TaskId /\ cur.progr \in User /\ cur.id # 0
    BY <1>1, TaskAssumption DEF Thread
  <1> QED
    BY <1>1, <1>2 DEF OneEach, Apart

LEMMA SuspendSafe ==
  ASSUME Inv, NEW delay \in Int, Suspend(delay) PROVE Safe
  <1>1. PICK w : w = World
    OBVIOUS
  <1>2. /\ w \in Worlds /\ Sound(w, Moving) /\ external \subseteq Vms
        /\ now \in 1..MaxTime
        /\ w.waiting \in Seq(Tasks)
        /\ OneEach(w.waiting, Bg(w), Rd(w), external, cur.id)
    BY <1>1, Before, WorldFields
  <1>3. PICK t : t = Task("SUSPENDED", cur.id, cur.progr, StartTime(delay))
    OBVIOUS
  <1>4. phase = "task" /\ CanFind(w, cur.progr)
    BY <1>1 DEF Suspend, InTask
  <1>5. /\ cur.id \in TaskId /\ cur.progr \in User /\ cur.id # 0
        /\ cur.id \notin ListIds(w.waiting) /\ cur.id \notin ReadyIds(Bg(w))
        /\ cur.id \notin ReaderIds(Rd(w)) /\ cur.id \notin ExternIds(external)
    BY <1>1, <1>4, CurrentId
  <1>6. t \in Tasks /\ t.id = cur.id /\ t.progr = cur.progr
    <2>1. StartTime(delay) \in Nat
      BY <1>2, TaskAssumption DEF StartTime, Forever
    <2> QED
      BY <1>3, <1>5, <2>1 DEF Task, Tasks
  <1>7. PICK v : v = enqueue_waiting(w, t)
    OBVIOUS
  <1>8. /\ Sound(v, Moving) /\ Kept(w, v) /\ Bg(v) = Bg(w) /\ Rd(v) = Rd(w)
        /\ Placed(w.waiting, t, v.waiting)
        /\ \A q \in Live(w) : w.queue[q].reading # NoVm =>
             q \in Live(v) /\ v.queue[q].reading = w.queue[q].reading
    BY <1>2, <1>4, <1>6, <1>7, EnqueueWaiting
  <1>9. ListOne(v.waiting) /\ ListIds(v.waiting) = ListIds(w.waiting) \cup {t.id}
    <2>1. ListOne(w.waiting) /\ t.id \notin ListIds(w.waiting)
      BY <1>2, <1>5, <1>6 DEF OneEach
    <2> QED
      BY <1>2, <1>6, <1>8, <2>1, ListPut
  <1>10. OneEach(v.waiting, Bg(v), Rd(v), external, 0)
    BY <1>2, <1>5, <1>6, <1>8, <1>9 DEF OneEach, Apart
  <1>11. StillReading(w, v)
    BY <1>8 DEF StillReading
  <1>12. EndTask(v) /\ external' = external
    BY <1>1, <1>3, <1>7 DEF Suspend
  <1>13. Ledger(v)
    <2>1. check_user_task_limit(t.progr)
      BY <1>6 DEF Suspend
    <2> QED
      BY <1>1, <1>2, <1>4, <1>6, <1>7, <2>1, CountedLedger
  <1> QED
    BY <1>1, <1>2, <1>8, <1>10, <1>11, <1>12, <1>13, TaskEnds

OneMore(R, T, q, id) ==
  /\ R \in [Queue -> TaskId \cup {0}] /\ ReaderOne(R) /\ q \in Queue /\ R[q] = 0
  /\ id \notin ReaderIds(R) /\ id # 0 /\ T = [R EXCEPT ![q] = id]

LEMMA ReaderPut ==
  ASSUME NEW R, NEW T, NEW q, NEW id, OneMore(R, T, q, id)
  PROVE  ReaderOne(T) /\ ReaderIds(T) = ReaderIds(R) \cup {id}
  <1>1. T[q] = id /\ \A p \in Queue \ {q} : T[p] = R[p] /\ R[p] # id
    BY DEF ReaderIds, OneMore
  <1>2. ReaderIds(T) = ReaderIds(R) \cup {id}
    BY <1>1 DEF ReaderIds, OneMore
  <1>3. ReaderOne(T)
    BY <1>1 DEF ReaderOne, OneMore
  <1> QED
    BY <1>2, <1>3

LEMMA ReadSafe ==
  ASSUME Inv, NEW q, NEW parsing \in BOOLEAN, Read(q, parsing) PROVE Safe
  <1>1. PICK w : w = World
    OBVIOUS
  <1>2. /\ w \in Worlds /\ SoundBut(w, Moving, {}) /\ external \subseteq Vms
        /\ w.queue \in [Queue -> TQueues]
        /\ w.queue = queue /\ Live(w) \subseteq Queue
        /\ OneEach(w.waiting, Bg(w), Rd(w), external, cur.id)
    BY <1>1, Before
  <1>3. PICK h : h = w.queue[q]
    OBVIOUS
  <1>4. /\ q \in Live(w) /\ q \in Queue /\ h \in TQueues /\ h.reading = NoVm
        /\ ~is_out_of_input(h) /\ LiveRow(h) /\ phase = "task"
        /\ (q \in w.idle => IdleRow(h, Moving))
    BY <1>1, <1>2, <1>3 DEF Read, InTask, SoundBut
  <1>5. /\ cur.id \in TaskId /\ cur.progr \in User /\ cur.id # 0
        /\ cur.id \notin ListIds(w.waiting) /\ cur.id \notin ReadyIds(Bg(w))
        /\ cur.id \notin ReaderIds(Rd(w)) /\ cur.id \notin ExternIds(external)
    BY <1>1, <1>4, CurrentId
  <1>6. PICK m : m = Vm(cur.id, cur.progr)
    OBVIOUS
  <1>7. m \in Vms /\ m.id = cur.id /\ m # NoVm
    BY <1>5, <1>6 DEF Vm, Vms, NoVm
  <1>8. PICK r : r = [h EXCEPT !.reading = m, !.parsing = parsing]
    OBVIOUS
  <1>9. /\ r \in TQueues /\ r.usage = h.usage /\ r.player = h.player /\ r.bg = h.bg
        /\ r.num_bg = h.num_bg /\ r.reading = m /\ r.input = h.input
        /\ r.susp = h.susp /\ r.connected = h.connected
    BY <1>4, <1>7, <1>8 DEF TQueues
  <1>10. LiveRow(r)
    BY <1>4, <1>9 DEF LiveRow
  <1>11. PICK v : v = SetRow(w, q, r)
    OBVIOUS
  <1>12. RowSet(w, v, Moving, {}, q, r)
    BY <1>2, <1>3, <1>4, <1>9, <1>10, <1>11, RowChanged
  <1>13. /\ Kept(w, v) /\ v.waiting = w.waiting /\ Live(v) = Live(w) /\ v.queue[q] = r
         /\ \A p \in Queue \ {q} : v.queue[p] = w.queue[p]
         /\ v \in Worlds
    BY <1>12 DEF RowSet, SoundBut
  <1>14. StillReading(w, v)
    BY <1>2, <1>7, <1>9, <1>13 DEF StillReading
  <1>15. ReaderOne(Rd(v)) /\ ReaderIds(Rd(v)) = ReaderIds(Rd(w)) \cup {cur.id} /\ Bg(v) = Bg(w)
    <2>1. RowWorks(w, v, q, r)
      BY <1>2, <1>4, <1>12, RowWork
    <2>2. PICK R : R = Rd(w)
      OBVIOUS
    <2>3. PICK T : T = Rd(v)
      OBVIOUS
    <2>4. PICK id : id = cur.id
      OBVIOUS
    <2>5. NoVm.id = 0
      BY DEF NoVm
    <2>6. T = [R EXCEPT ![q] = id] /\ R[q] = 0 /\ Bg(v) = Bg(w)
      BY <1>3, <1>4, <1>7, <1>9, <2>1, <2>2, <2>3, <2>4, <2>5 DEF RowWorks
    <2>7. /\ R \in [Queue -> TaskId \cup {0}] /\ ReaderOne(R) /\ q \in Queue
          /\ id \notin ReaderIds(R) /\ id # 0
      BY <1>2, <1>4, <1>5, <2>2, <2>4, BgType DEF OneEach
    <2>8. OneMore(R, T, q, id)
      BY <2>6, <2>7 DEF OneMore
    <2>9. ReaderOne(T) /\ ReaderIds(T) = ReaderIds(R) \cup {id}
      BY <2>8, ReaderPut
    <2> QED
      BY <2>2, <2>3, <2>4, <2>6, <2>9
  <1>16. OneEach(v.waiting, Bg(v), Rd(v), external, 0)
    <2>1. Reads
      BY DEF Read, InTask, Reads
    <2> QED
      BY <1>2, <1>5, <1>13, <1>15, <2>1 DEF OneEach, Apart
  <1>17. EndTask(IF h.input # <<>> THEN ensure_usage(v, q) ELSE v)
    <2>1. v = [w EXCEPT !.queue[q].reading = m, !.queue[q].parsing = parsing]
      <3>1. PICK Q : Q = w.queue
        OBVIOUS
      <3>2. PICK A : A = w.active
        OBVIOUS
      <3>3. PICK I : I = w.idle
        OBVIOUS
      <3>4. PICK W : W = w.waiting
        OBVIOUS
      <3>5. w = [queue |-> Q, active |-> A, idle |-> I, waiting |-> W]
        BY <1>2, <3>1, <3>2, <3>3, <3>4, WorldFields
      <3>6. /\ Q \in [Queue -> TQueues] /\ q \in Queue
            /\ r = [Q[q] EXCEPT !.reading = m, !.parsing = parsing]
        BY <1>2, <1>3, <1>4, <1>8, <3>1
      <3>7. v = [queue |-> [Q EXCEPT ![q] = r], active |-> A, idle |-> I, waiting |-> W]
        BY <1>11, <3>5 DEF SetRow
      <3>8. PICK a : a = [Q[q] EXCEPT !.reading = m]
        OBVIOUS
      <3>9. PICK y : y = [w EXCEPT !.queue[q].reading = m]
        OBVIOUS
      <3>10. PICK P : P = [Q EXCEPT ![q] = a]
        OBVIOUS
      <3>11. y = [queue |-> P, active |-> A, idle |-> I, waiting |-> W]
        BY ONLY <3>5, <3>8, <3>9, <3>10
      <3>12. P[q] = a /\ r = [a EXCEPT !.parsing = parsing] /\ [P EXCEPT ![q] = r] = [Q EXCEPT ![q] = r]
        BY ONLY <3>6, <3>8, <3>10
      <3>13. PICK Z : Z = [y.queue EXCEPT ![q] = [y.queue[q] EXCEPT !.parsing = parsing]]
        OBVIOUS
      <3>14. y.queue = P
        BY ONLY <3>11
      <3>15. Z = [Q EXCEPT ![q] = r]
        BY ONLY <3>12, <3>13, <3>14
      <3>16. [y EXCEPT !.queue = Z] = v
        BY ONLY <3>7, <3>11, <3>15
      <3> QED
        BY ONLY <3>9, <3>13, <3>16
    <2> QED
      BY <1>1, <1>2, <1>3, <1>6, <2>1 DEF Read
  <1>18. external' = external
    BY DEF Read
  <1>a. Ledger(v)
    BY <1>1, <1>2, <1>3, <1>4, <1>9, <1>12, RowLedger
  <1>19. CASE h.input = <<>>
    <2>1. q \in w.idle \ {} => IdleRow(r, Moving)
      BY <1>4, <1>9, <1>19 DEF IdleRow, Quiet, is_out_of_input
    <2>2. Sound(v, Moving)
      BY <1>12, <2>1 DEF RowSet, Sound
    <2>3. EndTask(v)
      BY <1>17, <1>19
    <2> QED
      BY <1>1, <1>2, <1>13, <1>14, <1>16, <1>18, <1>a, <2>2, <2>3, TaskEnds
  <1>20. CASE h.input # <<>>
    <2>1. PICK x : x = ensure_usage(v, q)
      OBVIOUS
    <2>2. SoundBut(v, Moving, {} \cup {q}) /\ q \in Live(v)
      BY <1>4, <1>12, <1>13 DEF RowSet
    <2>3. Ensured(v, x, Moving, {} \cup {q}, q)
      BY <2>1, <2>2, EnsureSound
    <2>4. ({} \cup {q}) \ {q} = {}
      OBVIOUS
    <2>5. Sound(x, Moving) /\ Kept(v, x) /\ SameWork(v, x) /\ x \in Worlds
      BY <2>3, <2>4 DEF Ensured, Sound, SoundBut
    <2>6. Kept(w, x) /\ x.waiting = v.waiting /\ Bg(x) = Bg(v) /\ Rd(x) = Rd(v)
      BY <1>13, <2>5, KeptThenKept, SameWorkIs
    <2>7. StillReading(w, x)
      BY <1>14, <2>5, KeepReading DEF StillReading
    <2>8. EndTask(x)
      BY <1>17, <1>20, <2>1
    <2>9. Ledger(x)
      <3>1. OneQueue(v) /\ OneQueue(x)
        BY <2>2, <2>5 DEF Sound, SoundBut
      <3> QED
        BY <1>13, <1>a, <2>5, <3>1, SameLedger
    <2> QED
      BY <1>1, <1>2, <1>16, <1>18, <2>5, <2>6, <2>7, <2>8, <2>9, TaskEnds
  <1> QED
    BY <1>19, <1>20

LEMMA ExecSafe ==
  ASSUME Inv, Exec PROVE Safe
  <1>1. PICK w : w = World
    OBVIOUS
  <1>2. /\ Sound(w, Moving) /\ external \subseteq Vms
        /\ OneEach(w.waiting, Bg(w), Rd(w), external, cur.id)
    BY <1>1, Before
  <1>3. PICK m : m = Vm(cur.id, cur.progr)
    OBVIOUS
  <1>4. /\ cur.id \in TaskId /\ cur.progr \in User /\ cur.id # 0
        /\ cur.id \notin ListIds(w.waiting) /\ cur.id \notin ReadyIds(Bg(w))
        /\ cur.id \notin ReaderIds(Rd(w)) /\ cur.id \notin ExternIds(external)
    BY <1>1, CurrentId DEF Exec, InTask
  <1>5. m \in Vms /\ m.id = cur.id
    BY <1>3, <1>4 DEF Vm, Vms
  <1>6. EndTask(w) /\ external' = external \cup {m}
    BY <1>1, <1>3 DEF Exec
  <1>7. ExternIds(external') = ExternIds(external) \cup {cur.id} /\ ExternOne(external')
    BY <1>2, <1>4, <1>5, <1>6 DEF OneEach, ExternOne, ExternIds
  <1>8. OneEach(w.waiting, Bg(w), Rd(w), external', 0)
    BY <1>2, <1>4, <1>7 DEF OneEach, Apart
  <1>9. Kept(World, w) /\ StillReading(World, w) /\ external' \subseteq Vms
    BY <1>1, <1>2, <1>5, <1>6 DEF Kept, StillReading
  <1> QED
    BY <1>1, <1>2, <1>6, <1>8, <1>9, SelfLedger, TaskEnds

LEMMA FinishLoginSafe ==
  ASSUME Inv, NEW player \in does.users, NEW progr \in does.users, FinishLogin(player, progr)
  PROVE  Safe
  <1>1. PICK w : w = World
    OBVIOUS
  <1>2. /\ w \in Worlds /\ Sound(w, Moving) /\ SoundBut(w, Moving, {}) /\ external \subseteq Vms
        /\ Thread(w, phase, cur) /\ does \in Workloads /\ now \in 1..MaxTime
        /\ unused \in SUBSET Conn
        /\ w.queue = queue /\ player \in User /\ progr \in User /\ Moving \in BOOLEAN
        /\ OneEach(w.waiting, Bg(w), Rd(w), external, cur.id)
    BY <1>1, Before
  <1>3. PICK q : q = cur.q
    OBVIOUS
  <1>4. /\ phase = "task" /\ q # 0 /\ w.active # <<>> /\ w.active[1] = q /\ q \in Queue
        /\ cur.id \in TaskId
    BY <1>2, <1>3 DEF FinishLogin, Thread, Threads
  <1>5. q \in Live(w) /\ q \notin w.idle
    BY <1>2, <1>4, ActiveList DEF Live, SoundBut, ListsSound
  <1>6. /\ w.queue[q].connected /\ w.queue[q].player \in Conn /\ FreeSlots(w) # {}
        /\ w.queue[q].player # player
    BY <1>1, <1>2, <1>3, TaskAssumption DEF FinishLogin
  <1>7. PICK v : v = CloseExisting(TakePlayer(w, q, player), w, player)
    OBVIOUS
  <1>8. TakenOver(w, v, Moving)
    BY <1>2, <1>5, <1>6, <1>7, TakeOver
  <1>9. Sound(v, Moving) /\ Kept(w, v)
    BY <1>8 DEF TakenOver
  <1>10. OneEach(v.waiting, Bg(v), Rd(v), external, cur.id)
    BY <1>2, <1>8, TakenOverOne
  <1>11. /\ SetWorld(v) /\ UNCHANGED <<external, phase, now, unused, does>>
         /\ cur' = Running(cur.id, progr, q, FALSE, 0)
    BY <1>1, <1>3, <1>7 DEF FinishLogin
  <1>12. v.active # <<>> /\ v.active[1] = q
    BY <1>4, <1>9 DEF Kept
  <1>13. Thread(v, phase', cur') /\ cur'.id = cur.id
    BY <1>2, <1>4, <1>11, <1>12 DEF Thread, Threads, Running
  <1>14. Ledger(v)
    BY <1>1, <1>2, <1>8, TakenLedger
  <1>15. Good(v, phase', cur', external') /\ Clockwork
    BY <1>1, <1>2, <1>9, <1>10, <1>11, <1>13, <1>14 DEF Good, ReadersKept, Kept, Clockwork
  <1> QED
    BY <1>2, <1>11, <1>15, StepTo

-----------------------------------------------------------------------------
(* A checkpoint, and the restart from it.                                  *)

\* A list of the tasks of one kind.
KindIds(s, kind, n) == {s[j].id : j \in {m \in 1..n : s[m].kind = kind}}
OfKindChain(s, kind) ==
  LET upto[i \in 0..Len(s)] ==
        IF i = 0 THEN <<>>
        ELSE IF s[i].kind = kind THEN Append(upto[i - 1], s[i]) ELSE upto[i - 1]
  IN  upto

LEMMA OfKindIs ==
  ASSUME NEW s \in Seq(Tasks), NEW kind \in {"FORKED", "SUSPENDED"}
  PROVE  /\ OfKind(s, kind) = OfKindChain(s, kind)[Len(s)]
         /\ OfKindChain(s, kind)[0] = <<>>
         /\ \A i \in 1..Len(s) : OfKindChain(s, kind)[i] =
              IF s[i].kind = kind THEN Append(OfKindChain(s, kind)[i - 1], s[i])
              ELSE OfKindChain(s, kind)[i - 1]
  <1> DEFINE F(g) == [i \in 0..Len(s) |->
                        IF i = 0 THEN <<>>
                        ELSE IF s[i].kind = kind THEN Append(g[i - 1], s[i]) ELSE g[i - 1]]
  <1>1. Len(s) \in Nat
    BY LenProperties
  <1>e. PICK e : e = <<>>
    OBVIOUS
  <1>n. PICK n : n = Len(s)
    OBVIOUS
  <1>2. PICK g : Chain(g, kind, e, s, n)
    BY ONLY <1>1, <1>n, ChainExists
  <1>3. \A x, y : Taking(kind, x, y) = IF y.kind = kind THEN Append(x, y) ELSE x
    BY DEF Taking
  <1>4. g = F(g)
    BY <1>2, <1>3, <1>e, <1>n, ZenonT(60) DEF Chain
  <1>5. PICK f : f = OfKindChain(s, kind)
    OBVIOUS
  <1>6. f = CHOOSE h : h = F(h)
    BY <1>5 DEF OfKindChain
  <1>7. f = F(f)
    <2> HIDE DEF F
    <2> QED
      BY <1>4, <1>6
  <1>8. f[0] = <<>> /\ \A i \in 1..Len(s) :
          f[i] = IF s[i].kind = kind THEN Append(f[i - 1], s[i]) ELSE f[i - 1]
    <2>1. 0 \in 0..Len(s) /\ \A i \in 1..Len(s) : i \in 0..Len(s) /\ i # 0
      BY <1>1
    <2>2. \A i \in 0..Len(s) : f[i] =
            IF i = 0 THEN <<>>
            ELSE IF s[i].kind = kind THEN Append(f[i - 1], s[i]) ELSE f[i - 1]
      BY <1>7, Zenon
    <2> QED
      BY <2>1, <2>2
  <1>9. OfKind(s, kind) = f[Len(s)]
    BY <1>5 DEF OfKind, OfKindChain
  <1> QED
    BY <1>5, <1>8, <1>9

OneKind(s, kind, u) ==
  /\ u \in Seq(Tasks) /\ ListOne(u) /\ ListIds(u) = KindIds(s, kind, Len(s))
  /\ ToSet(u) \subseteq ToSet(s)

\* Whose tasks are in a list after one is put there, and in two lists joined.
LEMMA TasksPut ==
  ASSUME NEW s \in Seq(Tasks), NEW t, NEW u, Placed(s, t, u)
  PROVE  ToSet(u) \subseteq ToSet(s) \cup {t}
  <1>1. Len(s) \in Nat /\ DOMAIN s = 1..Len(s)
    BY LenProperties
  <1>2. PICK k \in 1..(Len(s) + 1) :
          u = [i \in 1..(Len(s) + 1) |-> IF i < k THEN s[i]
                                        ELSE IF i = k THEN t ELSE s[i - 1]]
    BY DEF Placed
  <1>3. DOMAIN u = 1..(Len(s) + 1)
    BY <1>2
  <1>4. ASSUME NEW i \in 1..(Len(s) + 1) PROVE u[i] \in ToSet(s) \cup {t}
    <2>1. CASE i < k
      <3>1. i \in 1..Len(s) /\ u[i] = s[i]
        BY <1>1, <1>2, <2>1
      <3> QED
        BY <1>1, <3>1 DEF ToSet
    <2>2. CASE i > k
      <3>1. i - 1 \in 1..Len(s) /\ u[i] = s[i - 1]
        BY <1>1, <1>2, <2>2
      <3> QED
        BY <1>1, <3>1 DEF ToSet
    <2>3. CASE i = k
      BY <1>2, <2>3
    <2>4. i < k \/ i > k \/ i = k
      BY <1>1
    <2> QED
      BY <2>1, <2>2, <2>3, <2>4
  <1> QED
    BY <1>3, <1>4 DEF ToSet

LEMMA TasksJoin ==
  ASSUME NEW s \in Seq(Tasks), NEW t \in Seq(Tasks)
  PROVE  ToSet(s \o t) \subseteq ToSet(s) \cup ToSet(t) /\ s \o t \in Seq(Tasks)
  <1>1. /\ Len(s) \in Nat /\ DOMAIN s = 1..Len(s) /\ Len(t) \in Nat /\ DOMAIN t = 1..Len(t)
    BY LenProperties
  <1>2. PICK u : u = s \o t
    OBVIOUS
  <1>3. /\ u \in Seq(Tasks) /\ Len(u) = Len(s) + Len(t)
        /\ \A i \in 1..(Len(s) + Len(t)) : u[i] = IF i <= Len(s) THEN s[i] ELSE t[i - Len(s)]
    BY <1>2, ConcatProperties
  <1>4. DOMAIN u = 1..(Len(s) + Len(t))
    BY <1>3, LenProperties
  <1>5. ASSUME NEW i \in 1..(Len(s) + Len(t)) PROVE u[i] \in ToSet(s) \cup ToSet(t)
    <2>1. CASE i <= Len(s)
      <3>1. i \in 1..Len(s) /\ u[i] = s[i]
        BY <1>1, <1>3, <2>1
      <3> QED
        BY <1>1, <3>1 DEF ToSet
    <2>2. CASE ~(i <= Len(s))
      <3>1. i - Len(s) \in 1..Len(t) /\ u[i] = t[i - Len(s)]
        BY <1>1, <1>3, <2>2
      <3> QED
        BY <1>1, <3>1 DEF ToSet
    <2> QED
      BY <2>1, <2>2
  <1> QED
    BY <1>2, <1>3, <1>4, <1>5 DEF ToSet

LEMMA OfKindOne ==
  ASSUME NEW s \in Seq(Tasks), ListOne(s), NEW kind \in {"FORKED", "SUSPENDED"},
         NEW u, u = OfKind(s, kind)
  PROVE  OneKind(s, kind, u)
  <1>1. PICK n : n = Len(s)
    OBVIOUS
  <1>2. PICK f : f = OfKindChain(s, kind)
    OBVIOUS
  <1>3. /\ n \in Nat /\ DOMAIN s = 1..n /\ \A i \in 1..n : s[i] \in Tasks
    BY <1>1, ElementOfSeq, LenProperties
  <1>4. /\ u = f[n] /\ f[0] = <<>>
        /\ \A i \in 1..n : f[i] = IF s[i].kind = kind THEN Append(f[i - 1], s[i]) ELSE f[i - 1]
    BY <1>1, <1>2, OfKindIs
  <1> DEFINE G(i) == /\ f[i] \in Seq(Tasks) /\ ListOne(f[i]) /\ ListIds(f[i]) = KindIds(s, kind, i)
                     /\ ToSet(f[i]) \subseteq ToSet(s)
             S == {i \in 0..n : G(i)}
  <1>5. G(0)
    <2>1. PICK e : e = <<>>
      OBVIOUS
    <2>2. e \in Seq(Tasks) /\ DOMAIN e = {} /\ f[0] = e
      BY <1>4, <2>1
    <2>3. ListOne(e) /\ ListIds(e) = {} /\ ToSet(e) = {}
      BY <2>2 DEF ListOne, ListIds, ToSet
    <2>4. 1..0 = {}
      OBVIOUS
    <2>5. KindIds(s, kind, 0) = {}
      BY <2>4 DEF KindIds
    <2> QED
      BY <2>2, <2>3, <2>5
  <1>6. ASSUME NEW i \in 0..(n - 1), G(i) PROVE G(i + 1)
    <2>1. /\ i + 1 \in 1..n /\ (i + 1) - 1 = i /\ 1..(i + 1) = (1..i) \cup {i + 1}
          /\ \A k \in 1..i : k \in 1..n /\ k # i + 1
      BY <1>3
    <2>2. PICK x : x = f[i]
      OBVIOUS
    <2>3. PICK y : y = f[i + 1]
      OBVIOUS
    <2>4. PICK t : t = s[i + 1]
      OBVIOUS
    <2>5. t \in Tasks /\ y = IF t.kind = kind THEN Append(x, t) ELSE x
      BY <1>3, <1>4, <2>1, <2>2, <2>3, <2>4
    <2>6. KindIds(s, kind, i + 1) = KindIds(s, kind, i) \cup (IF t.kind = kind THEN {t.id} ELSE {})
      BY <2>1, <2>4 DEF KindIds
    <2>7. CASE t.kind = kind
      <3>1. t.id \notin KindIds(s, kind, i)
        BY <1>3, <2>1, <2>4 DEF KindIds, ListOne
      <3>2. x \in Seq(Tasks) /\ ListOne(x) /\ t.id \notin ListIds(x)
        BY <1>6, <2>2, <3>1
      <3>3. Placed(x, t, y) /\ y \in Seq(Tasks)
        <4>1. y = Append(x, t)
          BY <2>5, <2>7
        <4> QED
          BY <2>5, <3>2, <4>1, AppendPlaces, AppendProperties
      <3>4. ListOne(y) /\ ListIds(y) = ListIds(x) \cup {t.id}
        BY ONLY <2>5, <3>2, <3>3, ListPut
      <3>5. ToSet(y) \subseteq ToSet(x) \cup {t} /\ t \in ToSet(s)
        <4>1. ToSet(y) \subseteq ToSet(x) \cup {t}
          BY ONLY <3>2, <3>3, TasksPut
        <4>2. t \in ToSet(s)
          BY <1>3, <2>1, <2>4 DEF ToSet
        <4> QED
          BY <4>1, <4>2
      <3> QED
        BY <1>6, <2>2, <2>3, <2>6, <2>7, <3>3, <3>4, <3>5
    <2>8. CASE t.kind # kind
      BY <1>6, <2>2, <2>3, <2>5, <2>6, <2>8
    <2> QED
      BY <2>7, <2>8
  <1> HIDE DEF G
  <1>7. 0 \in S /\ \A i \in 0..(n - 1) : i \in S => i + 1 \in S
    BY <1>3, <1>5, <1>6
  <1>8. 0..n \subseteq S
    <2> HIDE DEF S
    <2> QED
      BY <1>3, <1>7, UpInduction
  <1>9. G(n)
    BY <1>3, <1>8
  <1> QED
    BY <1>1, <1>4, <1>9 DEF G, OneKind

\* The ready tasks of the active queues.
ActiveBgChain(w) ==
  LET upto[i \in 0..Len(w.active)] ==
        IF i = 0 THEN <<>> ELSE upto[i - 1] \o w.queue[w.active[i]].bg
  IN  upto

LEMMA ActiveBgIs ==
  ASSUME NEW w, Len(w.active) \in Nat
  PROVE  /\ ActiveBg(w) = ActiveBgChain(w)[Len(w.active)]
         /\ ActiveBgChain(w)[0] = <<>>
         /\ \A i \in 1..Len(w.active) :
              ActiveBgChain(w)[i] = ActiveBgChain(w)[i - 1] \o w.queue[w.active[i]].bg
  <1> DEFINE F(g) == [i \in 0..Len(w.active) |->
                        IF i = 0 THEN <<>> ELSE g[i - 1] \o w.queue[w.active[i]].bg]
  <1>e. PICK e : e = <<>>
    OBVIOUS
  <1>n. PICK n : n = Len(w.active)
    OBVIOUS
  <1>k. PICK k : k = "bg"
    OBVIOUS
  <1>s. PICK s : s = [i \in 0..n |-> w.queue[w.active[i]].bg]
    OBVIOUS
  <1>2. PICK g : Chain(g, k, e, s, n)
    BY ONLY Len(w.active) \in Nat, <1>n, ChainExists
  <1>3. \A x, y : Taking(k, x, y) = x \o y
    BY <1>k DEF Taking
  <1>4. g = F(g)
    BY <1>2, <1>3, <1>e, <1>n, <1>s DEF Chain
  <1>5. PICK f : f = ActiveBgChain(w)
    OBVIOUS
  <1>6. f = CHOOSE h : h = F(h)
    BY <1>5 DEF ActiveBgChain
  <1>7. f = F(f)
    <2> HIDE DEF F
    <2> QED
      BY <1>4, <1>6
  <1>8. f[0] = <<>> /\ \A i \in 1..Len(w.active) : f[i] = f[i - 1] \o w.queue[w.active[i]].bg
    <2>1. 0 \in 0..Len(w.active) /\ \A i \in 1..Len(w.active) : i \in 0..Len(w.active) /\ i # 0
      OBVIOUS
    <2>2. \A i \in 0..Len(w.active) : f[i] =
            IF i = 0 THEN <<>> ELSE f[i - 1] \o w.queue[w.active[i]].bg
      BY <1>7, Zenon
    <2> QED
      BY <2>1, <2>2
  <1>9. ActiveBg(w) = f[Len(w.active)]
    BY <1>5 DEF ActiveBg, ActiveBgChain
  <1> QED
    BY <1>5, <1>8, <1>9

\* The tasks that are ready.
ReadyTasks(B) == UNION {ToSet(B[q]) : q \in Queue}

LEMMA ActiveBgOne ==
  ASSUME NEW w, NEW moving, Sound(w, moving), ReadyOne(Bg(w)), NEW u, u = ActiveBg(w)
  PROVE  /\ u \in Seq(Tasks) /\ ListOne(u) /\ ListIds(u) \subseteq ReadyIds(Bg(w))
         /\ ~moving => ListIds(u) = ReadyIds(Bg(w))
         /\ ToSet(u) \subseteq ReadyTasks(Bg(w))
  <1>1. PICK n : n = Len(w.active)
    OBVIOUS
  <1>2. PICK B : B = Bg(w)
    OBVIOUS
  <1>3. w \in Worlds /\ ListsSound(w)
    BY DEF Sound, SoundBut
  <1>4. /\ n \in Nat /\ DOMAIN w.active = 1..n /\ \A i \in 1..n : w.active[i] \in Queue
        /\ ToSet(w.active) \subseteq Live(w)
    BY <1>1, <1>3, ActiveList DEF Live
  <1>5. \A i, j \in 1..n : i < j => w.active[i] # w.active[j]
    BY <1>3, <1>4 DEF ListsSound
  <1>6. B \in [Queue -> Seq(Tasks)] /\ ReadyOne(B)
    BY <1>2, <1>3, BgType
  <1>7. \A i \in 1..n : w.queue[w.active[i]].bg = B[w.active[i]]
    BY <1>2, <1>4 DEF Bg, ToSet
  <1>8. PICK f : f = ActiveBgChain(w)
    OBVIOUS
  <1>9. u = f[n] /\ f[0] = <<>> /\ \A i \in 1..n : f[i] = f[i - 1] \o B[w.active[i]]
    <2>1. Len(w.active) \in Nat
      BY <1>1, <1>4
    <2>2. /\ u = ActiveBgChain(w)[Len(w.active)] /\ ActiveBgChain(w)[0] = <<>>
          /\ \A i \in 1..Len(w.active) :
               ActiveBgChain(w)[i] = ActiveBgChain(w)[i - 1] \o w.queue[w.active[i]].bg
      BY ONLY <2>1, u = ActiveBg(w), ActiveBgIs
    <2> QED
      BY <1>1, <1>7, <1>8, <2>2
  <1> DEFINE Earlier(i) == UNION {ListIds(B[w.active[j]]) : j \in 1..i}
             G(i) == /\ f[i] \in Seq(Tasks) /\ ListOne(f[i]) /\ ListIds(f[i]) = Earlier(i)
                     /\ ToSet(f[i]) \subseteq ReadyTasks(B)
             S == {i \in 0..n : G(i)}
  <1>10. G(0)
    <2>1. PICK e : e = <<>>
      OBVIOUS
    <2>2. e \in Seq(Tasks) /\ DOMAIN e = {} /\ f[0] = e
      BY <1>9, <2>1
    <2>3. ListOne(e) /\ ListIds(e) = {} /\ ToSet(e) = {}
      BY <2>2 DEF ListOne, ListIds, ToSet
    <2>4. 1..0 = {}
      OBVIOUS
    <2>5. Earlier(0) = {}
      BY <2>4
    <2> HIDE DEF Earlier
    <2> QED
      BY <2>2, <2>3, <2>5
  <1>11. ASSUME NEW i \in 0..(n - 1), G(i) PROVE G(i + 1)
    <2>1. /\ i + 1 \in 1..n /\ (i + 1) - 1 = i /\ 1..(i + 1) = (1..i) \cup {i + 1}
          /\ \A k \in 1..i : k \in 1..n /\ k < i + 1
      BY <1>4
    <2>2. PICK x : x = f[i]
      OBVIOUS
    <2>3. PICK q : q = w.active[i + 1]
      OBVIOUS
    <2>4. q \in Queue /\ f[i + 1] = x \o B[q]
      BY <1>4, <1>9, <2>1, <2>2, <2>3
    <2>5. \A k \in 1..i : w.active[k] \in Queue /\ w.active[k] # q
      BY <1>4, <1>5, <2>1, <2>3
    <2>6. Earlier(i) \cap ListIds(B[q]) = {}
      BY <1>6, <2>4, <2>5 DEF ReadyOne
    <2>7. Earlier(i + 1) = Earlier(i) \cup ListIds(B[q])
      BY <2>1, <2>3
    <2> HIDE DEF Earlier
    <2>8. /\ x \in Seq(Tasks) /\ B[q] \in Seq(Tasks) /\ ListOne(x) /\ ListOne(B[q])
          /\ ListIds(x) \cap ListIds(B[q]) = {}
      BY <1>6, <1>11, <2>2, <2>4, <2>6 DEF ReadyOne
    <2>9. ListOne(x \o B[q]) /\ ListIds(x \o B[q]) = ListIds(x) \cup ListIds(B[q])
          /\ x \o B[q] \in Seq(Tasks)
      BY ONLY <2>8, ListJoin
    <2>10. ToSet(x \o B[q]) \subseteq ToSet(x) \cup ToSet(B[q])
      BY ONLY <2>8, TasksJoin
    <2>11. ToSet(B[q]) \subseteq ReadyTasks(B)
      BY <2>4 DEF ReadyTasks
    <2> QED
      BY <1>11, <2>2, <2>4, <2>7, <2>9, <2>10, <2>11
  <1> HIDE DEF G
  <1>12. 0 \in S /\ \A i \in 0..(n - 1) : i \in S => i + 1 \in S
    BY <1>4, <1>10, <1>11
  <1>13. 0..n \subseteq S
    <2> HIDE DEF S
    <2> QED
      BY <1>4, <1>12, UpInduction
  <1>14. G(n)
    BY <1>4, <1>13
  <1>15. Earlier(n) \subseteq ReadyIds(B)
    BY <1>4 DEF ReadyIds
  <1>16. ASSUME ~moving PROVE ReadyIds(B) \subseteq Earlier(n)
    <2> SUFFICES ASSUME NEW x \in ReadyIds(B) PROVE x \in Earlier(n)
      OBVIOUS
    <2>1. PICK q \in Queue : x \in ListIds(B[q])
      BY DEF ReadyIds
    <2>2. B[q] # <<>>
      BY <2>1 DEF ListIds
    <2>3. q \in Live(w) /\ B[q] = w.queue[q].bg
      BY <1>2, <2>2 DEF Bg
    <2>4. q \notin w.idle
      BY <1>16, <2>2, <2>3 DEF Sound, SoundBut, IdleRow
    <2>5. PICK j \in 1..n : q = w.active[j]
      BY <1>4, <2>3, <2>4 DEF Live, ToSet
    <2> QED
      BY <2>1, <2>5
  <1> HIDE DEF Earlier
  <1> QED
    BY <1>2, <1>9, <1>14, <1>15, <1>16 DEF G

\* A finite set has a list without repetition.
LEMMA ListOfSet ==
  ASSUME NEW T, IsFiniteSet(T)
  PROVE  /\ Cardinality(T) \in Nat
         /\ SetToSeq(T) \in [1..Cardinality(T) -> T] /\ IsInjective(SetToSeq(T))
  <1>1. Cardinality(T) \in Nat /\ ExistsBijection(1..Cardinality(T), T)
    BY FS_CardinalityType
  <1>2. \E f \in [1..Cardinality(T) -> T] : IsInjective(f)
    BY <1>1 DEF ExistsBijection, Bijection, Injection
  <1>3. PICK c : c = [1..Cardinality(T) -> T]
    OBVIOUS
  <1>4. SetToSeq(T) = CHOOSE f \in c : IsInjective(f)
    BY <1>3 DEF SetToSeq
  <1>5. SetToSeq(T) \in c /\ IsInjective(SetToSeq(T))
    BY <1>2, <1>3, <1>4
  <1> QED
    BY <1>1, <1>3, <1>5

LEMMA InterruptedOne ==
  ASSUME NEW V, V \subseteq Vms, ExternOne(V), NEW u, u = Interrupted(V)
  PROVE  u \in Seq(Tasks) /\ ListOne(u) /\ ListIds(u) = ExternIds(V)
  <1>1. PICK T : T = {Task("SUSPENDED", vm.id, vm.progr, 0) : vm \in V}
    OBVIOUS
  <1>2. T \subseteq Tasks
    BY <1>1 DEF Task, Tasks, Vms
  <1>3. \A t \in T : t.id \in ExternIds(V) /\ t.id \in TaskId
    BY <1>1 DEF Task, ExternIds, Vms
  <1>4. \A t, r \in T : t.id = r.id => t = r
    BY <1>1 DEF Task, ExternOne
  <1>5. IsFiniteSet(T)
    <2>1. PICK g : g = [t \in T |-> t.id]
      OBVIOUS
    <2>2. g \in [T -> TaskId] /\ \A t, r \in T : g[t] = g[r] => t = r
      BY <1>3, <1>4, <2>1
    <2>3. g \in Injection(T, TaskId)
      BY <2>2 DEF Injection, IsInjective
    <2> QED
      BY <2>3, TaskAssumption, FS_Injection
  <1>6. PICK n : n = Cardinality(T)
    OBVIOUS
  <1>7. n \in Nat /\ u \in [1..n -> T] /\ IsInjective(u)
    BY <1>1, <1>5, <1>6, ListOfSet DEF Interrupted
  <1>8. DOMAIN u = 1..n /\ \A i \in 1..n : u[i] \in T
    BY <1>7
  <1>9. u \in Seq(Tasks)
    BY <1>2, <1>7, <1>8, IsASeq
  <1>10. \A t \in T : \E i \in 1..n : u[i] = t
    <2>1. u \in Injection(1..n, T)
      BY <1>7 DEF Injection
    <2>2. Cardinality(1..n) = n
      BY <1>7, FS_Interval
    <2>3. u \in Surjection(1..n, T)
      BY <1>5, <1>6, <2>1, <2>2, FS_Injection
    <2> QED
      BY <2>3 DEF Surjection
  <1>11. ASSUME NEW vm \in V PROVE \E t \in T : t.id = vm.id
    <2>1. Task("SUSPENDED", vm.id, vm.progr, 0) \in T
      BY <1>1
    <2>2. Task("SUSPENDED", vm.id, vm.progr, 0).id = vm.id
      BY DEF Task
    <2> QED
      BY <2>1, <2>2
  <1>12. ListIds(u) = ExternIds(V)
    <2>1. ListIds(u) \subseteq ExternIds(V)
      BY <1>3, <1>8 DEF ListIds
    <2>2. ASSUME NEW vm \in V PROVE vm.id \in ListIds(u)
      <3>1. PICK t \in T : t.id = vm.id
        BY <1>11
      <3> QED
        BY <1>8, <1>10, <3>1 DEF ListIds
    <2> QED
      BY <2>1, <2>2 DEF ExternIds
  <1>13. ListOne(u)
    BY <1>4, <1>7, <1>8 DEF ListOne, IsInjective
  <1> QED
    BY <1>9, <1>12, <1>13

\* What write_task_queue writes names no task twice, and names every task that
\* is not ready on an idle queue and does not read from an active one.
LEMMA WrittenOne ==
  ASSUME Inv, NEW s, s = write_task_queue
  PROVE  /\ s \in Seq(Tasks) /\ ListOne(s)
         /\ ~Moving /\ ReaderIds(Rd(World)) = {} =>
              ListIds(s) = ListIds(waiting) \cup ReadyIds(Bg(World)) \cup ExternIds(external)
         /\ ReaderIds(Rd(World)) = {} /\ external = {} =>
              ToSet(s) \subseteq ToSet(waiting) \cup ReadyTasks(Bg(World))
  <1>1. PICK w : w = World
    OBVIOUS
  <1>2. PICK W : W = waiting
    OBVIOUS
  <1>3. PICK A : A = ActiveBg(World)
    OBVIOUS
  <1>4. PICK V : V = {queue[q].reading : q \in idle} \ {NoVm}
    OBVIOUS
  <1>5. /\ w \in Worlds /\ Sound(w, Moving) /\ w.queue = queue /\ w.idle = idle
        /\ w.queue \in [Queue -> TQueues] /\ external \subseteq Vms /\ idle \subseteq Queue
        /\ W \in Seq(Tasks) /\ OneEach(W, Bg(w), Rd(w), external, cur.id) /\ idle \subseteq Live(w)
    BY <1>1, <1>2, Before, WorldFields DEF Live
  <1>6. /\ ListOne(W) /\ ReadyOne(Bg(w)) /\ ReaderOne(Rd(w)) /\ ExternOne(external)
        /\ Apart(ListIds(W), ReadyIds(Bg(w)), ReaderIds(Rd(w)), ExternIds(external),
                 {cur.id} \ {0})
    BY <1>5 DEF OneEach
  <1>7. /\ A \in Seq(Tasks) /\ ListOne(A) /\ ListIds(A) \subseteq ReadyIds(Bg(w))
        /\ ~Moving => ListIds(A) = ReadyIds(Bg(w))
        /\ ToSet(A) \subseteq ReadyTasks(Bg(w))
    BY <1>1, <1>3, <1>5, <1>6, ActiveBgOne
  <1>8. V \subseteq Vms /\ ExternOne(V) /\ ExternIds(V) \subseteq ReaderIds(Rd(w))
    <2>1. \A q \in idle : queue[q].reading \in Vms \cup {NoVm} /\ Rd(w)[q] = queue[q].reading.id
      BY <1>5, RowFields DEF Rd
    <2>2. V \subseteq Vms
      BY <1>4, <2>1
    <2>3. \A v \in V : v.id # 0 /\ \E q \in idle : v = queue[q].reading /\ v.id = Rd(w)[q]
      <3>1. \A v \in V : v.id # 0
        BY <2>2, TaskAssumption DEF Vms
      <3> QED
        BY <1>4, <2>1, <3>1
    <2>4. ExternIds(V) \subseteq ReaderIds(Rd(w))
      BY <1>5, <2>3 DEF ExternIds, ReaderIds
    <2>5. ASSUME NEW v \in V, NEW x \in V, v.id = x.id PROVE v = x
      <3>1. PICK p \in idle : v = queue[p].reading /\ v.id = Rd(w)[p]
        BY <2>3
      <3>2. PICK q \in idle : x = queue[q].reading /\ x.id = Rd(w)[q]
        BY <2>3
      <3>3. p = q
        BY <1>5, <1>6, <2>3, <2>5, <3>1, <3>2 DEF ReaderOne
      <3> QED
        BY <3>1, <3>2, <3>3
    <2> QED
      BY <2>2, <2>4, <2>5 DEF ExternOne
  <1>9. PICK FW, FA, SW, SA, IE, IV : /\ FW = OfKind(W, "FORKED") /\ FA = OfKind(A, "FORKED")
                                      /\ SW = OfKind(W, "SUSPENDED") /\ SA = OfKind(A, "SUSPENDED")
                                      /\ IE = Interrupted(external) /\ IV = Interrupted(V)
    OBVIOUS
  <1>10. s = ((((FW \o FA) \o (SW \o SA)) \o IE) \o IV)
    BY <1>2, <1>3, <1>4, <1>9 DEF write_task_queue
  <1>f. PICK F : F = "FORKED"
    OBVIOUS
  <1>s. PICK S : S = "SUSPENDED"
    OBVIOUS
  <1>k. F \in {"FORKED", "SUSPENDED"} /\ S \in {"FORKED", "SUSPENDED"} /\ F # S
        /\ FW = OfKind(W, F) /\ FA = OfKind(A, F) /\ SW = OfKind(W, S) /\ SA = OfKind(A, S)
    BY <1>9, <1>f, <1>s
  <1>11. OneKind(W, F, FW) /\ OneKind(A, F, FA) /\ OneKind(W, S, SW) /\ OneKind(A, S, SA)
    BY ONLY <1>5, <1>6, <1>7, <1>k, OfKindOne
  <1>12. /\ IE \in Seq(Tasks) /\ ListOne(IE) /\ ListIds(IE) = ExternIds(external)
         /\ IV \in Seq(Tasks) /\ ListOne(IV) /\ ListIds(IV) = ExternIds(V)
    BY <1>5, <1>6, <1>8, <1>9, InterruptedOne
  <1>13. ASSUME NEW a \in Seq(Tasks), ListOne(a)
         PROVE  /\ KindIds(a, F, Len(a)) \cap KindIds(a, S, Len(a)) = {}
                /\ KindIds(a, F, Len(a)) \subseteq ListIds(a)
                /\ KindIds(a, S, Len(a)) \subseteq ListIds(a)
                /\ ListIds(a) \subseteq KindIds(a, F, Len(a)) \cup KindIds(a, S, Len(a))
    <2>1. DOMAIN a = 1..Len(a)
      BY LenProperties
    <2>2. ASSUME NEW i \in 1..Len(a) PROVE a[i].kind = F \/ a[i].kind = S
      <3>1. a[i] \in Tasks
        BY ElementOfSeq
      <3> QED
        BY <1>f, <1>s, <3>1 DEF Tasks
    <2>3. ListIds(a) \subseteq KindIds(a, F, Len(a)) \cup KindIds(a, S, Len(a))
      BY <2>1, <2>2 DEF KindIds, ListIds
    <2>4. KindIds(a, F, Len(a)) \cap KindIds(a, S, Len(a)) = {}
      BY <1>13, <1>k, <2>1 DEF KindIds, ListOne
    <2> QED
      BY <2>1, <2>3, <2>4 DEF KindIds, ListIds
  <1>14. /\ ListIds(FW) \subseteq ListIds(W) /\ ListIds(SW) \subseteq ListIds(W)
         /\ ListIds(FA) \subseteq ListIds(A) /\ ListIds(SA) \subseteq ListIds(A)
         /\ ListIds(FW) \cap ListIds(SW) = {} /\ ListIds(FA) \cap ListIds(SA) = {}
         /\ ListIds(W) \subseteq ListIds(FW) \cup ListIds(SW)
         /\ ListIds(A) \subseteq ListIds(FA) \cup ListIds(SA)
    BY <1>5, <1>6, <1>7, <1>11, <1>13 DEF OneKind
  <1>15. /\ FW \in Seq(Tasks) /\ FA \in Seq(Tasks) /\ SW \in Seq(Tasks) /\ SA \in Seq(Tasks)
         /\ ListOne(FW) /\ ListOne(FA) /\ ListOne(SW) /\ ListOne(SA)
    BY <1>11 DEF OneKind
  <1>16. ListIds(W) \cap ListIds(A) = {}
    BY <1>6, <1>7 DEF Apart
  <1>17. PICK a : a = FW \o FA
    OBVIOUS
  <1>18. ListOne(a) /\ ListIds(a) = ListIds(FW) \cup ListIds(FA) /\ a \in Seq(Tasks)
    <2>1. ListIds(FW) \cap ListIds(FA) = {}
      BY <1>14, <1>16
    <2> QED
      BY ONLY <1>15, <1>17, <2>1, ListJoin
  <1>19. PICK b : b = SW \o SA
    OBVIOUS
  <1>20. ListOne(b) /\ ListIds(b) = ListIds(SW) \cup ListIds(SA) /\ b \in Seq(Tasks)
    <2>1. ListIds(SW) \cap ListIds(SA) = {}
      BY <1>14, <1>16
    <2> QED
      BY ONLY <1>15, <1>19, <2>1, ListJoin
  <1>21. PICK c : c = a \o b
    OBVIOUS
  <1>22. ListOne(c) /\ ListIds(c) = ListIds(a) \cup ListIds(b) /\ c \in Seq(Tasks)
    <2>1. ListIds(a) \cap ListIds(b) = {}
      BY <1>14, <1>16, <1>18, <1>20
    <2> QED
      BY ONLY <1>18, <1>20, <1>21, <2>1, ListJoin
  <1>23. ListIds(c) \subseteq ListIds(W) \cup ReadyIds(Bg(w))
    BY <1>7, <1>14, <1>18, <1>20, <1>22
  <1>24. PICK d : d = c \o IE
    OBVIOUS
  <1>25. ListOne(d) /\ ListIds(d) = ListIds(c) \cup ListIds(IE) /\ d \in Seq(Tasks)
    <2>1. ListIds(c) \cap ListIds(IE) = {}
      BY <1>6, <1>12, <1>23 DEF Apart
    <2> QED
      BY ONLY <1>12, <1>22, <1>24, <2>1, ListJoin
  <1>26. ListIds(d) \cap ListIds(IV) = {}
    BY <1>6, <1>8, <1>12, <1>23, <1>25 DEF Apart
  <1>27. s = d \o IV
    BY <1>10, <1>17, <1>19, <1>21, <1>24
  <1>28. s \in Seq(Tasks) /\ ListOne(s) /\ ListIds(s) = ListIds(d) \cup ListIds(IV)
    BY ONLY <1>12, <1>25, <1>26, <1>27, ListJoin
  <1>29. ListIds(c) = ListIds(W) \cup ListIds(A)
    BY <1>14, <1>18, <1>20, <1>22
  <1>30. ReaderIds(Rd(w)) = {} => ListIds(IV) = {}
    BY <1>8, <1>12
  <1>31. ASSUME NEW z \in Seq(Tasks), ListIds(z) = {} PROVE ToSet(z) = {}
    BY <1>31 DEF ListIds, ToSet
  <1>32. ASSUME ReaderIds(Rd(w)) = {}, external = {}
         PROVE  ToSet(s) \subseteq ToSet(W) \cup ReadyTasks(Bg(w))
    <2>1. ExternIds(external) = {}
      BY <1>32 DEF ExternIds
    <2>2. ToSet(IE) = {} /\ ToSet(IV) = {}
      BY <1>12, <1>30, <1>31, <1>32, <2>1
    <2>3. ToSet(d) \subseteq ToSet(c) \cup ToSet(IE) /\ ToSet(s) \subseteq ToSet(d) \cup ToSet(IV)
      BY ONLY <1>12, <1>22, <1>24, <1>25, <1>27, TasksJoin
    <2>4. /\ ToSet(a) \subseteq ToSet(FW) \cup ToSet(FA)
          /\ ToSet(b) \subseteq ToSet(SW) \cup ToSet(SA)
          /\ ToSet(c) \subseteq ToSet(a) \cup ToSet(b)
      BY ONLY <1>15, <1>17, <1>18, <1>19, <1>20, <1>21, TasksJoin
    <2>5. /\ ToSet(FW) \subseteq ToSet(W) /\ ToSet(SW) \subseteq ToSet(W)
          /\ ToSet(FA) \subseteq ToSet(A) /\ ToSet(SA) \subseteq ToSet(A)
      BY <1>11 DEF OneKind
    <2> QED
      BY <1>7, <2>2, <2>3, <2>4, <2>5
  <1> QED
    BY <1>1, <1>2, <1>7, <1>12, <1>25, <1>28, <1>29, <1>30, <1>32

\* Reading a task gives its programmer a queue.
LEMMA WaitingHome ==
  ASSUME NEW w, NEW moving, Sound(w, moving), NEW t \in Tasks, CanFind(w, t.progr),
         NEW v, v = enqueue_waiting(w, t)
  PROVE  \E q : Homed(w, v, q, t.progr)
  <1>1. t.progr \in User \cup Conn /\ SoundBut(w, moving, {})
    BY DEF Tasks, Sound
  <1>2. PICK u : u = find_tqueue(w, t.progr)
    OBVIOUS
  <1>3. PICK q : q = QueueOf(u, t.progr)
    OBVIOUS
  <1>4. Found(w, u, moving, {}, t.progr, q)
    BY ONLY <1>1, <1>2, <1>3, CanFind(w, t.progr), FindQueue
  <1>5. /\ SoundBut(u, moving, {}) /\ Live(u) = Live(w) \cup {q} /\ q \in Queue
        /\ u.queue[q].player = t.progr /\ \A r \in Queue \ {q} : u.queue[r] = w.queue[r]
    BY <1>4 DEF Found
  <1>6. u \in Worlds /\ w \in Worlds
    BY <1>1, <1>5 DEF SoundBut
  <1>7. PICK s : v = [u EXCEPT !.queue[q].num_bg = u.queue[q].num_bg + 1, !.waiting = s]
    BY <1>2, <1>3 DEF enqueue_waiting
  <1>8. /\ v.queue = [u.queue EXCEPT ![q] = [u.queue[q] EXCEPT !.num_bg = u.queue[q].num_bg + 1]]
        /\ v.active = u.active /\ v.idle = u.idle
    BY <1>6, <1>7 DEF Worlds
  <1>9. Live(v) = Live(w) \cup {q}
    BY <1>5, <1>8 DEF Live
  <1>10. \A r \in Queue : v.queue[r].player = u.queue[r].player
    <2>1. u.queue \in [Queue -> TQueues] /\ u.queue[q] \in TQueues
      BY <1>5, <1>6, WorldFields
    <2> QED
      BY <1>5, <1>8, <2>1 DEF TQueues
  <1>11. QueuesOf(w, t.progr) # {} => q \in Live(w)
    <2>1. QueuesOf(w, t.progr) # {} => u = w
      BY <1>2 DEF find_tqueue
    <2>2. QueuesOf(w, t.progr) # {} => q \in QueuesOf(w, t.progr)
      BY <1>3, <2>1 DEF QueueOf
    <2> QED
      BY <2>2 DEF QueuesOf
  <1>12. \A r \in Live(w) : v.queue[r].player = w.queue[r].player
    <2>1. Live(w) \subseteq Queue
      BY <1>6, ActiveList
    <2>2. \A r \in Live(w) : r # q => v.queue[r].player = w.queue[r].player
      BY <1>5, <1>10, <2>1
    <2>3. q \in Live(w) => u.queue[q].player = w.queue[q].player
      BY <1>4 DEF Found
    <2> QED
      BY <1>5, <1>10, <2>2, <2>3
  <1> QED
    BY <1>5, <1>9, <1>10, <1>11, <1>12 DEF Homed

EmptyWorld ==
  [queue |-> [q \in Queue |-> NewTQueue(NOTHING)], active |-> <<>>, idle |-> {},
   waiting |-> <<>>]

LEMMA EmptySound ==
  ASSUME NEW moving, NEW w, w = EmptyWorld
  PROVE  /\ Sound(w, moving) /\ Live(w) = {} /\ w.waiting = <<>>
         /\ Bg(w) = [q \in Queue |-> <<>>] /\ Rd(w) = [q \in Queue |-> 0]
  <1>1. PICK e : e = <<>>
    OBVIOUS
  <1>2. /\ w = [queue |-> w.queue, active |-> e, idle |-> {}, waiting |-> e]
        /\ w.active = e /\ w.waiting = e /\ w.idle = {}
        /\ w.queue = [q \in Queue |-> NewTQueue(NOTHING)]
    BY <1>1 DEF EmptyWorld
  <1>3. e \in Seq(Queue) /\ e \in Seq(Tasks) /\ DOMAIN e = {}
    BY <1>1
  <1>4. NewTQueue(NOTHING) \in TQueues
    BY NewRow
  <1>5. w \in Worlds
    <2>1. w.queue \in [Queue -> TQueues]
      BY <1>2, <1>4
    <2> QED
      BY <1>2, <1>3, <2>1 DEF Worlds
  <1>6. Live(w) = {}
    BY <1>2, <1>3 DEF Live, ToSet
  <1>7. Sound(w, moving)
    BY <1>2, <1>3, <1>5, <1>6 DEF Sound, SoundBut, ListsSound, OneQueue, ToSet
  <1>8. Bg(w) = [q \in Queue |-> e] /\ Rd(w) = [q \in Queue |-> 0]
    BY <1>1, <1>6 DEF Bg, Rd
  <1> QED
    BY <1>1, <1>2, <1>6, <1>7, <1>8

LEMMA EmptyBooked ==
  ASSUME NEW w, Live(w) = {}, w.waiting = <<>>
  PROVE  Booked(w)
  <1>1. PICK T : T = Waits(w.waiting)
    OBVIOUS
  <1>2. T = [p \in Owners |-> 0]
    BY <1>1, WaitsNone
  <1>3. \A q \in Queue : Pl(w)[q] = NOTHING
    BY DEF Pl
  <1>4. T \in [Owners -> Nat] /\ \A p \in Owners : T[p] = 0
    BY <1>2
  <1>5. \A q \in Queue : Bg(w)[q] = <<>>
    BY DEF Bg
  <1>6. Balanced(w, T)
    BY <1>3, <1>4, <1>5 DEF Balanced
  <1> QED
    BY <1>1, <1>6 DEF Booked

ReadChain(s) ==
  LET after[i \in 0..Len(s)] ==
        IF i = 0 THEN EmptyWorld ELSE enqueue_waiting(after[i - 1], s[i])
  IN  after

LEMMA ReadIs ==
  ASSUME NEW s, Len(s) \in Nat
  PROVE  /\ read_task_queue(s) = ReadChain(s)[Len(s)]
         /\ ReadChain(s)[0] = EmptyWorld
         /\ \A i \in 1..Len(s) : ReadChain(s)[i] = enqueue_waiting(ReadChain(s)[i - 1], s[i])
  <1> DEFINE F(g) == [i \in 0..Len(s) |->
                        IF i = 0 THEN EmptyWorld ELSE enqueue_waiting(g[i - 1], s[i])]
  <1>e. PICK e : e = EmptyWorld
    OBVIOUS
  <1>n. PICK n : n = Len(s)
    OBVIOUS
  <1>k. PICK k : k = "waiting"
    OBVIOUS
  <1>2. PICK g : Chain(g, k, e, s, n)
    BY ONLY Len(s) \in Nat, <1>n, ChainExists
  <1>3. \A x, y : Taking(k, x, y) = enqueue_waiting(x, y)
    BY <1>k DEF Taking
  <1>4. g = F(g)
    BY <1>2, <1>3, <1>e, <1>n DEF Chain
  <1>5. PICK f : f = ReadChain(s)
    OBVIOUS
  <1>6. f = CHOOSE h : h = F(h)
    BY <1>5 DEF ReadChain
  <1>7. f = F(f)
    <2> HIDE DEF F
    <2> QED
      BY <1>4, <1>6
  <1>8. f[0] = EmptyWorld /\ \A i \in 1..Len(s) : f[i] = enqueue_waiting(f[i - 1], s[i])
    <2>1. 0 \in 0..Len(s) /\ \A i \in 1..Len(s) : i \in 0..Len(s) /\ i # 0
      OBVIOUS
    <2>2. \A i \in 0..Len(s) : f[i] =
            IF i = 0 THEN EmptyWorld ELSE enqueue_waiting(f[i - 1], s[i])
      BY <1>7, Zenon
    <2> QED
      BY <2>1, <2>2
  <1>9. read_task_queue(s) = f[Len(s)]
    BY <1>5 DEF read_task_queue, ReadChain, EmptyWorld
  <1> QED
    BY <1>5, <1>8, <1>9

\* What a list of tasks holds is no more than its length.
LEMMA FewerThings ==
  ASSUME NEW S, IsFiniteSet(S), NEW f
  PROVE  IsFiniteSet({f[i] : i \in S}) /\ Cardinality({f[i] : i \in S}) <= Cardinality(S)
  <1>1. PICK V : V = {f[i] : i \in S}
    OBVIOUS
  <1>2. PICK g : g = [i \in S |-> f[i]]
    OBVIOUS
  <1>3. g \in Surjection(S, V)
    BY <1>1, <1>2 DEF Surjection
  <1> QED
    BY <1>1, <1>3, FS_Surjection

\* The things that two sets hold between them are no more than both have.
LEMMA AtMostBoth ==
  ASSUME NEW A, IsFiniteSet(A), NEW B, IsFiniteSet(B), NEW X, X \subseteq A \cup B,
         NEW a \in Nat, Cardinality(A) <= a, NEW b \in Nat, Cardinality(B) <= b,
         NEW n \in Int, b + a <= n
  PROVE  IsFiniteSet(X) /\ Cardinality(X) <= n
  <1>1. PICK C : C = A \cup B
    OBVIOUS
  <1>2. IsFiniteSet(C) /\ Cardinality(C) = Cardinality(A) + Cardinality(B) - Cardinality(A \cap B)
    BY <1>1, FS_Union
  <1>3. IsFiniteSet(A \cap B) /\ IsFiniteSet(X) /\ Cardinality(X) <= Cardinality(C)
    <2>1. A \cap B \in SUBSET A /\ X \in SUBSET C
      BY <1>1
    <2> QED
      BY <1>2, <2>1, FS_Subset
  <1>4. /\ Cardinality(A) \in Nat /\ Cardinality(B) \in Nat /\ Cardinality(A \cap B) \in Nat
        /\ Cardinality(X) \in Nat /\ Cardinality(C) \in Nat
    BY <1>2, <1>3, FS_CardinalityType
  <1> QED
    BY <1>2, <1>3, <1>4

\* The tasks that wait or are ready, and that they are within the limit.
QueuedTasks == ToSet(waiting) \cup ReadyTasks(Bg(World))

LEMMA QuotaKept ==
  ASSUME Inv, Booked(World), Limited, NEW p \in Owners
  PROVE  /\ IsFiniteSet({t \in QueuedTasks : t.progr = p})
         /\ Cardinality({t \in QueuedTasks : t.progr = p}) <= TaskLimit
  <1>1. PICK w : w = World
    OBVIOUS
  <1>2. /\ w \in Worlds /\ w.waiting = waiting
        /\ waiting \in Seq(Tasks) /\ OneQueue(w)
    BY <1>1, WorldIs, WorldFields DEF Inv, Sound, SoundBut
  <1>3. PICK T : T = Waits(waiting)
    OBVIOUS
  <1>4. PICK M : M = Mine(waiting, p)
    OBVIOUS
  <1>5. /\ p \in Owners /\ p # NOTHING /\ Balanced(w, T) /\ T[p] = Cardinality(M)
        /\ IsFiniteSet(M) /\ Cardinality(M) \in Nat /\ Limited /\ TaskLimit \in Int
    <2>1. p \in Owners /\ p # NOTHING /\ Limited /\ TaskLimit \in Int
      BY <1>2, OneOwner, TaskAssumption
    <2>2. Balanced(w, T) /\ T[p] = Cardinality(M)
      BY <1>1, <1>2, <1>3, <1>4, <2>1 DEF Booked, Waits
    <2> QED
      BY <1>2, <1>4, <2>1, <2>2, MineIs
  <1>6. PICK X : X = {t \in ToSet(waiting) \cup ReadyTasks(Bg(w)) : t.progr = p}
    OBVIOUS
  <1>7. PICK A : A = {waiting[i] : i \in M}
    OBVIOUS
  <1>8. IsFiniteSet(A) /\ Cardinality(A) <= Cardinality(M)
    BY <1>5, <1>7, FewerThings
  <1>9. ASSUME NEW x \in X, x \notin A
        PROVE  \E q \in Queue : Pl(w)[q] = p /\ x \in ToSet(Bg(w)[q])
    <2>1. x.progr = p
      BY <1>6
    <2>2. x \notin ToSet(waiting)
      BY <1>4, <1>7, <1>9, <2>1 DEF ToSet, Mine
    <2>3. PICK q \in Queue : x \in ToSet(Bg(w)[q])
      BY <1>6, <2>2 DEF ReadyTasks
    <2>4. PICK b : b = Bg(w)[q]
      OBVIOUS
    <2>5. PICK i \in DOMAIN b : x = b[i]
      BY <2>3, <2>4 DEF ToSet
    <2>6. Pl(w)[q] # NOTHING
      <3>1. Pl(w)[q] = NOTHING => b = <<>>
        BY <1>5, <2>4 DEF Balanced
      <3>2. DOMAIN <<>> = {}
        OBVIOUS
      <3> QED
        BY <2>5, <3>1, <3>2
    <2>7. Paid(Pl(w)[q], Nb(w)[q], b, T[Pl(w)[q]])
      BY <1>5, <2>4, <2>6 DEF Balanced
    <2>8. Pl(w)[q] = p
      BY <2>1, <2>5, <2>7 DEF Paid
    <2> QED
      BY <2>3, <2>8
  <1>10. IsFiniteSet(X) /\ Cardinality(X) <= TaskLimit
    <2>1. CASE \A q \in Queue : Pl(w)[q] # p
      <3>1. T[p] = 0
        BY <1>5, <2>1 DEF Balanced
      <3>2. X \subseteq A \cup {}
        BY <1>2, <1>9, <2>1
      <3>3. IsFiniteSet({}) /\ Cardinality({}) = 0
        BY FS_EmptySet
      <3>4. Cardinality(A) <= 0 /\ Cardinality({}) <= 0 /\ 0 + 0 <= TaskLimit
        BY <1>5, <1>8, <3>1, <3>3 DEF Limited
      <3> QED
        BY ONLY <1>5, <1>8, <3>2, <3>3, <3>4, AtMostBoth, 0 \in Nat
    <2>2. CASE \E q \in Queue : Pl(w)[q] = p
      <3>1. PICK q \in Queue : Pl(w)[q] = p
        BY <2>2
      <3>2. PICK b : b = Bg(w)[q]
        OBVIOUS
      <3>3. b \in Seq(Tasks) /\ Len(b) \in Nat /\ DOMAIN b = 1..Len(b)
        BY <1>2, <3>2, BgType, LenProperties
      <3>4. PICK B : B = {b[i] : i \in 1..Len(b)}
        OBVIOUS
      <3>5. IsFiniteSet(1..Len(b)) /\ Cardinality(1..Len(b)) = Len(b)
        BY <3>3, FS_Interval
      <3>6. IsFiniteSet(B) /\ Cardinality(B) <= Len(b)
        BY <3>4, <3>5, FewerThings
      <3>7. Paid(p, Nb(w)[q], b, Cardinality(M))
        BY <1>5, <3>1, <3>2 DEF Balanced
      <3>8. Len(b) + Cardinality(M) <= TaskLimit
        BY <1>5, <3>7 DEF Paid
      <3>9. \A r \in Queue : Pl(w)[r] = p => r = q
        BY <1>2, <1>5, <3>1, OneOwner
      <3>10. ToSet(b) = B
        BY <3>3, <3>4 DEF ToSet
      <3>11. X \subseteq A \cup B
        BY <1>2, <1>9, <3>2, <3>9, <3>10
      <3> QED
        BY ONLY <1>5, <1>8, <3>3, <3>6, <3>8, <3>11, AtMostBoth
    <2> QED
      BY <2>1, <2>2
  <1> QED
    BY <1>1, <1>6, <1>10 DEF QueuedTasks

\* A list that names no task twice has no more of p's than there are.
LEMMA MineFew ==
  ASSUME NEW s \in Seq(Tasks), ListOne(s), NEW L, IsFiniteSet(L), ToSet(s) \subseteq L, NEW p
  PROVE  Cardinality(Mine(s, p)) <= Cardinality({t \in L : t.progr = p})
  <1>1. PICK D : D = {t \in L : t.progr = p}
    OBVIOUS
  <1>2. PICK g : g = [i \in Mine(s, p) |-> s[i]]
    OBVIOUS
  <1>3. \A i \in Mine(s, p) : s[i] \in D
    BY <1>1 DEF Mine, ToSet
  <1>4. \A i, j \in Mine(s, p) : s[i] = s[j] => i = j
    BY DEF Mine, ListOne
  <1>5. g \in Injection(Mine(s, p), D)
    BY <1>2, <1>3, <1>4 DEF Injection, IsInjective
  <1>6. IsFiniteSet(D)
    BY <1>1, FS_Subset
  <1> QED
    BY <1>1, <1>5, <1>6, FS_Injection

\* The tasks that are read are within the limit.
Quota(L) ==
  /\ IsFiniteSet(L)
  /\ Limited => \A p \in Owners : Cardinality({t \in L : t.progr = p}) <= TaskLimit

\* What has been read: every task waits, none is ready and none reads.
ReadSoFar(v, moving, ids, L) ==
  /\ Sound(v, moving)
  /\ Bg(v) = [q \in Queue |-> <<>>] /\ Rd(v) = [q \in Queue |-> 0]
  /\ ListOne(v.waiting) /\ ListIds(v.waiting) = ids
  /\ ToSet(v.waiting) \subseteq L
  /\ Quota(L) => Booked(v)

LEMMA ReadNext ==
  ASSUME NEW x, NEW moving, NEW ids, NEW L, ReadSoFar(x, moving, ids, L),
         NEW t \in Tasks, t.id \notin ids, t \in L,
         NEW P, IsFiniteSet(P), t.progr \in P,
         Cardinality(Missing(x, P)) <= Cardinality(FreeSlots(x)),
         NEW y, y = enqueue_waiting(x, t)
  PROVE  /\ ReadSoFar(y, moving, ids \cup {t.id}, L)
         /\ Cardinality(Missing(y, P)) <= Cardinality(FreeSlots(y))
  <1>1. Sound(x, moving) /\ CanFind(x, t.progr)
    BY RoomFound DEF ReadSoFar
  <1>2. /\ Sound(y, moving) /\ Bg(y) = Bg(x) /\ Rd(y) = Rd(x)
        /\ Placed(x.waiting, t, y.waiting)
    BY <1>1, EnqueueWaiting
  <1>3. PICK q : Homed(x, y, q, t.progr)
    BY ONLY <1>1, t \in Tasks, y = enqueue_waiting(x, t), WaitingHome
  <1>4. Cardinality(Missing(y, P)) <= Cardinality(FreeSlots(y))
    BY <1>3, RoomLeft
  <1>5. x.waiting \in Seq(Tasks)
    BY <1>1, WorldFields DEF Sound, SoundBut
  <1>6. ListOne(y.waiting) /\ ListIds(y.waiting) = ids \cup {t.id}
    BY <1>2, <1>5, ListPut DEF ReadSoFar
  <1>u. ToSet(y.waiting) \subseteq L
    BY <1>2, <1>5, TasksPut DEF ReadSoFar
  <1>7. Quota(L) => Booked(y)
    <2>1. HAVE Quota(L)
    <2>2. PICK p : p = t.progr
      OBVIOUS
    <2>3. PICK T : T = Waits(x.waiting)
      OBVIOUS
    <2>4. Balanced(x, T)
      BY <2>1, <2>3 DEF ReadSoFar, Booked
    <2>5. p \in Owners /\ Waits(y.waiting) = [T EXCEPT ![p] = T[p] + 1]
      BY <1>2, <1>5, <2>2, <2>3, WaitsPlaced
    <2>6. /\ Opened(x, y)
          /\ \E r \in Queue : Pl(y)[r] = p /\ Nb(y) = [Nb(x) EXCEPT ![r] = Nb(x)[r] + 1]
      BY <1>1, <2>2, EnqueueWaiting
    <2>7. PICK r \in Queue : Pl(y)[r] = p /\ Nb(y) = [Nb(x) EXCEPT ![r] = Nb(x)[r] + 1]
      BY <2>6
    <2>8. x \in Worlds /\ y \in Worlds /\ OneQueue(y) /\ Bg(y) = Bg(x)
      BY <1>1, <1>2 DEF Sound, SoundBut
    <2>9. Limited => Nb(x)[r] < TaskLimit
      <3>1. HAVE Limited
      <3>2. y.waiting \in Seq(Tasks) /\ T \in [Owners -> Nat] /\ TaskLimit \in Int /\ p # NOTHING
        BY <2>4, <2>5, <2>8, WorldFields, TaskAssumption, OneOwner DEF Balanced
      <3>3. Cardinality(Mine(y.waiting, p)) <= Cardinality({e \in L : e.progr = p})
        BY <1>6, <1>u, <2>1, <3>2, MineFew DEF Quota
      <3>4. IsFiniteSet({e \in L : e.progr = p})
        BY <2>1, FS_Subset DEF Quota
      <3>5. /\ Cardinality(Mine(y.waiting, p)) \in Nat
            /\ Cardinality({e \in L : e.progr = p}) \in Nat
            /\ Cardinality({e \in L : e.progr = p}) <= TaskLimit
        BY <2>1, <2>5, <3>1, <3>2, <3>4, MineIs, FS_CardinalityType DEF Quota
      <3>6. T[p] + 1 = Cardinality(Mine(y.waiting, p)) /\ T[p] \in Nat
        BY <2>5, <3>2 DEF Waits
      <3>7. T[p] < TaskLimit /\ 0 < TaskLimit
        BY <3>2, <3>3, <3>5, <3>6
      <3>8. CASE Pl(x)[r] = p
        <4>1. Paid(p, Nb(x)[r], Bg(x)[r], T[p])
          BY <2>4, <2>7, <3>2, <3>8 DEF Balanced
        <4>2. Bg(x)[r] = <<>>
          BY <2>7 DEF ReadSoFar
        <4>3. Len(<<>>) = 0
          OBVIOUS
        <4>4. Nb(x)[r] = 0 + T[p]
          BY <4>1, <4>2, <4>3 DEF Paid
        <4> QED
          BY <3>6, <3>7, <4>4
      <3>9. CASE Pl(x)[r] # p
        <4>1. Nb(x)[r] = 0
          BY <2>6, <2>7, <3>9 DEF Opened
        <4> QED
          BY <3>7, <4>1
      <3> QED
        BY <3>8, <3>9
    <2>10. Balanced(y, [T EXCEPT ![p] = T[p] + 1])
      BY ONLY <2>4, <2>5, <2>6, <2>7, <2>8, <2>9, CountedBooks
    <2> QED
      BY <2>5, <2>10 DEF Booked
  <1> QED
    BY <1>2, <1>4, <1>6, <1>u, <1>7 DEF ReadSoFar

LEMMA ReadAll ==
  ASSUME NEW s \in Seq(Tasks), ListOne(s), NEW moving,
         Cardinality({t.progr : t \in ToSet(s)}) <= Cardinality(Queue),
         NEW v, v = read_task_queue(s)
  PROVE  ReadSoFar(v, moving, ListIds(s), ToSet(s))
  <1>1. PICK n : n = Len(s)
    OBVIOUS
  <1>2. n \in Nat /\ DOMAIN s = 1..n /\ \A i \in 1..n : s[i] \in Tasks
    BY <1>1, ElementOfSeq, LenProperties
  <1>3. PICK f : f = ReadChain(s)
    OBVIOUS
  <1>4. v = f[n] /\ f[0] = EmptyWorld /\ \A i \in 1..n : f[i] = enqueue_waiting(f[i - 1], s[i])
    <2>1. Len(s) \in Nat
      BY <1>1, <1>2
    <2>2. /\ v = ReadChain(s)[Len(s)] /\ ReadChain(s)[0] = EmptyWorld
          /\ \A i \in 1..Len(s) : ReadChain(s)[i] = enqueue_waiting(ReadChain(s)[i - 1], s[i])
      BY ONLY <2>1, v = read_task_queue(s), ReadIs
    <2> QED
      BY <1>1, <1>3, <2>2
  <1>5. PICK P : P = {t.progr : t \in ToSet(s)}
    OBVIOUS
  <1>6. IsFiniteSet(P) /\ \A i \in 1..n : s[i].progr \in P
    <2>1. PICK g : g = [i \in 1..n |-> s[i].progr]
      OBVIOUS
    <2>2. ToSet(s) = {s[i] : i \in 1..n}
      BY <1>2 DEF ToSet
    <2>3. g \in Surjection(1..n, P)
      BY <1>5, <2>1, <2>2 DEF Surjection
    <2>4. IsFiniteSet(1..n)
      BY <1>2, FS_Interval
    <2> QED
      BY <1>5, <2>2, <2>3, <2>4, FS_Surjection
  <1> DEFINE Ids(i) == {s[k].id : k \in 1..i}
             G(i) == /\ ReadSoFar(f[i], moving, Ids(i), ToSet(s))
                     /\ Cardinality(Missing(f[i], P)) <= Cardinality(FreeSlots(f[i]))
             S == {i \in 0..n : G(i)}
  <1>7. G(0)
    <2>1. PICK w : w = f[0]
      OBVIOUS
    <2>2. /\ Sound(w, moving) /\ Live(w) = {} /\ w.waiting = <<>>
          /\ Bg(w) = [q \in Queue |-> <<>>] /\ Rd(w) = [q \in Queue |-> 0]
      BY <1>4, <2>1, EmptySound
    <2>3. PICK e : e = w.waiting
      OBVIOUS
    <2>4. DOMAIN e = {}
      BY <2>2, <2>3
    <2>5. ListOne(w.waiting) /\ ListIds(w.waiting) = {} /\ ToSet(w.waiting) = {}
      BY <2>3, <2>4 DEF ListOne, ListIds, ToSet
    <2>6. Ids(0) = {}
      <3>1. 1..0 = {}
        OBVIOUS
      <3> QED
        BY <3>1
    <2>7. Missing(w, P) = P /\ FreeSlots(w) = Queue
      BY <2>2 DEF Missing, FreeSlots, QueuesOf
    <2>8. Booked(w)
      BY <2>2, EmptyBooked
    <2> HIDE DEF Ids
    <2> QED
      BY <1>5, <2>1, <2>2, <2>5, <2>6, <2>7, <2>8 DEF ReadSoFar
  <1>8. ASSUME NEW i \in 0..(n - 1), G(i) PROVE G(i + 1)
    <2>1. /\ i + 1 \in 1..n /\ (i + 1) - 1 = i /\ 1..(i + 1) = (1..i) \cup {i + 1}
          /\ \A k \in 1..i : k \in 1..n /\ k # i + 1
      BY <1>2
    <2>2. PICK t : t = s[i + 1]
      OBVIOUS
    <2>3. PICK x : x = f[i]
      OBVIOUS
    <2>4. PICK y : y = f[i + 1]
      OBVIOUS
    <2>5. t \in Tasks /\ t.progr \in P /\ y = enqueue_waiting(x, t) /\ t \in ToSet(s)
      BY <1>2, <1>4, <1>6, <2>1, <2>2, <2>3, <2>4 DEF ToSet
    <2>6. t.id \notin Ids(i)
      BY <1>2, <2>1, <2>2 DEF ListOne
    <2>7. Ids(i + 1) = Ids(i) \cup {t.id}
      BY <2>1, <2>2
    <2>8. PICK J : J = Ids(i)
      OBVIOUS
    <2> HIDE DEF Ids
    <2>9. ReadSoFar(x, moving, J, ToSet(s)) /\ t.id \notin J
          /\ Cardinality(Missing(x, P)) <= Cardinality(FreeSlots(x))
      BY <1>8, <2>3, <2>6, <2>8
    <2>10. /\ ReadSoFar(y, moving, J \cup {t.id}, ToSet(s))
           /\ Cardinality(Missing(y, P)) <= Cardinality(FreeSlots(y))
      BY ONLY <1>6, <2>5, <2>9, ReadNext
    <2> QED
      BY <2>4, <2>7, <2>8, <2>10
  <1> HIDE DEF G
  <1>9. 0 \in S /\ \A i \in 0..(n - 1) : i \in S => i + 1 \in S
    BY <1>2, <1>7, <1>8
  <1>10. 0..n \subseteq S
    <2> HIDE DEF S
    <2> QED
      BY <1>2, <1>9, UpInduction
  <1>11. G(n)
    BY <1>2, <1>10
  <1>12. Ids(n) = ListIds(s)
    BY <1>2 DEF ListIds
  <1> HIDE DEF Ids
  <1> QED
    BY <1>4, <1>11, <1>12 DEF G

\* The invariant holds in a server that has just started from a checkpoint, and
\* its queues count what it has read, unless a task was in exec().
LEMMA RestartKeepsInv ==
  ASSUME Inv, CheckpointAndRestart
  PROVE  Inv' /\ external' = {} /\ (external = {} /\ Booked(World) => Booked(World'))
  <1>1. PICK s : s = write_task_queue
    OBVIOUS
  <1>2. PICK v : v = read_task_queue(s)
    OBVIOUS
  <1>3. PICK moving : moving = Moving
    OBVIOUS
  <1>4. /\ phase = "loop" /\ phase' = phase /\ cur' = cur /\ external' = {} /\ does' = does
        /\ now' = now /\ unused' = unused /\ SetWorld(v)
        /\ Cardinality({t.progr : t \in ToSet(s)}) <= Cardinality(Queue)
    BY <1>1, <1>2 DEF CheckpointAndRestart
  <1>5. s \in Seq(Tasks) /\ ListOne(s)
    BY <1>1, WrittenOne
  <1>6. ReadSoFar(v, moving, ListIds(s), ToSet(s))
    BY ONLY <1>2, <1>4, <1>5, ReadAll
  <1>7. /\ Sound(v, moving) /\ Bg(v) = [q \in Queue |-> <<>>] /\ Rd(v) = [q \in Queue |-> 0]
        /\ ListOne(v.waiting) /\ v \in Worlds
    BY <1>6 DEF ReadSoFar, Sound, SoundBut
  <1>8. World' = v /\ waiting' = v.waiting /\ Moving' = moving
    BY <1>3, <1>4, <1>7, SetWorldIs DEF Moving
  <1>9. cur = NoTask
    BY <1>4 DEF Inv, Thread
  <1>10. Thread(v, phase', cur')
    BY <1>4, <1>9, IdleThread
  <1>11. OneEach(v.waiting, Bg(v), Rd(v), external', cur'.id)
    <2>1. PICK e : e = <<>>
      OBVIOUS
    <2>2. DOMAIN e = {} /\ Bg(v) = [q \in Queue |-> e]
      BY <1>7, <2>1
    <2>3. ListIds(e) = {} /\ ListOne(e)
      BY <2>2 DEF ListIds, ListOne
    <2>4. ReadyIds(Bg(v)) = {} /\ ReadyOne(Bg(v))
      BY <2>2, <2>3 DEF ReadyIds, ReadyOne
    <2>5. ReaderIds(Rd(v)) = {} /\ ReaderOne(Rd(v))
      BY <1>7 DEF ReaderIds, ReaderOne
    <2>6. ExternIds(external') = {} /\ ExternOne(external')
      BY <1>4 DEF ExternIds, ExternOne
    <2>7. {cur'.id} \ {0} = {}
      BY <1>4, <1>9 DEF NoTask, Running
    <2> QED
      BY <1>7, <2>4, <2>5, <2>6, <2>7 DEF OneEach, Apart
  <1>12. TypeOK'
    <2>1. /\ does' \in Workloads /\ unused' \in SUBSET Conn /\ now' \in 1..MaxTime
          /\ external' \in SUBSET Vms
      BY <1>4 DEF Inv, TypeOK
    <2> QED
      BY <1>7, <1>8, <1>10, <2>1 DEF TypeOK, Thread, Threads
  <1>13. OneEach(waiting, Bg(World), Rd(World), external, cur.id)'
    <2>1. OneEach(v.waiting, Bg(v), Rd(v), external', cur'.id) /\ (Reads' <=> Reads)
      BY <1>4, <1>11 DEF Reads
    <2> QED
      BY <1>8, <2>1 DEF OneEach
  <1>14. ~OneLifetime
    BY DEF CheckpointAndRestart, OneLifetime, Inv, TypeOK
  <1>15. ASSUME external = {}, Booked(World) PROVE Booked(v)
    <2>1. IsFiniteSet(ToSet(s))
      <3>1. Len(s) \in Nat /\ DOMAIN s = 1..Len(s)
        BY <1>5, LenProperties
      <3>2. ToSet(s) = {s[i] : i \in 1..Len(s)} /\ IsFiniteSet(1..Len(s))
        BY <3>1, FS_Interval DEF ToSet
      <3> QED
        BY <3>2, FewerThings
    <2>2. ASSUME Limited, NEW p \in Owners
          PROVE  Cardinality({t \in ToSet(s) : t.progr = p}) <= TaskLimit
      <3>1. ReaderIds(Rd(World)) = {}
        <4>1. ~Reads
          BY <1>14, <2>2 DEF Limited, NobodyReads, Reads, Inv, TypeOK
        <4> QED
          BY <4>1 DEF Inv, OneEach
      <3>2. ToSet(s) \subseteq QueuedTasks
        BY <1>1, <1>15, <3>1, WrittenOne DEF QueuedTasks
      <3>3. PICK X : X = {t \in QueuedTasks : t.progr = p}
        OBVIOUS
      <3>4. IsFiniteSet(X) /\ Cardinality(X) <= TaskLimit
        BY <1>15, <2>2, <3>3, QuotaKept
      <3>5. PICK Y : Y = {t \in ToSet(s) : t.progr = p}
        OBVIOUS
      <3>6. IsFiniteSet(Y) /\ Cardinality(Y) <= Cardinality(X)
        <4>1. Y \in SUBSET X
          BY <3>2, <3>3, <3>5
        <4> QED
          BY <3>4, <4>1, FS_Subset
      <3>7. Cardinality(X) \in Nat /\ Cardinality(Y) \in Nat /\ TaskLimit \in Int
        BY <3>4, <3>6, FS_CardinalityType, TaskAssumption
      <3> QED
        BY <3>4, <3>5, <3>6, <3>7
    <2> QED
      BY <1>6, <2>1, <2>2 DEF ReadSoFar, Quota
  <1> QED
    BY <1>4, <1>7, <1>8, <1>10, <1>12, <1>13, <1>15 DEF Inv

-----------------------------------------------------------------------------
(* The invariant is inductive, and what it implies.                        *)

LEMMA InitHolds ==
  ASSUME Init PROVE Inv /\ Booked(World)
  <1>1. PICK w : w = World
    OBVIOUS
  <1>2. w = EmptyWorld
    BY <1>1 DEF World, Init, EmptyWorld
  <1>3. PICK moving : moving = Moving
    OBVIOUS
  <1>4. PICK e : e = <<>>
    OBVIOUS
  <1>5. /\ Sound(w, moving) /\ w.waiting = e /\ DOMAIN e = {}
        /\ Bg(w) = [q \in Queue |-> e] /\ Rd(w) = [q \in Queue |-> 0]
    BY <1>2, <1>4, EmptySound
  <1>6. Thread(w, phase, cur)
    BY IdleThread DEF Init
  <1>7. OneEach(w.waiting, Bg(w), Rd(w), external, cur.id)
    <2>1. ListIds(e) = {} /\ ListOne(e)
      BY <1>5 DEF ListIds, ListOne
    <2>2. ReadyIds(Bg(w)) = {} /\ ReadyOne(Bg(w))
      BY <1>5, <2>1 DEF ReadyIds, ReadyOne
    <2>3. ReaderIds(Rd(w)) = {} /\ ReaderOne(Rd(w))
      BY <1>5 DEF ReaderIds, ReaderOne
    <2>4. external = {}
      BY DEF Init
    <2>5. ExternIds(external) = {} /\ ExternOne(external)
      BY <2>4 DEF ExternIds, ExternOne
    <2> QED
      BY <1>5, <2>1, <2>2, <2>3, <2>5 DEF OneEach, Apart
  <1>8. TypeOK
    <2>1. /\ does \in Workloads /\ unused \in SUBSET Conn /\ now \in 1..MaxTime
          /\ external \in SUBSET Vms
      BY TaskAssumption DEF Init
    <2>2. w \in Worlds
      BY <1>5 DEF Sound, SoundBut
    <2> QED
      BY <1>1, <1>6, <2>1, <2>2 DEF TypeOK, Thread, Threads
  <1>9. Booked(w)
    <2>1. Live(w) = {} /\ w.waiting = <<>>
      BY <1>2, EmptySound
    <2> QED
      BY <2>1, EmptyBooked
  <1> QED
    BY <1>1, <1>3, <1>5, <1>6, <1>7, <1>8, <1>9, WorldIs DEF Inv

LEMMA StepSafe ==
  ASSUME Inv, [Next]_vars, ~CheckpointAndRestart PROVE Safe
  <1>1. CASE UNCHANGED vars
    <2>1. UNCHANGED <<queue, active, idle, waiting, external>> /\ phase' = phase /\ cur' = cur
      BY <1>1 DEF vars
    <2>2. Clockwork
      BY <1>1, Before DEF vars, Clockwork
    <2> QED
      BY <2>1, <2>2, SameWorld DEF Inv
  <1>2. CASE LoopStep
    <2>1. ASSUME NEW q \in Queue, NEW progr \in does.users, CloseConnection(q, progr) PROVE Safe
      BY <2>1, CloseConnectionSafe
    <2> QED
      BY <1>2, <2>1, NewConnectionSafe, ReceiveLineSafe, FlushCommandSafe,
         ServerTaskSafe, ExecCompletesSafe, TickSafe
         DEF LoopStep
  <1>3. CASE DispatchStep
    BY <1>3, RunReadyTasksSafe, ReaderAtEofSafe, ReaderGetsLineSafe, ParserNeedsMoreSafe,
       LineStartsTaskSafe, LineWithoutTaskSafe, RunBackgroundSafe, DeactivateHeadSafe,
       NothingReadySafe
       DEF DispatchStep
  <1>4. CASE TaskStep
    <2>1. ASSUME NEW player \in does.users \cup does.conns, NEW kind \in InputKinds,
                 NEW at_front \in BOOLEAN, ForceInput(player, kind, at_front)
          PROVE  Safe
      BY <2>1, ForceInputSafe
    <2>2. ASSUME NEW q \in Queue, NEW value \in BOOLEAN,
                 SetHoldInput(q, value) \/ SetDisableOob(q, value) \/ Read(q, value)
          PROVE  Safe
      BY <2>2, SetHoldInputSafe, SetDisableOobSafe, ReadSafe
    <2>3. ASSUME NEW player \in does.users, NEW progr \in does.users,
                 FinishLogin(player, progr)
          PROVE  Safe
      BY <2>3, FinishLoginSafe
    <2>4. ASSUME NEW q \in Queue, NEW new \in does.users, SwitchPlayer(q, new) PROVE Safe
      BY <2>4, SwitchPlayerSafe
    <2>5. ASSUME NEW q \in Queue, NEW i \in 1..Len(queue[q].bg), KillReady(q, i) PROVE Safe
      BY <2>5, KillReadySafe
    <2>6. ASSUME NEW delay \in does.delays, Fork(delay) \/ Suspend(delay) PROVE Safe
      <3>1. delay \in Int
        BY <2>6, TaskAssumption, Before
      <3> QED
        BY <2>6, <3>1, ForkSafe, SuspendSafe
    <2> QED
      BY <1>4, <2>1, <2>2, <2>3, <2>4, <2>5, <2>6, KillWaitingSafe, KillReadingSafe,
         KillExternalSafe, ResumeSafe, FlushInputSafe, ReadInputNowSafe, FinishSafe,
         ExecSafe
         DEF TaskStep
  <1> QED
    BY <1>1, <1>2, <1>3, <1>4 DEF Next

LEMMA OneEachPlace ==
  ASSUME Inv PROVE OnePlace
  <1>1. PICK w : w = World
    OBVIOUS
  <1>2. /\ w \in Worlds /\ Live(w) \subseteq Queue /\ w.queue = queue /\ w.waiting = waiting
        /\ w.queue \in [Queue -> TQueues] /\ external \subseteq Vms
        /\ OneEach(w.waiting, Bg(w), Rd(w), external, cur.id)
    BY <1>1, Before
  <1>3. \A q \in Live(w) : Bg(w)[q] = queue[q].bg /\ Rd(w)[q] = queue[q].reading.id
    BY <1>2 DEF Bg, Rd
  <1>4. /\ ListOne(waiting) /\ ReadyOne(Bg(w)) /\ ReaderOne(Rd(w)) /\ ExternOne(external)
        /\ Apart(ListIds(waiting), ReadyIds(Bg(w)), ReaderIds(Rd(w)), ExternIds(external),
                 {cur.id} \ {0})
    BY <1>2 DEF OneEach
  <1>5. ASSUME NEW p \in Live(w), NEW q \in Live(w), NEW i \in DOMAIN queue[p].bg,
               NEW j \in DOMAIN queue[q].bg, queue[p].bg[i].id = queue[q].bg[j].id
        PROVE  p = q /\ i = j
    <2>1. queue[p].bg[i].id \in ListIds(Bg(w)[p]) /\ queue[q].bg[j].id \in ListIds(Bg(w)[q])
      BY <1>3 DEF ListIds
    <2>2. p = q
      BY <1>2, <1>4, <1>5, <2>1 DEF ReadyOne
    <2>3. ListOne(Bg(w)[p])
      BY <1>2, <1>4 DEF ReadyOne
    <2> QED
      BY <1>3, <1>5, <2>2, <2>3 DEF ListOne
  <1>6. ASSUME NEW p \in Live(w), NEW q \in Live(w), queue[p].reading.id = queue[q].reading.id
        PROVE  p = q \/ queue[p].reading = NoVm
    <2>1. p = q \/ queue[p].reading.id = 0
      BY <1>2, <1>3, <1>4, <1>6 DEF ReaderOne
    <2>2. queue[p].reading \in Vms \cup {NoVm}
      BY <1>2, RowFields
    <2> QED
      BY <2>1, <2>2, TaskAssumption DEF Vms
  <1>7. WaitingIds = ListIds(waiting) /\ ExternalIds = ExternIds(external)
    BY DEF WaitingIds, ListIds, ToSet, ExternalIds, ExternIds
  <1>8. BgIds(w) \subseteq ReadyIds(Bg(w))
    <2> SUFFICES ASSUME NEW q \in Live(w), NEW t \in ToSet(queue[q].bg)
                 PROVE  t.id \in ReadyIds(Bg(w))
      BY <1>2 DEF BgIds
    <2>1. t.id \in ListIds(Bg(w)[q])
      BY <1>3 DEF ToSet, ListIds
    <2> QED
      BY <1>2, <2>1 DEF ReadyIds
  <1>9. ReadingIds \subseteq ReaderIds(Rd(w))
    <2> SUFFICES ASSUME NEW q \in Live(w), queue[q].reading.id # 0
                 PROVE  queue[q].reading.id \in ReaderIds(Rd(w))
      BY <1>1 DEF ReadingIds
    <2> QED
      BY <1>2, <1>3 DEF ReaderIds
  <1>10. 0 \notin ListIds(waiting) /\ 0 \notin ReadyIds(Bg(w)) /\ 0 \notin ReaderIds(Rd(w))
         /\ 0 \notin ExternIds(external)
    <2>1. \A t \in Tasks : t.id # 0
      BY TaskAssumption DEF Tasks
    <2>2. \A s \in Seq(Tasks) : 0 \notin ListIds(s)
      <3> SUFFICES ASSUME NEW s \in Seq(Tasks), NEW i \in DOMAIN s PROVE s[i].id # 0
        BY DEF ListIds
      <3>1. s[i] \in Tasks
        BY ElementOfSeq, LenProperties
      <3> QED
        BY <2>1, <3>1
    <2>3. waiting \in Seq(Tasks) /\ Bg(w) \in [Queue -> Seq(Tasks)]
      BY <1>2, WorldFields, BgType
    <2>4. \A q \in Queue : 0 \notin ListIds(Bg(w)[q])
      BY <2>2, <2>3
    <2>5. 0 \notin ExternIds(external)
      BY <1>2, TaskAssumption DEF ExternIds, Vms
    <2> QED
      BY <2>2, <2>3, <2>4, <2>5 DEF ReadyIds, ReaderIds
  <1>11. Apart(WaitingIds, BgIds(w), ReadingIds, ExternalIds, {cur.id})
    BY <1>4, <1>7, <1>8, <1>9, <1>10 DEF Apart
  <1>12. \A a, b, c, d, e : Apart(a, b, c, d, e) =>
           \A i, j \in 1..5 : i # j => <<a, b, c, d, e>>[i] \cap <<a, b, c, d, e>>[j] = {}
    <2> TAKE a, b, c, d, e
    <2> HAVE Apart(a, b, c, d, e)
    <2> TAKE i, j \in 1..5
    <2> HAVE i # j
    <2>1. (i = 1 \/ i = 2 \/ i = 3 \/ i = 4 \/ i = 5) /\ (j = 1 \/ j = 2 \/ j = 3 \/ j = 4 \/ j = 5)
      OBVIOUS
    <2>2. PICK s : s = <<a, b, c, d, e>>
      OBVIOUS
    <2>3. s[1] = a /\ s[2] = b /\ s[3] = c /\ s[4] = d /\ s[5] = e
      BY <2>2
    <2>4. s[i] \cap s[j] = {}
      BY <2>1, <2>3 DEF Apart
    <2> QED
      BY <2>2, <2>4
  <1>13. \A i, j \in 1..5 : i # j =>
           <<WaitingIds, BgIds(World), ReadingIds, ExternalIds, {cur.id}>>[i]
             \cap <<WaitingIds, BgIds(World), ReadingIds, ExternalIds, {cur.id}>>[j] = {}
    BY ONLY <1>1, <1>11, <1>12
  <1> QED
    BY <1>1, <1>4, <1>5, <1>6, <1>13 DEF OnePlace, ListOne, ExternOne

LEMMA InvHolds == Spec => []Inv
  <1>1. Init => Inv
    BY InitHolds
  <1>2. Inv /\ [Next]_vars => Inv'
    BY StepSafe, RestartKeepsInv DEF Safe
  <1> QED
    BY <1>1, <1>2, PTL DEF Spec

\* Whatever built-ins the tasks call and whatever the clients send, in any order,
\* and however often the server is restarted from a checkpoint:
\* active_tqueues and idle_tqueues share no queue and repeat none, usage is NO_USAGE
\* exactly on idle_tqueues, active_tqueues stays sorted by usage and waiting_tasks by
\* start time, the queue that run_ready_tasks took a task from is still the first when
\* the task ends, and no task id is in two places.
THEOREM ListsStaySound == Spec => []QueuesSound
  <1>1. Inv => QueuesSound
    <2> SUFFICES ASSUME Inv PROVE QueuesSound
      OBVIOUS
    <2>1. TypeOK /\ ListsSound(World)
      BY DEF Inv, Sound, SoundBut
    <2>2. phase = "task" /\ cur.q # 0 => active # <<>> /\ Head(active) = cur.q
      BY WorldIs, ActiveList DEF Inv, TypeOK, Thread
    <2> QED
      BY <2>1, <2>2, OneEachPlace DEF QueuesSound
  <1> QED
    BY <1>1, InvHolds, PTL

\* find_tqueue has one answer: no two queues have the same player, also while
\* logins and switch_player move players between queues.
THEOREM OneQueueEach == Spec => []UniquePlayer
  <1>1. Inv => UniquePlayer
    BY WorldIs DEF Inv, Sound, SoundBut, OneQueue, UniquePlayer
  <1> QED
    BY <1>1, InvHolds, PTL

\* As long as no task calls switch_player, an idle queue holds no ready task and no
\* line that run_ready_tasks would dispatch.
THEOREM WorkIsActive == Spec => []NoStrandedWork
  <1>1. Inv => NoStrandedWork
    <2> SUFFICES ASSUME Inv, "switch_player" \notin does.calls, NEW q \in idle
                 PROVE  /\ queue[q].bg = <<>>
                        /\ \/ queue[q].input = <<>>
                           \/ /\ queue[q].hold /\ queue[q].reading = NoVm
                              /\ \/ queue[q].no_oob
                                 \/ \A line \in ToSet(queue[q].input) : line.kind # "OOB"
      BY DEF NoStrandedWork
    <2>1. IdleRow(queue[q], Moving) /\ ~Moving
      BY WorldIs DEF Inv, Sound, SoundBut, Moving
    <2> QED
      BY <2>1 DEF IdleRow, Quiet
  <1> QED
    BY <1>1, InvHolds, PTL

\* Nobody waits in vain: besides the above, a reader whose connection is gone and
\* whose input is used up is on an active queue, and a client whose input is suspended
\* has a line queued.
THEOREM NobodyWaitsInVain == Spec => []NobodyForgotten
  <1>1. Inv /\ NoStrandedWork => NobodyForgotten
    <2> SUFFICES ASSUME Inv, NoStrandedWork PROVE NobodyForgotten
      OBVIOUS
    <2>1. \A q \in idle : IdleRow(queue[q], Moving)
      BY WorldIs DEF Inv, Sound, SoundBut
    <2>2. \A q \in Live(World) : LiveRow(queue[q])
      BY WorldIs DEF Inv, Sound, SoundBut
    <2> QED
      BY <2>1, <2>2 DEF NobodyForgotten, IdleRow, LiveRow
  <1> QED
    BY <1>1, InvHolds, WorkIsActive, PTL

\* No step frees a queue on which a task is blocked in read(), as long as the
\* server is not restarted: a restart frees every queue, and the task resumes as
\* one that was interrupted.
THEOREM ReadersSurvive ==
  ASSUME OneLifetime PROVE Spec => ReaderNeverFreed
  <1>1. Inv /\ [Next]_vars =>
          [\A q \in Live(World) : queue[q].reading # NoVm => q \in Live(World)']_vars
    <2> SUFFICES ASSUME Inv, [Next]_vars, NEW q \in Live(World), queue[q].reading # NoVm
                 PROVE  q \in Live(World)'
      OBVIOUS
    <2>1. ~CheckpointAndRestart
      BY DEF CheckpointAndRestart, OneLifetime, Inv, TypeOK
    <2>2. ReadersKept(World, World')
      BY <2>1, StepSafe DEF Safe
    <2> QED
      BY <2>2, WorldIs DEF ReadersKept
  <1> QED
    BY <1>1, InvHolds, PTL DEF Spec, ReaderNeverFreed


\* The ids that queues hold, as the invariant names them.
LEMMA HeldIds ==
  ASSUME Inv
  PROVE  /\ WaitingIds = ListIds(waiting) /\ ExternalIds = ExternIds(external)
         /\ BgIds(World) = ReadyIds(Bg(World)) /\ ReadingIds = ReaderIds(Rd(World))
  <1>1. PICK w : w = World
    OBVIOUS
  <1>2. Live(w) \subseteq Queue /\ w.queue = queue
    BY <1>1, Before
  <1>3. /\ \A q \in Live(w) : Bg(w)[q] = queue[q].bg /\ Rd(w)[q] = queue[q].reading.id
        /\ \A q \in Queue \ Live(w) : Bg(w)[q] = <<>> /\ Rd(w)[q] = 0
    BY <1>2 DEF Bg, Rd
  <1>4. WaitingIds = ListIds(waiting) /\ ExternalIds = ExternIds(external)
    BY DEF WaitingIds, ListIds, ToSet, ExternalIds, ExternIds
  <1>5. \A s : ListIds(s) = {t.id : t \in ToSet(s)}
    BY DEF ListIds, ToSet
  <1>6. BgIds(w) \subseteq ReadyIds(Bg(w))
    <2> SUFFICES ASSUME NEW q \in Live(w), NEW t \in ToSet(queue[q].bg)
                 PROVE  t.id \in ReadyIds(Bg(w))
      BY <1>2 DEF BgIds
    <2>1. t.id \in ListIds(Bg(w)[q])
      BY <1>3, <1>5
    <2> QED
      BY <1>2, <2>1 DEF ReadyIds
  <1>7. ReadyIds(Bg(w)) \subseteq BgIds(w)
    <2> SUFFICES ASSUME NEW q \in Queue, NEW n \in ListIds(Bg(w)[q]) PROVE n \in BgIds(w)
      BY DEF ReadyIds
    <2>1. q \in Live(w)
      <3>1. ListIds(<<>>) = {}
        BY DEF ListIds
      <3> QED
        BY <1>3, <3>1
    <2>2. PICK t \in ToSet(w.queue[q].bg) : n = t.id
      BY <1>2, <1>3, <1>5, <2>1
    <2> QED
      BY <2>1, <2>2 DEF BgIds
  <1>8. ReadingIds = ReaderIds(Rd(w))
    BY <1>1, <1>2, <1>3 DEF ReadingIds, ReaderIds
  <1> QED
    BY <1>1, <1>4, <1>6, <1>7, <1>8

\* The workloads in which tasks only fork, suspend, resume, kill and exec, and
\* nobody's connection is moved.
NobodyReadsOrMoves ==
  \A work \in Workloads : work.calls \cap {"read", "read_http", "switch_player"} = {}

\* As long as no task calls read(), read_http() or switch_player(), queued_tasks()
\* lists every queued task although it passes over the ready tasks of idle queues, and
\* a checkpoint taken between two turns of the main loop writes exactly the queued
\* tasks, also after the server was restarted from a checkpoint.
THEOREM NoTaskOverlooked ==
  ASSUME NobodyReadsOrMoves PROVE Spec => []TasksListed
  <1>1. Inv => TasksListed
    <2> SUFFICES ASSUME Inv PROVE TasksListed
      OBVIOUS
    <2>1. ~Moving /\ ~Reads
      BY DEF Inv, TypeOK, NobodyReadsOrMoves, Moving, Reads
    <2>2. ReaderIds(Rd(World)) = {}
      BY <2>1 DEF Inv, OneEach
    <2>3. QueuedIds = ListIds(waiting) \cup ReadyIds(Bg(World)) \cup ExternIds(external)
      BY <2>2, HeldIds DEF QueuedIds
    <2>4. PICK s : s = write_task_queue
      OBVIOUS
    <2>5. ListIds(s) = QueuedIds
      BY <2>1, <2>2, <2>3, <2>4, WrittenOne
    <2>6. {t.id : t \in ToSet(s)} = ListIds(s)
      BY DEF ToSet, ListIds
    <2>7. BgIds(World) \subseteq {t.id : t \in UNION {ToSet(queue[q].bg) : q \in ToSet(active)}}
      <3>1. World.queue = queue /\ World.active = active /\ World.idle = idle
        BY WorldIs
      <3>2. \A q \in idle : ToSet(queue[q].bg) = {}
        <4>1. \A q \in idle : queue[q].bg = <<>>
          BY <2>1, <3>1 DEF Inv, Sound, SoundBut, IdleRow
        <4>2. ToSet(<<>>) = {}
          BY DEF ToSet
        <4> QED
          BY <4>1, <4>2
      <3>3. Live(World) = ToSet(active) \cup idle
        BY <3>1 DEF Live
      <3> QED
        BY <3>1, <3>2, <3>3 DEF BgIds
    <2>8. QueuedIds \subseteq queued_tasks
      BY <2>7 DEF QueuedIds, queued_tasks, ReadingIds
    <2> QED
      BY <2>4, <2>5, <2>6, <2>8 DEF TasksListed
  <1> QED
    BY <1>1, InvHolds, PTL

-----------------------------------------------------------------------------
(* What the queues count is what there is.                                 *)

\* The workloads in which no task calls exec(): resume_task does not count the
\* task it makes ready.
NobodyExecs == \A work \in Workloads : "exec" \notin work.calls

\* Only exec() puts a task on an external queue.
LEMMA NoExternal ==
  ASSUME Inv, NobodyExecs, external = {}, [Next]_vars PROVE external' = {}
  <1>1. CASE UNCHANGED vars
    BY <1>1 DEF vars
  <1>2. CASE LoopStep
    <2>1. ASSUME NEW c, server_new_connection(c) PROVE external' = external
      BY <2>1 DEF server_new_connection
    <2>2. ASSUME NEW q, NEW kind, server_receive_line(q, kind) PROVE external' = external
      BY <2>2 DEF server_receive_line
    <2>3. ASSUME NEW q, ReceiveFlushCommand(q) PROVE external' = external
      BY <2>3 DEF ReceiveFlushCommand
    <2>4. ASSUME NEW q, NEW progr, CloseConnection(q, progr) PROVE external' = external
      BY <2>4 DEF CloseConnection
    <2>5. ASSUME NEW progr, ServerTask(progr) PROVE external' = external
      BY <2>5 DEF ServerTask
    <2>6. ASSUME Tick PROVE external' = external
      BY <2>6 DEF Tick
    <2>7. CheckpointAndRestart => external' = {}
      BY DEF CheckpointAndRestart
    <2> QED
      BY <1>2, <2>1, <2>2, <2>3, <2>4, <2>5, <2>6, <2>7 DEF LoopStep
  <1>3. CASE DispatchStep
    <2>1. ASSUME RunReadyTasks PROVE external' = external
      BY <2>1 DEF RunReadyTasks
    <2>2. ASSUME ReaderAtEof PROVE external' = external
      BY <2>2 DEF ReaderAtEof, ResumeReader
    <2>3. ASSUME ReaderGetsLine PROVE external' = external
      BY <2>3 DEF ReaderGetsLine, ResumeReader
    <2>4. ASSUME ParserNeedsMore PROVE external' = external
      BY <2>4 DEF ParserNeedsMore
    <2>5. ASSUME NEW progr, LineStartsTask(progr) PROVE external' = external
      BY <2>5 DEF LineStartsTask
    <2>6. ASSUME NEW blank, LineWithoutTask(blank) PROVE external' = external
      BY <2>6 DEF LineWithoutTask
    <2>7. ASSUME RunBackground PROVE external' = external
      BY <2>7 DEF RunBackground
    <2>8. ASSUME DeactivateHead PROVE external' = external
      BY <2>8 DEF DeactivateHead
    <2>9. ASSUME NothingReady PROVE external' = external
      BY <2>9 DEF NothingReady
    <2> QED
      BY <1>3, <2>1, <2>2, <2>3, <2>4, <2>5, <2>6, <2>7, <2>8, <2>9 DEF DispatchStep
  <1>4. CASE TaskStep
    <2>1. ASSUME NEW delay, Fork(delay) PROVE external' = external
      BY <2>1 DEF Fork
    <2>2. ASSUME NEW i, KillWaiting(i) PROVE external' = external
      BY <2>2 DEF KillWaiting
    <2>3. ASSUME NEW q, KillReading(q) PROVE external' = external
      BY <2>3 DEF KillReading
    <2>4. ASSUME NEW q, NEW i, KillReady(q, i) PROVE external' = external
      BY <2>4 DEF KillReady
    <2>5. ASSUME NEW i, Resume(i) PROVE external' = external
      BY <2>5 DEF Resume
    <2>6. ASSUME NEW player, NEW kind, NEW at_front, ForceInput(player, kind, at_front) PROVE external' = external
      BY <2>6 DEF ForceInput
    <2>7. ASSUME NEW player, FlushInput(player) PROVE external' = external
      BY <2>7 DEF FlushInput
    <2>8. ASSUME NEW q, read_input_now(q) PROVE external' = external
      BY <2>8 DEF read_input_now
    <2>9. ASSUME NEW q, NEW value, SetHoldInput(q, value) PROVE external' = external
      BY <2>9 DEF SetHoldInput
    <2>10. ASSUME NEW q, NEW value, SetDisableOob(q, value) PROVE external' = external
      BY <2>10 DEF SetDisableOob
    <2>11. ASSUME NEW q, NEW new, SwitchPlayer(q, new) PROVE external' = external
      BY <2>11 DEF SwitchPlayer
    <2>12. ASSUME Finish PROVE external' = external
      BY <2>12 DEF Finish
    <2>13. ASSUME NEW delay, Suspend(delay) PROVE external' = external
      BY <2>13 DEF Suspend
    <2>14. ASSUME NEW q, NEW parsing, Read(q, parsing) PROVE external' = external
      BY <2>14 DEF Read
    <2>15. ASSUME NEW player, NEW progr, FinishLogin(player, progr) PROVE external' = external
      BY <2>15 DEF FinishLogin
    <2>16. ~Exec
      BY DEF Exec, InTask, NobodyExecs, Inv, TypeOK
    <2> QED
      BY <1>4, <2>1, <2>2, <2>3, <2>4, <2>5, <2>6, <2>7, <2>8, <2>9, <2>10, <2>11, <2>12,
         <2>13, <2>14, <2>15, <2>16 DEF TaskStep
  <1> QED
    BY <1>1, <1>2, <1>3, <1>4 DEF Next

LEMMA BooksKept ==
  ASSUME NobodyExecs PROVE Spec => [](Inv /\ external = {} /\ Booked(World))
  <1>1. Init => Inv /\ external = {} /\ Booked(World)
    BY InitHolds DEF Init
  <1>2. Inv /\ external = {} /\ Booked(World) /\ [Next]_vars =>
          (Inv /\ external = {} /\ Booked(World))'
    <2> SUFFICES ASSUME Inv, external = {}, Booked(World), [Next]_vars
                 PROVE  (Inv /\ external = {} /\ Booked(World))'
      OBVIOUS
    <2>1. external' = {}
      BY NoExternal
    <2>2. CASE CheckpointAndRestart
      BY <2>1, <2>2, RestartKeepsInv
    <2>3. CASE ~CheckpointAndRestart
      BY <2>1, <2>3, StepSafe DEF Safe, Ledger
    <2> QED
      BY <2>2, <2>3
  <1> QED
    BY <1>1, <1>2, PTL DEF Spec

\* Whatever forks, suspensions, resumptions, kills, logins, switches of players and
\* restarts happen, as long as no task calls exec(): num_bg_tasks of every queue is
\* the number of its player's tasks, a player with a task that waits has a queue,
\* and the ready tasks of a queue are its player's.
THEOREM TasksAreCounted ==
  ASSUME NobodyExecs PROVE Spec => []Counted
  <1>1. Inv /\ Booked(World) => Counted
    <2> SUFFICES ASSUME Inv, Booked(World) PROVE Counted
      OBVIOUS
    <2>1. PICK w : w = World
      OBVIOUS
    <2>2. /\ w \in Worlds /\ w.queue = queue /\ w.waiting = waiting /\ Live(w) \subseteq Queue
          /\ waiting \in Seq(Tasks) /\ OneQueue(w)
      BY <2>1, WorldIs, WorldFields, ActiveList DEF Inv, Sound, SoundBut
    <2>3. \A q \in Live(w) : /\ Pl(w)[q] = queue[q].player /\ Nb(w)[q] = queue[q].num_bg
                              /\ Bg(w)[q] = queue[q].bg
      BY <2>2 DEF Pl, Nb, Bg
    <2>4. PICK T : T = Waits(waiting)
      OBVIOUS
    <2>5. Balanced(w, T) /\ \A p \in Owners : T[p] = Cardinality(Mine(waiting, p))
      BY <2>1, <2>2, <2>4 DEF Booked, Waits
    <2>6. ASSUME NEW q \in Live(w), queue[q].player # NOTHING
          PROVE  /\ queue[q].player \in Owners
                 /\ Paid(queue[q].player, queue[q].num_bg, queue[q].bg, T[queue[q].player])
      <3>1. Pl(w)[q] \in Owners
        BY <2>2, <2>3, <2>6, OneOwner
      <3> QED
        BY <2>2, <2>3, <2>5, <2>6, <3>1 DEF Balanced
    <2>7. ASSUME NEW q \in Live(w), queue[q].player # NOTHING
          PROVE  queue[q].num_bg =
                   Len(queue[q].bg)
                   + Cardinality({i \in DOMAIN waiting : waiting[i].progr = queue[q].player})
      BY <2>5, <2>6, <2>7 DEF Paid, Mine
    <2>8. ASSUME NEW i \in DOMAIN waiting
          PROVE  \E q \in Live(w) : queue[q].player = waiting[i].progr
      <3>1. PICK p : p = waiting[i].progr
        OBVIOUS
      <3>2. waiting[i] \in Tasks
        BY <2>2, ElementOfSeq, LenProperties
      <3>3. p \in Owners /\ p # NOTHING
        BY <2>2, <3>1, <3>2, OneOwner DEF Tasks, Owners
      <3>4. IsFiniteSet(Mine(waiting, p)) /\ i \in Mine(waiting, p)
        BY <2>2, <3>1, MineIs DEF Mine
      <3>5. T[p] # 0
        BY <2>5, <3>3, <3>4, FS_EmptySet
      <3>6. PICK q \in Queue : Pl(w)[q] = p
        BY <2>5, <3>3, <3>5 DEF Balanced
      <3>7. q \in Live(w)
        BY <3>3, <3>6 DEF Pl
      <3> QED
        BY <2>3, <3>1, <3>6, <3>7
    <2>9. ASSUME NEW q \in Live(w), NEW i \in DOMAIN queue[q].bg
          PROVE  queue[q].bg[i].progr = queue[q].player
      <3>1. CASE queue[q].player # NOTHING
        BY <2>6, <3>1 DEF Paid
      <3>2. CASE queue[q].player = NOTHING
        <4>1. queue[q].bg = <<>>
          BY <2>2, <2>3, <2>5, <3>2 DEF Balanced
        <4>2. DOMAIN <<>> = {}
          OBVIOUS
        <4> QED
          BY <4>1, <4>2
      <3> QED
        BY <3>1, <3>2
    <2> QED
      BY <2>1, <2>7, <2>8, <2>9 DEF Counted
  <1> QED
    BY <1>1, BooksKept, PTL

\* As long as no task calls exec(), and no task reads or the server is not
\* restarted, the counts are right and no programmer has more forked and suspended
\* tasks than queued_task_limit, although the limit is compared with the count of one
\* queue: there is one queue for each player and it counts all of that player's
\* tasks, also when another connection takes it over and when it was read again.
THEOREM LimitHolds ==
  ASSUME NobodyExecs, NobodyReads \/ OneLifetime PROVE Spec => []CountsRight
  <1>1. Inv /\ Booked(World) => LimitKept
    <2> SUFFICES ASSUME Inv, Booked(World), TaskLimit >= 0, NEW p \in User
                 PROVE  Cardinality({t \in ToSet(waiting)
                                            \cup UNION {ToSet(queue[q].bg) : q \in Live(World)} :
                                       t.progr = p}) <= TaskLimit
      BY DEF LimitKept
    <2>1. PICK w : w = World
      OBVIOUS
    <2>2. w \in Worlds /\ w.queue = queue /\ Live(w) \subseteq Queue
      BY <2>1, WorldIs, ActiveList DEF Inv, Sound, SoundBut
    <2>3. Limited /\ p \in Owners /\ TaskLimit \in Int
      BY TaskAssumption DEF Limited, Owners
    <2>4. PICK X : X = {t \in QueuedTasks : t.progr = p}
      OBVIOUS
    <2>5. IsFiniteSet(X) /\ Cardinality(X) <= TaskLimit
      BY <2>3, <2>4, QuotaKept
    <2>6. PICK R : R = UNION {ToSet(queue[q].bg) : q \in Live(w)}
      OBVIOUS
    <2>7. R \subseteq ReadyTasks(Bg(w))
      <3>1. \A q \in Live(w) : q \in Queue /\ Bg(w)[q] = queue[q].bg
        BY <2>2 DEF Bg
      <3> QED
        BY <2>6, <3>1 DEF ReadyTasks
    <2>8. PICK Y : Y = {t \in ToSet(waiting) \cup R : t.progr = p}
      OBVIOUS
    <2>9. Y \in SUBSET X
      BY <2>1, <2>4, <2>7, <2>8 DEF QueuedTasks
    <2>10. IsFiniteSet(Y) /\ Cardinality(Y) <= Cardinality(X)
      BY <2>5, <2>9, FS_Subset
    <2>11. Cardinality(X) \in Nat /\ Cardinality(Y) \in Nat
      BY <2>5, <2>10, FS_CardinalityType
    <2>12. Cardinality(Y) <= TaskLimit
      BY <2>3, <2>5, <2>10, <2>11
    <2> QED
      BY <2>1, <2>6, <2>8, <2>12
  <1>2. Counted /\ LimitKept => CountsRight
    BY DEF CountsRight
  <1> QED
    BY <1>1, <1>2, BooksKept, TasksAreCounted, PTL
=============================================================================
