----------------------------- MODULE TaskQueues -----------------------------
(***************************************************************************)
(* The task queues of tasks.cc: the helpers every operation of the task    *)
(* scheduler is built from.  A world w is a record                         *)
(*   queue   [Queue -> TQueue], the tqueue structures;                     *)
(*   active  the list active_tqueues, in scheduling order;                 *)
(*   idle    the queues on idle_tqueues (a list whose order only matters   *)
(*           to find_tqueue when two queues have the same player);         *)
(*   waiting the list waiting_tasks, by start time.                        *)
(* A helper takes a world and returns the world it leaves behind, so that  *)
(* an action composes the helpers the way the C function calls them.       *)
(***************************************************************************)
EXTENDS Integers, FiniteSets, SequencesExt

CONSTANTS
  Queue,     \* identities of tqueue structures, a set of positive integers
  InputHiwat \* INPUT_HIWAT, in lines rather than characters

ASSUME QueueAssumption == Queue \subseteq Nat \ {0} /\ IsFiniteSet(Queue)
ASSUME HiwatAssumption == InputHiwat \in Nat /\ InputHiwat >= 2

NO_USAGE == -1
NOTHING  == "NOTHING"     \* the player of a tqueue abandoned by a login
Forever  == 99            \* INT32_MAX: the start time of suspend() for ever
NoVm     == [id |-> 0, progr |-> NOTHING]
InputLowat == InputHiwat \div 2

InputKinds == {"INBAND", "OOB"}   \* TASK_QUOTED and TASK_BINARY queue as INBAND
Line(kind, len) == [kind |-> kind, len |-> len]
Task(kind, id, progr, start) ==
  [kind |-> kind, id |-> id, progr |-> progr, start |-> start]
Vm(id, progr) == [id |-> id, progr |-> progr]

\* A tqueue as find_tqueue creates it; also what an unallocated one is set to.
NewTQueue(player) ==
  [player |-> player, connected |-> FALSE, input |-> <<>>, susp |-> FALSE,
   bg |-> <<>>, usage |-> NO_USAGE, num_bg |-> 0,
   hold |-> FALSE, no_oob |-> FALSE, reading |-> NoVm, parsing |-> FALSE]

Live(w) == ToSet(w.active) \cup w.idle
FreeSlots(w) == Queue \ Live(w)

QueuesOf(w, player) == {q \in Live(w) : w.queue[q].player = player}
QueueOf(w, player) == CHOOSE q \in QueuesOf(w, player) : TRUE

-----------------------------------------------------------------------------
(* The two lists of queues.                                                *)

\* Mutant: appends.
activate_at_end(w, q) == [w EXCEPT !.active = Append(@, q)]
\* Before the first queue of larger usage: equal usage is first come, first
\* served.
activate_tqueue(w, q) ==
  LET u == w.queue[q].usage
      later == SelectInSeq(w.active, LAMBDA r : w.queue[r].usage > u)
  IN  [w EXCEPT !.active =
         IF later = 0 THEN Append(@, q) ELSE InsertAt(@, later, q)]

deactivate_tqueue(w, q) ==
  [w EXCEPT !.queue[q].usage = NO_USAGE, !.idle = @ \cup {q}]

\* A queue that becomes active starts level with the head of the list.
ensure_usage(w, q) ==
  IF w.queue[q].usage # NO_USAGE THEN w
  ELSE activate_tqueue(
         [w EXCEPT !.queue[q].usage =
                     IF w.active = <<>> THEN 0 ELSE w.queue[Head(w.active)].usage,
                   !.idle = @ \ {q}], q)

\* find_tqueue(player, 1): the world with a queue for player, made if need be.
find_tqueue(w, player) ==
  IF QueuesOf(w, player) # {} THEN w
  ELSE LET q == Min(FreeSlots(w))
       IN  deactivate_tqueue([w EXCEPT !.queue[q] = NewTQueue(player)], q)

\* Queues that find_tqueue(w, player) may have to take from the pool.
CanFind(w, player) == QueuesOf(w, player) # {} \/ FreeSlots(w) # {}

-----------------------------------------------------------------------------
(* Input.  The input of a queue is one list; see InputQueue for the        *)
(* next_itail threading that lets the code take the first line of a kind.  *)

TotalInputLength(r) ==
  LET sum[i \in 0..Len(r.input)] ==
        IF i = 0 THEN 0 ELSE sum[i - 1] + r.input[i].len
  IN  sum[Len(r.input)]

is_out_of_input(r) == ~r.connected /\ r.input = <<>>

\* The index of the line that dequeue_input_task(tq, how) takes, or 0.
InputIndex(r, how) ==
  LET Wanted(line) ==
        \/ how = "DQ_FIRST"
        \/ r.no_oob
        \/ (line.kind = "OOB") = (how = "DQ_OOB")
  IN  IF r.no_oob /\ how = "DQ_OOB" THEN 0 ELSE SelectInSeq(r.input, Wanted)

\* The kind a dequeued line is given: out-of-band lines are ordinary ones
\* while disable-oob is set.
InputKind(r, i) == IF r.no_oob THEN "INBAND" ELSE r.input[i].kind

\* The queue without the line at i; network input is resumed when what is
\* left has dropped below the low water mark.
dequeue_input_task(r, i) ==
  LET s == [r EXCEPT !.input = RemoveAt(@, i)]
  IN  [s EXCEPT !.susp = @ /\ ~(r.connected /\ TotalInputLength(s) < InputLowat)]

enqueue_input_task(w, q, line, at_front) ==
  LET r == [w.queue[q] EXCEPT !.input =
              IF at_front THEN <<line>> \o @ ELSE Append(@, line)]
      due == ~r.hold \/ r.reading # NoVm \/ (~r.no_oob /\ line.kind = "OOB")
      w1 == [w EXCEPT !.queue[q] = r]
      w2 == IF due THEN ensure_usage(w1, q) ELSE w1
  IN  [w2 EXCEPT !.queue[q].susp =
         @ \/ (r.connected /\ TotalInputLength(r) > InputHiwat)]

\* Mutant: drops the lines without resuming the client.
flush_without_resume(w, q) == [w EXCEPT !.queue[q].input = <<>>]

\* dequeue_input_task until nothing is left.
flush_input(w, q) ==
  [w EXCEPT !.queue[q].input = <<>>,
            !.queue[q].susp = @ /\ ~(/\ w.queue[q].connected
                                     /\ w.queue[q].input # <<>>
                                     /\ 0 < InputLowat)]

-----------------------------------------------------------------------------
(* Background tasks: forked and suspended ones.                            *)

enqueue_bg_task(w, q, t) == [w EXCEPT !.queue[q].bg = Append(@, t)]

dequeue_bg_task(r) == [r EXCEPT !.bg = Tail(@), !.num_bg = @ - 1]

\* Into waiting_tasks, after every task that starts no later.
enqueue_waiting(w, t) ==
  LET v == find_tqueue(w, t.progr)
      later == SelectInSeq(w.waiting, LAMBDA u : u.start > t.start)
  IN  [v EXCEPT !.queue[QueueOf(v, t.progr)].num_bg = @ + 1,
                !.waiting = IF later = 0 THEN Append(@, t)
                            ELSE InsertAt(@, later, t)]

\* resume_task: the task of an external queue (exec) becomes ready.
resume_task(w, vm) ==
  LET v == find_tqueue(w, vm.progr)
      q == QueueOf(v, vm.progr)
  IN  ensure_usage(
        enqueue_bg_task(v, q, Task("SUSPENDED", vm.id, vm.progr, 0)), q)

\* A task that waited is ready: it moves to its programmer's queue, which becomes
\* active.
MakeReady(w, t) ==
  LET v == find_tqueue(w, t.progr)
      q == QueueOf(v, t.progr)
  IN  enqueue_bg_task(ensure_usage(v, q), q, t)

\* Mutant: the queue is not activated.
do_resume_inactive(w, i, now) ==
  LET v == find_tqueue([w EXCEPT !.waiting = RemoveAt(@, i)], w.waiting[i].progr)
  IN  enqueue_bg_task(v, QueueOf(v, w.waiting[i].progr), w.waiting[i])
\* do_resume of a waiting task: it leaves waiting_tasks and is ready now.
do_resume(w, i, now) ==
  MakeReady([w EXCEPT !.waiting = RemoveAt(@, i)], [w.waiting[i] EXCEPT !.start = now])

\* Mutant: a task that is due this second is not due.
MoveOverdue(w, now) ==
  LET Move(v, t) == LET q == QueueOf(v, t.progr)
                    IN  enqueue_bg_task(ensure_usage(v, q), q, t)
      Due(t) == t.start < now
  IN  FoldLeft(Move, [w EXCEPT !.waiting = SelectSeq(@, LAMBDA t : ~Due(t))],
               SelectSeq(w.waiting, Due))

\* The loop at the top of run_ready_tasks: every task at the head of
\* waiting_tasks whose time has come moves to its programmer's queue.
MoveDue(w, now) ==
  LET late == SelectInSeq(w.waiting, LAMBDA t : t.start > now)
      n == IF late = 0 THEN Len(w.waiting) ELSE late - 1
      after[i \in 0..n] ==
        IF i = 0 THEN [w EXCEPT !.waiting = SubSeq(@, n + 1, Len(@))]
        ELSE MakeReady(after[i - 1], w.waiting[i])
  IN  after[n]

\* free_task_queue: the connection is gone.  A pending reader is activated so
\* that it is resumed although no more input comes.
free_task_queue(w, q) ==
  LET v == [w EXCEPT !.queue[q].connected = FALSE]
  IN  IF v.queue[q].reading # NoVm THEN ensure_usage(v, q) ELSE v

\* Mutant: frees connected queues too.
FreeConnected(w) ==
  LET dead == {q \in w.idle : w.queue[q].input = <<>> /\ w.queue[q].num_bg = 0}
  IN  [w EXCEPT !.idle = @ \ dead]

\* The end of run_ready_tasks: idle queues that are unconnected and empty are
\* freed.
FreeEmpty(w) ==
  LET dead == {q \in w.idle : /\ ~w.queue[q].connected
                              /\ w.queue[q].input = <<>>
                              /\ w.queue[q].num_bg = 0}
  IN  [w EXCEPT !.idle = @ \ dead,
                !.queue = [q \in Queue |->
                             IF q \in dead THEN NewTQueue(NOTHING) ELSE @[q]]]

\* The background tasks of queue from join those of queue to.
MoveTasks(w, from, to) ==
  [w EXCEPT !.queue[to].num_bg = w.queue[from].num_bg,
            !.queue[to].bg = @ \o w.queue[from].bg,
            !.queue[from].bg = <<>>,
            !.queue[from].num_bg = 0]

\* Mutant of TakePlayer: the player's other queue keeps its player.
TakePlayer_shared(w, q, new) == [w EXCEPT !.queue[q].player = new]
\* Shared by do_login_task and bf_switch_player: connection queue q becomes
\* the queue of player new.  Tasks queued for the old player id move to a
\* queue of their own; a queue d that new already has is emptied into q and
\* left, without a player, to be freed by run_ready_tasks.
LeaveTasks(w, q, old) ==
  LET v == find_tqueue(w, old)
  IN  IF w.queue[q].num_bg = 0 THEN w ELSE MoveTasks(v, q, QueueOf(v, old))
Absorb(w, q, d) ==
  LET v == MoveTasks(flush_input(w, d), d, q)
  IN  [v EXCEPT !.queue[d].player = NOTHING]
TakePlayer(w, q, new) ==
  LET v == LeaveTasks([w EXCEPT !.queue[q].player = new], q, w.queue[q].player)
  IN  IF QueuesOf(w, new) = {} THEN v
      ELSE Absorb(v, q, CHOOSE d \in QueuesOf(w, new) : TRUE)

\* player_connected and player_connected_silent, as far as queues go: a
\* connection that new already had is closed.
CloseExisting(w, w0, new) ==
  LET ex == {q \in QueuesOf(w0, new) : w0.queue[q].connected}
  IN  IF ex = {} THEN w ELSE free_task_queue(w, CHOOSE q \in ex : TRUE)
=============================================================================
