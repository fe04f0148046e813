------------------------------- MODULE Tasks -------------------------------
(***************************************************************************)
(* The task scheduler of tasks.cc, driven by main_loop of server.cc.  The  *)
(* server is one thread.  phase says where it is:                          *)
(*   "loop"  in main_loop, where connections come, go and send lines;      *)
(*   "ready" in the dispatching loop of run_ready_tasks;                   *)
(*   "task"  a MOO task runs.  It may call any of the built-in functions   *)
(*           in does.calls, one action each, before it ends or blocks.          *)
(* The programs are not modelled: what a task calls, and which programmer  *)
(* (progr) it runs as, is arbitrary.  Values passed to resumed tasks and   *)
(* the permission checks of the built-ins are left out: a wizard calls.    *)
(***************************************************************************)
EXTENDS TaskQueues

CONSTANTS
  TaskId,    \* task ids, positive integers; a bound on tasks alive at a time
  User,      \* players (objects with the user flag)
  Conn,      \* ids of connections that have not logged in (negative)
  Workloads, \* what happens in a behaviour: a set of records with
             \*   calls  built-in functions and client behaviour that occur
             \*   users  users that log in and programmers that tasks run as
             \*   conns  connections that are made
             \*   ids    ids that tasks get
             \*   lines  bound: lines of input queued at a time
             \*   delays arguments of fork and suspend; -1 is suspend without
             \*          argument
  Durations, \* seconds a task may run for
  TaskLimit, \* queued_task_limit, or -1
  Spare,     \* bound: ids kept for the tasks of input lines
  MaxDrift,  \* bound on how far resume_task may drive num_bg_tasks below 0
  MaxTime,   \* bound on the clock
  MaxUsage   \* bound on a queue's usage

ASSUME TaskAssumption ==
  /\ TaskId \subseteq Nat \ {0} /\ IsFiniteSet(TaskId)
  /\ \A work \in Workloads :
       /\ work.users \subseteq User /\ work.users # {} /\ work.conns \subseteq Conn
       /\ work.ids \subseteq TaskId /\ work.lines \in Nat /\ work.delays \subseteq Int
  /\ User \cap Conn = {} /\ NOTHING \notin User \cup Conn
  /\ 0 \in Durations /\ Durations \subseteq Nat
  /\ TaskLimit \in Int /\ {Spare, MaxDrift, MaxUsage} \subseteq Nat
  /\ MaxTime \in Nat \ {0}

VARIABLES
  queue, active, idle, waiting, \* the world of TaskQueues
  external,  \* tasks waiting on an external queue (exec)
  phase,     \* where the server's thread is
  cur,       \* the task that runs
  now,       \* time(0)
  unused,    \* connection ids not handed out yet (next_unconnected_player)
  does       \* the workload of this behaviour

vars == <<queue, active, idle, waiting, external, phase, cur, now, unused, does>>

World == [queue |-> queue, active |-> active, idle |-> idle, waiting |-> waiting]
SetWorld(w) ==
  /\ queue' = w.queue
  /\ active' = w.active
  /\ idle' = w.idle
  /\ waiting' = w.waiting

\* The running task: its id and programmer, the queue that run_ready_tasks
\* took it from (0 for a task run from main_loop), whether it is a
\* do_login_command, and the connection to close when it ends (0 if none).
Running(id, progr, q, login, closing) ==
  [id |-> id, progr |-> progr, q |-> q, login |-> login, closing |-> closing]
NoTask == Running(0, NOTHING, 0, FALSE, 0)

BgIds(w) == {t.id : t \in UNION {ToSet(w.queue[q].bg) : q \in Live(w)}}
WaitingIds == {t.id : t \in ToSet(waiting)}
ReadingIds == {queue[q].reading.id : q \in Live(World)} \ {0}
ExternalIds == {vm.id : vm \in external}
\* Tasks that are queued somewhere, ready or not.
QueuedIds == WaitingIds \cup BgIds(World) \cup ReadingIds \cup ExternalIds

\* new_task_id: random in the code; here the least id no live task has.
FreshIds == does.ids \ (QueuedIds \cup {cur.id})
new_task_id == Min(FreshIds)
\* Bound: where there are lines of input, other tasks leave Spare ids unused.
IdsForLines == IF does.lines = 0 THEN 0 ELSE Spare
SpareIds == Cardinality(FreshIds) > IdsForLines
KeepsSpare == Cardinality(FreshIds) >= IdsForLines

Init ==
  /\ queue = [q \in Queue |-> NewTQueue(NOTHING)]
  /\ active = <<>> /\ idle = {} /\ waiting = <<>>
  /\ external = {}
  /\ phase = "loop" /\ cur = NoTask
  /\ now = 1
  /\ does \in Workloads /\ unused = does.conns

-----------------------------------------------------------------------------
(* main_loop: connections, their input, time, exec and checkpoints.        *)

\* server_new_connection: the connection starts with one empty line queued,
\* and no network input is taken until that line has been dequeued.
server_new_connection(c) ==
  /\ phase = "loop"
  /\ c \in unused /\ CanFind(World, c)
  /\ LET v == find_tqueue(World, c)
         q == QueueOf(v, c)
         v1 == [v EXCEPT !.queue[q].connected = TRUE]
         v2 == enqueue_input_task(v1, q, Line("INBAND", 0), FALSE)
     IN  SetWorld([v2 EXCEPT !.queue[q].susp = TRUE])
  /\ unused' = unused \ {c}
  /\ UNCHANGED <<external, phase, cur, now, does>>

\* Bound: the lines that wait in the queues.
MoreInput ==
  MapThenSumSet(LAMBDA q : Len(queue[q].input), Live(World)) < does.lines

\* server_receive_line and new_input_task: a line arrives ...
server_receive_line(q, kind) ==
  /\ phase = "loop"
  /\ queue[q].connected /\ ~queue[q].susp
  /\ MoreInput
  /\ SetWorld(enqueue_input_task(World, q, Line(kind, 1), FALSE))
  /\ UNCHANGED <<external, phase, cur, now, unused, does>>

\* ... unless it is the flush command.
ReceiveFlushCommand(q) ==
  /\ phase = "loop" /\ "flush" \in does.calls
  /\ queue[q].connected /\ ~queue[q].susp
  /\ SetWorld(flush_input(World, q))
  /\ UNCHANGED <<external, phase, cur, now, unused, does>>

\* server_close (the client hangs up) and the end of main_loop (time-out,
\* boot_player): a notifier verb runs first, then the handle is freed.
CloseConnection(q, progr) ==
  /\ phase = "loop" /\ "close" \in does.calls
  /\ q \in Live(World) /\ queue[q].connected
  /\ SpareIds
  /\ phase' = "task"
  /\ cur' = Running(new_task_id, progr, 0, FALSE, q)
  /\ UNCHANGED <<queue, active, idle, waiting, external, now, unused, does>>

\* main_loop runs a verb of the system object: server_started, the checkpoint
\* notifications, the recycle verbs of anonymous objects.
ServerTask(progr) ==
  /\ phase = "loop" /\ "server_task" \in does.calls
  /\ SpareIds
  /\ phase' = "task"
  /\ cur' = Running(new_task_id, progr, 0, FALSE, 0)
  /\ UNCHANGED <<queue, active, idle, waiting, external, now, unused, does>>

\* deal_with_child_exit: a finished child resumes its task.
ExecCompletes(vm) ==
  /\ phase = "loop"
  /\ vm \in external /\ CanFind(World, vm.progr)
  /\ \A q \in QueuesOf(World, vm.progr) : queue[q].num_bg > -MaxDrift
  /\ SetWorld(resume_task(World, vm))
  /\ external' = external \ {vm}
  /\ UNCHANGED <<phase, cur, now, unused, does>>

Tick ==
  /\ phase = "loop" /\ now < MaxTime
  /\ now' = now + 1
  /\ UNCHANGED <<queue, active, idle, waiting, external, phase, cur, unused, does>>

\* Mutant: writes waiting_tasks only.
write_waiting_only == waiting

\* The tasks of one kind in a list, and the ready tasks of the active queues.
OfKind(s, kind) ==
  LET upto[i \in 0..Len(s)] ==
        IF i = 0 THEN <<>>
        ELSE IF s[i].kind = kind THEN Append(upto[i - 1], s[i]) ELSE upto[i - 1]
  IN  upto[Len(s)]
ActiveBg(w) ==
  LET upto[i \in 0..Len(w.active)] ==
        IF i = 0 THEN <<>> ELSE upto[i - 1] \o w.queue[w.active[i]].bg
  IN  upto[Len(w.active)]
Interrupted(vms) == SetToSeq({Task("SUSPENDED", vm.id, vm.progr, 0) : vm \in vms})

\* What write_task_queue writes: forked tasks, then suspended ones, then, as
\* interrupted ones that start at once, the external and the reading tasks.
\* Of the queues it only visits the background tasks of active ones and the
\* readers of idle ones.
write_task_queue ==
  LET Of(kind) == OfKind(waiting, kind) \o OfKind(ActiveBg(World), kind)
  IN  Of("FORKED") \o Of("SUSPENDED") \o Interrupted(external)
        \o Interrupted({queue[q].reading : q \in idle} \ {NoVm})

\* read_task_queue in a server that has just started: it queues every task that
\* was written.
read_task_queue(s) ==
  LET after[i \in 0..Len(s)] ==
        IF i = 0
        THEN [queue |-> [q \in Queue |-> NewTQueue(NOTHING)],
              active |-> <<>>, idle |-> {}, waiting |-> <<>>]
        ELSE enqueue_waiting(after[i - 1], s[i])
  IN  after[Len(s)]

\* A checkpoint, and the restart of a server from it.  Restarting at once reaches
\* every state that restarting later from the same file reaches.
CheckpointAndRestart ==
  /\ phase = "loop" /\ "restart" \in does.calls
  /\ Cardinality({t.progr : t \in ToSet(write_task_queue)}) <= Cardinality(Queue)
  /\ SetWorld(read_task_queue(write_task_queue))
  /\ external' = {}
  /\ UNCHANGED <<phase, cur, now, unused, does>>

-----------------------------------------------------------------------------
(* run_ready_tasks.                                                        *)

RunReadyTasks ==
  /\ phase = "loop"
  /\ Cardinality({p \in {t.progr : t \in ToSet(waiting)} : QueuesOf(World, p) = {}})
       <= Cardinality(FreeSlots(World))
  /\ phase' = "ready"
  /\ SetWorld(MoveDue(World, now))
  /\ UNCHANGED <<external, cur, now, unused, does>>

\* The line or task the head queue offers.
HeadQueue == Head(active)
HeadReaderAtEof ==
  queue[HeadQueue].reading # NoVm /\ is_out_of_input(queue[HeadQueue])
HeadInput ==
  InputIndex(queue[HeadQueue],
             IF queue[HeadQueue].hold /\ queue[HeadQueue].reading = NoVm
             THEN "DQ_OOB" ELSE "DQ_FIRST")
AtHead == phase = "ready" /\ active # <<>>

Start(id, progr, login) ==
  /\ phase' = "task"
  /\ cur' = Running(id, progr, HeadQueue, login, 0)

\* After a task was run from queue q (did_one): q leaves the front of
\* active_tqueues, is charged d seconds and reenters by usage; then empty
\* queues are freed and main_loop goes on.
DidOne(w, q, d) ==
  LET i == SelectInSeq(w.active, LAMBDA r : r = q)
      v == [w EXCEPT !.active = SubSeq(@, i + 1, Len(@)), !.queue[q].usage = @ + d]
  IN  FreeEmpty(activate_tqueue(v, q))

\* Resume the task blocked in read() or read_http() with what the head queue
\* has become, h.
ResumeReader(h) ==
  /\ SetWorld([World EXCEPT !.queue[HeadQueue] =
                 [h EXCEPT !.reading = NoVm, !.parsing = FALSE]])
  /\ Start(h.reading.id, h.reading.progr, FALSE)
  /\ UNCHANGED <<external, now, unused, does>>

\* The connection is gone and so is the input: the reader gets E_INVARG.
ReaderAtEof ==
  /\ AtHead /\ HeadReaderAtEof
  /\ ResumeReader(queue[HeadQueue])

\* A line for the reader.
ReaderGetsLine ==
  /\ AtHead /\ ~HeadReaderAtEof /\ HeadInput # 0
  /\ InputKind(queue[HeadQueue], HeadInput) = "INBAND"
  /\ queue[HeadQueue].reading # NoVm
  /\ ResumeReader(dequeue_input_task(queue[HeadQueue], HeadInput))

\* The HTTP parser took the line and wants more.
ParserNeedsMore ==
  /\ AtHead /\ ~HeadReaderAtEof /\ HeadInput # 0
  /\ InputKind(queue[HeadQueue], HeadInput) = "INBAND"
  /\ queue[HeadQueue].reading # NoVm /\ queue[HeadQueue].parsing
  /\ SetWorld(DidOne([World EXCEPT !.queue[HeadQueue] = dequeue_input_task(@, HeadInput)],
                     HeadQueue, 0))
  /\ phase' = "loop"
  /\ UNCHANGED <<external, cur, now, unused, does>>

\* A line that starts a task: out-of-band, login or command.
LineStartsTask(progr) ==
  /\ AtHead /\ ~HeadReaderAtEof /\ HeadInput # 0
  /\ FreshIds # {}
  /\ LET h == queue[HeadQueue]
         oob == InputKind(h, HeadInput) = "OOB"
     IN  /\ oob \/ h.reading = NoVm
         /\ Start(new_task_id, progr, ~oob /\ h.player \notin User)
         /\ SetWorld([World EXCEPT !.queue[HeadQueue] = dequeue_input_task(h, HeadInput)])
  /\ UNCHANGED <<external, now, unused, does>>

\* A command that starts none: an intrinsic command or a line of a .program
\* (did_one), or an empty line (go on looking).
LineWithoutTask(blank) ==
  /\ AtHead /\ ~HeadReaderAtEof /\ HeadInput # 0
  /\ LET h == queue[HeadQueue]
         v == [World EXCEPT !.queue[HeadQueue] = dequeue_input_task(h, HeadInput)]
     IN  /\ h.reading = NoVm /\ h.player \in User
         /\ InputKind(h, HeadInput) = "INBAND"
         /\ SetWorld(IF blank THEN v ELSE DidOne(v, HeadQueue, 0))
  /\ phase' = IF blank THEN "ready" ELSE "loop"
  /\ UNCHANGED <<external, cur, now, unused, does>>

\* No line to take: the first background task of the queue.
RunBackground ==
  /\ AtHead /\ ~HeadReaderAtEof /\ HeadInput = 0
  /\ queue[HeadQueue].bg # <<>>
  /\ LET t == Head(queue[HeadQueue].bg) IN Start(t.id, t.progr, FALSE)
  /\ SetWorld([World EXCEPT !.queue[HeadQueue] = dequeue_bg_task(@)])
  /\ UNCHANGED <<external, now, unused, does>>

\* Nothing to do on this queue.
DeactivateHead ==
  /\ AtHead /\ ~HeadReaderAtEof /\ HeadInput = 0
  /\ queue[HeadQueue].bg = <<>>
  /\ SetWorld(deactivate_tqueue([World EXCEPT !.active = Tail(@)], HeadQueue))
  /\ UNCHANGED <<external, phase, cur, now, unused, does>>

NothingReady ==
  /\ phase = "ready" /\ active = <<>>
  /\ SetWorld(FreeEmpty(World))
  /\ phase' = "loop"
  /\ UNCHANGED <<external, cur, now, unused, does>>

-----------------------------------------------------------------------------
(* What a running task does.                                               *)

\* The tasks that queued_tasks() lists for a wizard, and that kill_task()
\* searches.
queued_tasks ==
  LET readers == {queue[q].reading.id : q \in Live(World)} \ {0}
      ready == {t.id : t \in UNION {ToSet(queue[q].bg) : q \in ToSet(active)}}
  IN  readers \cup ready \cup WaitingIds \cup ExternalIds

InTask(call) == phase = "task" /\ call \in does.calls
TaskGoesOn == UNCHANGED <<phase, cur, now, unused, does>>

\* Mutant: a task too many.
check_user_task_limit_late(progr) ==
  LET queued == IF QueuesOf(World, progr) = {} THEN 0
                ELSE queue[QueueOf(World, progr)].num_bg
  IN  TaskLimit < 0 \/ queued <= TaskLimit

\* check_user_task_limit
check_user_task_limit(progr) ==
  LET queued == IF QueuesOf(World, progr) = {} THEN 0
                ELSE queue[QueueOf(World, progr)].num_bg
  IN  TaskLimit < 0 \/ queued < TaskLimit

StartTime(delay) == IF delay < 0 THEN Forever ELSE now + delay

\* enqueue_forked_task2
Fork(delay) ==
  /\ InTask("fork") /\ delay >= 0
  /\ SpareIds /\ CanFind(World, cur.progr)
  /\ check_user_task_limit(cur.progr)
  /\ SetWorld(enqueue_waiting(World, Task("FORKED", new_task_id, cur.progr, now + delay)))
  /\ TaskGoesOn /\ UNCHANGED external

\* Mutant: the killed task is still counted.
KillWaiting_uncounted(i) ==
  /\ InTask("kill") /\ i \in 1..Len(waiting)
  /\ SetWorld([World EXCEPT !.waiting = RemoveAt(@, i)])
  /\ TaskGoesOn /\ UNCHANGED external

\* kill_task of another task: in waiting_tasks, ...
KillWaiting(i) ==
  /\ InTask("kill") /\ i \in 1..Len(waiting)
  /\ LET owners == QueuesOf(World, waiting[i].progr)
     IN  SetWorld([World EXCEPT
                     !.waiting = RemoveAt(@, i),
                     !.queue = [q \in Queue |-> IF q \in owners
                                  THEN [queue[q] EXCEPT !.num_bg = @ - 1] ELSE queue[q]]])
  /\ TaskGoesOn /\ UNCHANGED external

\* ... blocked in read() or read_http(), ...
KillReading(q) ==
  /\ InTask("kill") /\ q \in Live(World)
  /\ queue[q].reading # NoVm
  /\ SetWorld([World EXCEPT !.queue[q].reading = NoVm, !.queue[q].parsing = FALSE])
  /\ TaskGoesOn /\ UNCHANGED external

\* ... ready on an active queue, ...
KillReady(q, i) ==
  /\ InTask("kill") /\ q \in ToSet(active) /\ i \in 1..Len(queue[q].bg)
  /\ SetWorld([World EXCEPT !.queue[q].bg = RemoveAt(@, i),
                            !.queue[q].num_bg = @ - 1])
  /\ TaskGoesOn /\ UNCHANGED external

\* ... or on an external queue.
KillExternal(vm) ==
  /\ InTask("kill") /\ vm \in external
  /\ external' = external \ {vm}
  /\ TaskGoesOn /\ UNCHANGED <<queue, active, idle, waiting>>

\* resume() of a suspended task.
Resume(i) ==
  /\ InTask("resume") /\ i \in 1..Len(waiting)
  /\ waiting[i].kind = "SUSPENDED" /\ CanFind(World, waiting[i].progr)
  /\ SetWorld(do_resume(World, i, now))
  /\ TaskGoesOn /\ UNCHANGED external

\* force_input()
ForceInput(player, kind, at_front) ==
  /\ InTask("force_input") /\ MoreInput
  /\ CanFind(World, player)
  /\ LET v == find_tqueue(World, player)
     IN  SetWorld(enqueue_input_task(v, QueueOf(v, player), Line(kind, 1), at_front))
  /\ TaskGoesOn /\ UNCHANGED external

\* flush_input()
FlushInput(player) ==
  /\ InTask("flush") /\ CanFind(World, player)
  /\ LET v == find_tqueue(World, player)
     IN  SetWorld(flush_input(v, QueueOf(v, player)))
  /\ TaskGoesOn /\ UNCHANGED external

\* read(conn, 1): take a line now, if there is one.
read_input_now(q) ==
  /\ InTask("read_now") /\ q \in Live(World)
  /\ LET i == InputIndex(queue[q], "DQ_INBAND")
     IN  /\ i # 0
         /\ SetWorld([World EXCEPT !.queue[q] = dequeue_input_task(@, i)])
  /\ TaskGoesOn /\ UNCHANGED external

\* set_connection_option(conn, "hold-input", value)
SetHoldInput(q, value) ==
  /\ InTask("hold_input") /\ q \in Live(World) /\ queue[q].connected
  /\ LET v == [World EXCEPT !.queue[q].hold = value]
     IN  SetWorld(IF ~value /\ queue[q].input # <<>> THEN ensure_usage(v, q) ELSE v)
  /\ TaskGoesOn /\ UNCHANGED external

\* set_connection_option(conn, "disable-oob", value)
SetDisableOob(q, value) ==
  /\ InTask("disable_oob") /\ q \in Live(World) /\ queue[q].connected
  /\ LET v == [World EXCEPT !.queue[q].no_oob = value]
         oob == \E line \in ToSet(queue[q].input) : line.kind = "OOB"
     IN  SetWorld(IF ~value /\ oob THEN ensure_usage(v, q) ELSE v)
  /\ TaskGoesOn /\ UNCHANGED external

\* switch_player(old, new)
SwitchPlayer(q, new) ==
  /\ InTask("switch_player")
  /\ q \in Live(World) /\ queue[q].connected /\ q # cur.closing
  /\ queue[q].player # new
  /\ FreeSlots(World) # {}
  /\ SetWorld(CloseExisting(TakePlayer(World, q, new), World, new))
  /\ TaskGoesOn /\ UNCHANGED external

\* The running task is over in world w, done or blocked: the connection it
\* was announcing is closed, or its queue is charged for it.
EndTask(w) ==
  /\ \/ /\ cur.q = 0
        /\ SetWorld(IF cur.closing = 0 THEN w ELSE free_task_queue(w, cur.closing))
     \/ /\ cur.q # 0
        /\ \E d \in Durations :
             /\ w.queue[cur.q].usage + d <= MaxUsage
             /\ SetWorld(DidOne(w, cur.q, d))
  /\ phase' = "loop" /\ cur' = NoTask
  /\ UNCHANGED <<now, unused, does>>

\* It returns, is aborted or kills itself.
Finish ==
  /\ phase = "task"
  /\ EndTask(World) /\ UNCHANGED external

\* suspend(): enqueue_suspended_task
Suspend(delay) ==
  /\ InTask("suspend") /\ KeepsSpare /\ CanFind(World, cur.progr)
  /\ check_user_task_limit(cur.progr)
  /\ EndTask(enqueue_waiting(World, Task("SUSPENDED", cur.id, cur.progr, StartTime(delay))))
  /\ UNCHANGED external

\* read() and read_http(): make_reading_task, make_http_task
Read(q, parsing) ==
  /\ InTask(IF parsing THEN "read_http" ELSE "read")
  /\ q \in Live(World)
  /\ queue[q].reading = NoVm /\ ~is_out_of_input(queue[q])
  /\ LET v == [World EXCEPT !.queue[q].reading = Vm(cur.id, cur.progr),
                            !.queue[q].parsing = parsing]
     IN  EndTask(IF queue[q].input # <<>> THEN ensure_usage(v, q) ELSE v)
  /\ UNCHANGED external

\* exec(): the task waits on the external queue of exec.cc.
Exec ==
  /\ InTask("exec")
  /\ external' = external \cup {Vm(cur.id, cur.progr)}
  /\ EndTask(World)

\* do_login_task: do_login_command returned a player.  The connection takes
\* the player over and player_connected runs a notifier verb.
FinishLogin(player, progr) ==
  /\ phase = "task" /\ cur.login
  /\ queue[cur.q].connected /\ queue[cur.q].player \in Conn
  /\ FreeSlots(World) # {}
  /\ SetWorld(CloseExisting(TakePlayer(World, cur.q, player), World, player))
  /\ cur' = Running(cur.id, progr, cur.q, FALSE, 0)
  /\ UNCHANGED <<external, phase, now, unused, does>>

-----------------------------------------------------------------------------
LoopStep ==
  \/ \E c \in unused : server_new_connection(c)
  \/ \E q \in Live(World), kind \in InputKinds : server_receive_line(q, kind)
  \/ \E q \in Live(World) : ReceiveFlushCommand(q)
  \/ \E q \in Queue, progr \in does.users : CloseConnection(q, progr)
  \/ \E progr \in does.users : ServerTask(progr)
  \/ \E vm \in external : ExecCompletes(vm)
  \/ Tick
  \/ CheckpointAndRestart

DispatchStep ==
  \/ RunReadyTasks
  \/ ReaderAtEof
  \/ ReaderGetsLine
  \/ ParserNeedsMore
  \/ \E progr \in does.users : LineStartsTask(progr)
  \/ \E blank \in BOOLEAN : LineWithoutTask(blank)
  \/ RunBackground
  \/ DeactivateHead
  \/ NothingReady

TaskStep ==
  \/ \E delay \in does.delays : Fork(delay)
  \/ \E i \in 1..Len(waiting) : KillWaiting(i)
  \/ \E q \in Queue : KillReading(q)
  \/ \E q \in Queue : \E i \in 1..Len(queue[q].bg) : KillReady(q, i)
  \/ \E vm \in external : KillExternal(vm)
  \/ \E i \in 1..Len(waiting) : Resume(i)
  \/ \E player \in does.users \cup does.conns, kind \in InputKinds, at_front \in BOOLEAN :
       ForceInput(player, kind, at_front)
  \/ \E player \in does.users \cup does.conns : FlushInput(player)
  \/ \E q \in Queue : read_input_now(q)
  \/ \E q \in Queue, value \in BOOLEAN : SetHoldInput(q, value)
  \/ \E q \in Queue, value \in BOOLEAN : SetDisableOob(q, value)
  \/ \E q \in Queue, new \in does.users : SwitchPlayer(q, new)
  \/ Finish
  \/ \E delay \in does.delays : Suspend(delay)
  \/ \E q \in Queue, parsing \in BOOLEAN : Read(q, parsing)
  \/ Exec
  \/ \E player \in does.users, progr \in does.users : FinishLogin(player, progr)

Next == LoopStep \/ DispatchStep \/ TaskStep

Spec == Init /\ [][Next]_vars

\* The main loop keeps going: it calls run_ready_tasks again and again, which
\* dispatches or returns, every MOO task ends (its ticks and seconds are
\* limited: see TurnEnds of Interpreter for the loop that escapes them), and time
\* passes.  Nothing is assumed of clients or of what tasks call.  Each conjunct
\* names the move of the server's thread it promises; in every state of an
\* instance without deadlock that move is possible.
FairSpec ==
  /\ Spec
  /\ SF_phase(phase = "loop" /\ phase' = "ready")
  /\ WF_phase(phase = "ready" /\ phase' \in {"loop", "task"})
  /\ WF_phase(phase = "task" /\ phase' = "loop")
  /\ SF_now(phase = "loop" /\ now < MaxTime /\ now' = now + 1)

-----------------------------------------------------------------------------
(* Properties.                                                             *)

Lines == [kind : InputKinds, len : {0, 1}]
Tasks == [kind : {"FORKED", "SUSPENDED"}, id : TaskId, progr : User, start : Nat]
Vms == [id : TaskId, progr : User]
TQueues ==
  [player : User \cup Conn \cup {NOTHING}, connected : BOOLEAN,
   input : Seq(Lines), susp : BOOLEAN, bg : Seq(Tasks),
   usage : -1..MaxUsage, num_bg : Int, hold : BOOLEAN, no_oob : BOOLEAN,
   reading : Vms \cup {NoVm}, parsing : BOOLEAN]
Worlds ==
  [queue : [Queue -> TQueues], active : Seq(Queue), idle : SUBSET Queue,
   waiting : Seq(Tasks)]

\* The types of the variables: what the structures of tasks.cc hold.
TypeOK ==
  /\ World \in Worlds
  /\ external \in SUBSET Vms
  /\ phase \in {"loop", "ready", "task"}
  /\ cur \in [id : TaskId \cup {0}, progr : User \cup {NOTHING},
              q : Queue \cup {0}, login : BOOLEAN, closing : Queue \cup {0}]
  /\ does \in Workloads
  /\ now \in 1..MaxTime /\ unused \in SUBSET Conn

\* No queue is on both lists or twice, it has usage NO_USAGE exactly when it is
\* on idle_tqueues, and the lists are sorted: active_tqueues by usage and
\* waiting_tasks by start time.
ListsSound(w) ==
  /\ \A i, j \in DOMAIN w.active :
       i < j => /\ w.active[i] # w.active[j]
                /\ w.queue[w.active[i]].usage <= w.queue[w.active[j]].usage
  /\ ToSet(w.active) \cap w.idle = {}
  /\ \A q \in ToSet(w.active) : w.queue[q].usage >= 0
  /\ \A q \in w.idle : w.queue[q].usage = NO_USAGE
  /\ \A i, j \in DOMAIN w.waiting :
       i < j => w.waiting[i].start <= w.waiting[j].start

\* No two tasks that wait, are ready, read, are on an external queue or run
\* have the same id.
OnePlace ==
  LET held == <<WaitingIds, BgIds(World), ReadingIds, ExternalIds, {cur.id}>>
  IN  /\ \A i, j \in DOMAIN waiting : waiting[i].id = waiting[j].id => i = j
      /\ \A p, q \in Live(World) :
           \A i \in DOMAIN queue[p].bg, j \in DOMAIN queue[q].bg :
             queue[p].bg[i].id = queue[q].bg[j].id => p = q /\ i = j
      /\ \A p, q \in Live(World) :
           queue[p].reading.id = queue[q].reading.id => p = q \/ queue[p].reading = NoVm
      /\ \A u, v \in external : u.id = v.id => u = v
      /\ \A i, j \in 1..5 : i # j => held[i] \cap held[j] = {}

\* The lists of tasks.cc stay lists, whatever the order of built-ins: no queue
\* is on both lists or twice, it has usage NO_USAGE exactly when it is on
\* idle_tqueues (ensure_usage unlinks it from there on that evidence alone), and
\* active_tqueues is sorted by usage; waiting_tasks is sorted by start time
\* (run_ready_tasks stops at the first task that is not due); while a task taken
\* from a queue runs, that queue stays the first (run_ready_tasks pops it with
\* `active_tqueues = tq->next'); and a task is in one place only.
QueuesSound ==
  /\ TypeOK
  /\ ListsSound(World)
  /\ phase = "task" /\ cur.q # 0 => active # <<>> /\ Head(active) = cur.q
  /\ OnePlace

\* tqueue.num_bg_tasks counts the tasks "in either here or waiting_tasks" on all
\* their ways between lists and queues, a queue is freed only when it counts none
\* (so every task that waits has a queue that counts it), and the ready tasks of a
\* queue are its player's.
Counted ==
  /\ \A q \in Live(World) :
       queue[q].player # NOTHING =>
         queue[q].num_bg =
           Len(queue[q].bg)
           + Cardinality({i \in DOMAIN waiting : waiting[i].progr = queue[q].player})
  /\ \A i \in DOMAIN waiting : \E q \in Live(World) : queue[q].player = waiting[i].progr
  /\ \A q \in Live(World) : \A i \in DOMAIN queue[q].bg : queue[q].bg[i].progr = queue[q].player

\* check_user_task_limit looks at num_bg_tasks of one queue, before the task is
\* queued: no programmer ever has more forked and suspended tasks, waiting or
\* ready in whatever queue, than queued_task_limit.
LimitKept ==
  TaskLimit >= 0 =>
    \A p \in User :
      Cardinality({t \in ToSet(waiting) \cup UNION {ToSet(queue[q].bg) : q \in Live(World)} :
                     t.progr = p}) <= TaskLimit

\* num_bg_tasks is right wherever a task goes, and the quota that rests on it holds:
\* a count that is one too low lets its player have a task too many.
CountsRight == Counted /\ LimitKept

\* No task is overlooked: queued_tasks(), which looks at the ready tasks of
\* active queues only, lists every task that waits, and a checkpoint saves every
\* one (write_task_queue looks at active queues for ready tasks and at idle ones
\* for readers).
TasksListed ==
  /\ QueuedIds \subseteq queued_tasks
  /\ phase = "loop" => {t.id : t \in ToSet(write_task_queue)} = QueuedIds

\* find_tqueue must have one answer: no two queues of the same player.
UniquePlayer ==
  \A p, q \in Live(World) :
    p # q => queue[p].player # queue[q].player \/ queue[p].player = NOTHING

\* "There was nothing to do on this tqueue, so deactivate it": run_ready_tasks
\* never looks at an idle queue, so one must hold no task that is ready and no
\* line that it would dispatch.  Every operation that makes work must activate.
\* (switch_player does not: it moves ready tasks to a queue that is idle.)
NoStrandedWork ==
  "switch_player" \notin does.calls =>
    \A q \in idle :
      /\ queue[q].bg = <<>>
      /\ \/ queue[q].input = <<>>
         \/ /\ queue[q].hold /\ queue[q].reading = NoVm
            /\ \/ queue[q].no_oob
               \/ \A line \in ToSet(queue[q].input) : line.kind # "OOB"

\* No queue is freed with a task blocked on it: free_tqueue would throw the
\* task's VM away.
ReaderNeverFreed ==
  [][\A q \in Live(World) :
       queue[q].reading # NoVm => q \in Live(World)']_vars

\* Clients and the tasks that wait for them are not forgotten: no dispatchable
\* work is on an idle queue; a task blocked in read() on a connection that is
\* gone, with no line left, is on an active queue, so that it is resumed with
\* E_INVARG; and a client whose input was suspended has a line queued, so that
\* dequeuing it resumes the input.
NobodyForgotten ==
  /\ NoStrandedWork
  /\ \A q \in idle : queue[q].reading # NoVm => ~is_out_of_input(queue[q])
  /\ \A q \in Live(World) :
       queue[q].susp /\ queue[q].connected => queue[q].input # <<>>

\* One step of the dispatching loop keeps the ready tasks of queue q back: it
\* takes a line of input of q, which goes before them, or it serves a queue that
\* has used less time.
KeptBack(q) ==
  /\ AtHead
  /\ \/ HeadQueue = q /\ Len(queue'[q].input) < Len(queue[q].input)
     \/ queue[HeadQueue].usage < queue[q].usage /\ phase' # "ready"

\* Waiting ends.  A background task that is ready runs or is killed, unless
\* run_ready_tasks for ever finds lines on its queue, or queues of less usage, to
\* serve before it: players whose usage is the same take turns.  A task that is
\* due leaves waiting_tasks, whatever happens.
ReadyTaskRuns ==
  \A id \in TaskId :
    /\ <>[](id \in BgIds(World)) =>
         []<><<\E q \in Queue : id \in {t.id : t \in ToSet(queue[q].bg)} /\ KeptBack(q)>>_vars
    /\ (\E t \in ToSet(waiting) : t.id = id /\ t.start <= now) ~> (id \notin WaitingIds)
=============================================================================
