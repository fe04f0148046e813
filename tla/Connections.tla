---------------------------- MODULE Connections ----------------------------
(***************************************************************************)
(* The connections of the server: shandles and listeners of server.cc over *)
(* the network handles of net_multi.cc, driven by main_loop, with the      *)
(* timers and the name-lookup processes they use.  loop.at says where the  *)
(* server's one thread is:                                                 *)
(*   "top"     at the start of main_loop, where clients do what they do;   *)
(*   "wait"    before network_process_io, in the middle of an iteration;   *)
(*   "accept", "io"  in network_process_io;                                *)
(*   "lookup", "connect"  waiting for the lookup process or in connect();  *)
(*   "dump"    about to write a checkpoint;                                *)
(*   "tasks"   in run_ready_tasks; "sweep" in the loop over connections;   *)
(*   "verb"    in a verb of the database, called by one of these.          *)
(* Input lines wait in the queue that module Tasks models; here they are   *)
(* counted.  A handle is a number that is never used again: using one that *)
(* is not in its list any more is undefined.                               *)
(***************************************************************************)
EXTENDS Network, NameLookup, Timers

CONSTANTS
  User,            \* objects with the user flag
  Port,            \* descriptions of listening points
  NotifierCalls,   \* built-ins that the user_* verbs call
  Workloads,       \* sets of what clients and tasks do
  ConnectTimeout,  \* connect_timeout, in seconds
  DumpInterval, OutboundTimeout, \* the seconds of the timers
  TaskSeconds,     \* fg_seconds
  MaxFds,          \* descriptors for connections and listeners
  MaxConn,         \* bound: handles made
  MaxRoom,         \* bound: what a socket takes at once
  MaxSent,         \* bound: lines notified to a client
  MaxBytes,        \* bound: bytes sent by clients
  MaxTasks,        \* bound: tasks that run
  MaxCalls,        \* bound: built-ins called by a verb
  MaxFaults,       \* bound: faults of the lookup processes
  MaxRestarts      \* bound: restarts of the server

ASSUME ConnectionsAssumption ==
  /\ User \subseteq Nat \ {0} /\ Port \subseteq Nat /\ 1 \in Port
  /\ {ConnectTimeout, DumpInterval, OutboundTimeout, TaskSeconds} \subseteq Nat \ {0}
  /\ MaxConn \in Nat /\ MaxRoom \in Nat

VARIABLES
  sh, shandles,  \* the server's handles and the list all_shandles
  nh, nhandles,  \* the network's handles and the list all_nhandles
  listeners,     \* all_slisteners and all_nlisteners
  backlog,       \* ports where a client waits to be accepted
  loop,          \* where the thread is; the cursors of the loops
  job,           \* the verb that runs and what follows it
  tm,            \* the timers
  db,            \* the database: users that exist, users it takes to be online
  disk,          \* the last dump: database and connections
  asked,         \* the last name lookup: its tag, and the tag answered
  did,           \* handles made, bytes sent, tasks run, restarts: for the bounds
  does           \* the workload

vars == <<sh, shandles, nh, nhandles, listeners, backlog, loop, job, tm, db,
          disk, asked, did, does, nlvars>>

Handle == 1..MaxConn
SYSTEM_OBJECT == 0
Gone == [player |-> 0]

Rooms == IF "output" \in does THEN 0..MaxRoom ELSE {MaxRoom}

\* The listener the server starts with prints messages only if output matters.
Listener(port) == [port |-> port, oid |-> IF port = 1 THEN SYSTEM_OBJECT ELSE port,
                   print |-> "output" \in does]

At(where) == [at |-> where, h |-> 0, next |-> 0, rd |-> {}, wr |-> {}, ports |-> <<>>,
              flush |-> FALSE, checkpoint |-> FALSE, down |-> FALSE]
Go(where) == loop' = [loop EXCEPT !.at = where]
NoJob == [name |-> "none", h |-> 0, then |-> "none", calls |-> 0, used |-> 0, open |-> 0]

checkpoint_timer == "checkpoint_timer"
timeout_proc == "timeout_proc"

Init ==
  /\ does \in Workloads
  /\ sh = [h \in Handle |-> Gone] /\ shandles = <<>>
  /\ nh = [h \in Handle |-> Gone] /\ nhandles = <<>>
  /\ listeners = <<Listener(1)>> /\ backlog = {}
  /\ loop = At("top") /\ job = NoJob
  /\ tm = set_timer(NoTimers, DumpInterval, checkpoint_timer)
  /\ db = [users |-> User, online |-> {}]
  /\ disk = [db |-> db, conns |-> {}]
  /\ asked = [tag |-> 0, got |-> 0]
  /\ did = [conns |-> 0, tasks |-> 0, bytes |-> 0, restarts |-> 0, unconnected |-> -2]
  /\ NameLookupInit /\ faults = IF "faults" \in does THEN MaxFaults ELSE 0

-----------------------------------------------------------------------------
(* Handles.                                                                *)

find_shandle(player) ==
  LET has == {i \in DOMAIN shandles : sh[shandles[i]].player = player}
  IN  IF has = {} THEN 0 ELSE shandles[CHOOSE i \in has : \A j \in has : i <= j]
is_player_connected(player) ==
  find_shandle(player) # 0 /\ ~sh[find_shandle(player)].disconnect_me

Without(list, h) ==
  IF h \in ToSet(list) THEN RemoveAt(list, CHOOSE i \in DOMAIN list : list[i] = h) ELSE list
NextOf(list, h) ==
  LET i == CHOOSE k \in DOMAIN list : list[k] = h
  IN  IF i < Len(list) THEN list[i + 1] ELSE 0

\* free_shandle and close_nhandle: what the socket takes of the output goes out,
\* and the rest is dropped with the handle.
Freed(h) ==
  /\ sh' = [sh EXCEPT ![h] = Gone] /\ shandles' = Without(shandles, h)
  /\ nh' = [nh EXCEPT ![h] = Gone] /\ nhandles' = Without(nhandles, h)

\* make_new_connection with server_new_connection: the handle goes to the head of
\* both lists.  A connection with a listener begins with an empty line queued
\* and takes no input until that has been dequeued.
NewConnection(oid, print, outbound, listens) ==
  LET h == did.conns + 1
  IN  /\ sh' = [sh EXCEPT ![h] =
           [player |-> did.unconnected, listener |-> oid, logged |-> FALSE, age |-> 0,
            disconnect_me |-> FALSE, outbound |-> outbound, print |-> print,
            lines |-> IF listens THEN 1 ELSE 0]]
      /\ nh' = [nh EXCEPT ![h] = [new_nhandle EXCEPT !.input_suspended = listens]]
      /\ shandles' = <<h>> \o shandles /\ nhandles' = <<h>> \o nhandles
      /\ did' = [did EXCEPT !.conns = h, !.unconnected = @ - 1]

FdsUsed == Len(nhandles) + Len(listeners)

\* send_message, where the listener wants messages printed.
Told(n, print, room) == IF print /\ n.sent < MaxSent THEN enqueue_output(n, TRUE, room).n ELSE n

-----------------------------------------------------------------------------
(* Verbs.  What a user_* verb tells the database is kept in db.online.     *)

Offline(name) == name \in {"user_disconnected", "user_client_disconnected"}
Online(name) == name \in {"user_connected", "user_created", "user_reconnected"}

\* call_notifier, and tasks: the verb starts with its CPU timer set.
Run(name, player, h, then, d) ==
  /\ job' = [NoJob EXCEPT !.name = name, !.h = h, !.then = then,
                          !.calls = MaxCalls]
  /\ db' = [d EXCEPT !.online = IF Offline(name) THEN @ \ {player}
                                ELSE IF Online(name) THEN @ \cup {player} ELSE @]
  /\ tm' = IF "cpu" \in does
           THEN set_virtual_timer(cancel_virtual_timer(tm), 2 * TaskSeconds) ELSE tm
Stop ==
  /\ job' = NoJob
  /\ tm' = IF "cpu" \in does THEN cancel_virtual_timer(tm) ELSE tm

\* The cursor moves on: h->next was read before the verb ran.
Moved(list, next) ==
  IF next = 0 THEN [loop EXCEPT !.h = 0, !.next = 0]
  ELSE IF next \notin ToSet(list) THEN [loop EXCEPT !.at = "undefined"]
  ELSE [loop EXCEPT !.h = next, !.next = NextOf(list, next)]

-----------------------------------------------------------------------------
(* Clients, time and signals.                                              *)

Client(act) == loop.at = "top" /\ act \in does

ClientConnects(port) ==
  /\ loop.at = "top" /\ port \notin backlog
  /\ \E i \in DOMAIN listeners : listeners[i].port = port
  /\ did.conns + Cardinality(backlog) < IF "alone" \in does THEN 1 ELSE MaxConn
  /\ backlog' = backlog \cup {port}
  /\ UNCHANGED <<sh, shandles, nh, nhandles, listeners, loop, job, tm, db, disk, asked, did, does, nlvars>>

ClientSends(h, c) ==
  /\ Client("send") /\ h \in ToSet(nhandles) /\ ~nh[h].hungup
  /\ did.bytes < MaxBytes /\ did' = [did EXCEPT !.bytes = @ + 1]
  /\ nh' = [nh EXCEPT ![h].wire = Append(@, c)]
  /\ UNCHANGED <<sh, shandles, nhandles, listeners, backlog, loop, job, tm, db, disk, asked, does, nlvars>>

ClientHangsUp(h) ==
  /\ Client("hangup") /\ h \in ToSet(nhandles) /\ ~nh[h].hungup
  /\ nh' = [nh EXCEPT ![h].hungup = TRUE]
  /\ UNCHANGED <<sh, shandles, nhandles, listeners, backlog, loop, job, tm, db, disk, asked, did, does, nlvars>>

\* A second passes; it may pass during select() or while a verb runs.
Tick ==
  /\ loop.at \in {"top", "connect"} \/ (loop.at = "verb" /\ "cpu" \in does)
  /\ sh' = [h \in Handle |-> IF sh[h] = Gone \/ "timeout" \notin does THEN sh[h]
                             ELSE [sh[h] EXCEPT !.age = IF @ > ConnectTimeout THEN @ ELSE @ + 1]]
  /\ tm' = IF "cpu" \in does THEN SecondPasses(tm) ELSE tm
  /\ <<sh', tm'>> # <<sh, tm>>
  /\ UNCHANGED <<shandles, nh, nhandles, listeners, backlog, loop, job, db, disk, asked, did, does, nlvars>>

\* SIGALRM: the first timer's procedure runs.  timeout_proc throws out of
\* connect(), whose socket is closed: the call fails and the verb goes on.
Alarm ==
  /\ tm.sigalrm
  /\ tm' = wakeup_call(tm)
  /\ loop' = CASE Head(tm.active).proc = checkpoint_timer -> [loop EXCEPT !.checkpoint = TRUE]
               [] OTHER -> [loop EXCEPT !.at = "verb"]
  /\ job' = [job EXCEPT !.used = 0]
  /\ UNCHANGED <<sh, shandles, nh, nhandles, listeners, backlog, db, disk, asked, did, does, nlvars>>

\* A verb uses CPU time; at the end of its time it is aborted.
Compute ==
  /\ loop.at = "verb" /\ "cpu" \in does /\ ~tm.sigvtalrm /\ tm.virtual # NoAlarm
  /\ tm' = HalfSecondOfCpu(tm)
  /\ job' = [job EXCEPT !.used = @ + 1]
  /\ UNCHANGED <<sh, shandles, nh, nhandles, listeners, backlog, loop, db, disk, asked, did, does, nlvars>>

-----------------------------------------------------------------------------
(* network_process_io.                                                     *)

\* mplex_wait: what is readable or writable now.  Descriptors that are made
\* later in this pass are not among them.
Select ==
  /\ loop.at = "wait" \/ (loop.at = "top" /\ ~loop.down /\ ~loop.checkpoint)
  /\ loop' = [loop EXCEPT
       !.at = "accept", !.ports = SelectSeq([i \in DOMAIN listeners |-> listeners[i].port],
                                            LAMBDA p : p \in backlog),
       !.rd = {h \in ToSet(nhandles) : ~nh[h].input_suspended /\ (nh[h].wire # <<>> \/ nh[h].hungup)},
       !.wr = {h \in ToSet(nhandles) : nh[h].output # <<>>}]
  /\ UNCHANGED <<sh, shandles, nh, nhandles, listeners, backlog, job, tm, db, disk, asked, did, does, nlvars>>

\* Requests are told apart by tags that go round; at most one is unanswered.
NextTag == (asked.tag % 3) + 1

\* accept_new_connection: the name of the client's host is looked up first, even
\* if no descriptor is left and the client is only to be told so.
AcceptStart ==
  /\ loop.at = "accept" /\ loop.ports # <<>>
  /\ Ask("name", NextTag)
  /\ asked' = [tag |-> NextTag, got |-> 0]
  /\ Go("lookup")
  /\ UNCHANGED <<sh, shandles, nh, nhandles, listeners, backlog, job, tm, db, disk, did, does>>

\* lookup_name_from_addr returns: the connection is made, or with every descriptor
\* in use (PA_FULL) refused on the pocket descriptor and closed.
AcceptFinish ==
  /\ loop.at = "lookup" /\ job.open = 0
  /\ TakeAnswer("name")
  /\ asked' = [asked EXCEPT !.got = Answered("name")]
  /\ backlog' = backlog \ {Head(loop.ports)}
  /\ loop' = [loop EXCEPT !.at = "accept", !.ports = Tail(@)]
  /\ LET l == CHOOSE x \in ToSet(listeners) : x.port = Head(loop.ports)
     IN  IF FdsUsed < MaxFds /\ did.conns < MaxConn THEN NewConnection(l.oid, l.print, FALSE, TRUE)
         ELSE UNCHANGED <<sh, shandles, nh, nhandles, did>>
  /\ UNCHANGED <<listeners, job, tm, db, disk, does>>

AcceptDone ==
  /\ loop.at = "accept" /\ loop.ports = <<>>
  /\ loop' = [Moved(nhandles, IF nhandles = <<>> THEN 0 ELSE Head(nhandles)) EXCEPT !.at = "io"]
  /\ UNCHANGED <<sh, shandles, nh, nhandles, listeners, backlog, job, tm, db, disk, asked, did, does, nlvars>>

\* One handle: input first, then output unless the input failed.
Served(h, room) ==
  LET in == IF h \in loop.rd THEN pull_input(nh[h]) ELSE [n |-> nh[h], ok |-> TRUE]
  IN  IF in.ok /\ h \in loop.wr THEN push_output(in.n, room) ELSE in

\* The handle lives on; its new lines are queued (server_receive_line).
IoServes(room) ==
  /\ loop.at = "io" /\ loop.h # 0
  /\ LET h == loop.h
         n == Served(h, room).n
         new == Len(n.lines) - Len(nh[h].lines)
     IN  /\ Served(h, room).ok
         /\ nh' = [nh EXCEPT ![h] = n]
         /\ sh' = [sh EXCEPT ![h].lines = @ + new, ![h].age = IF new > 0 THEN 0 ELSE @]
  /\ loop' = Moved(nhandles, loop.next)
  /\ UNCHANGED <<shandles, nhandles, listeners, backlog, job, tm, db, disk, asked, did, does, nlvars>>

\* server_close: the client is gone.  The verb runs with the connection marked;
\* both handles are freed when it is over.
IoCloses(room) ==
  /\ loop.at = "io" /\ loop.h # 0
  /\ ~Served(loop.h, room).ok
  /\ sh' = [sh EXCEPT ![loop.h].disconnect_me = TRUE]
  /\ Run("user_client_disconnected", sh[loop.h].player, loop.h, "close", db)
  /\ Go("verb")
  /\ UNCHANGED <<shandles, nh, nhandles, listeners, backlog, disk, asked, did, does, nlvars>>

IoDone ==
  /\ loop.at = "io" /\ loop.h = 0
  /\ Go(IF loop.flush THEN "dump" ELSE "tasks")
  /\ UNCHANGED <<sh, shandles, nh, nhandles, listeners, backlog, job, tm, db, disk, asked, did, does, nlvars>>

-----------------------------------------------------------------------------
(* Checkpoints, and the end of the server.                                 *)

\* A checkpoint was asked for: #0:checkpoint_started, a pass over the network,
\* and then the dump.
CheckpointStarted ==
  /\ loop.at = "top" /\ loop.checkpoint /\ ~loop.down
  /\ Run("checkpoint_started", 0, 0, "wait", db)
  /\ loop' = [loop EXCEPT !.at = "verb", !.flush = TRUE, !.checkpoint = FALSE]
  /\ UNCHANGED <<sh, shandles, nh, nhandles, listeners, backlog, disk, asked, did, does, nlvars>>

\* A wrong dump: connections that are about to be closed are left out.
write_connections_kept == {sh[h].player : h \in {x \in ToSet(shandles) : ~sh[x].disconnect_me}}
write_active_connections == {sh[h].player : h \in ToSet(shandles)}

set_checkpoint_timer == set_timer(cancel_timer(tm, checkpoint_timer), DumpInterval, checkpoint_timer)

Dump ==
  /\ loop.at = "dump"
  /\ disk' = [db |-> db, conns |-> write_active_connections]
  /\ tm' = IF "cpu" \in does THEN set_checkpoint_timer ELSE tm
  /\ loop' = [loop EXCEPT !.at = "wait", !.flush = FALSE]
  /\ UNCHANGED <<sh, shandles, nh, nhandles, listeners, backlog, job, db, asked, did, does, nlvars>>

\* The server starts with what the dump says.  read_active_connections and
\* main_loop: user_disconnected for every connection there was.
Restart(saved) ==
  /\ did.restarts < MaxRestarts
  /\ sh' = [h \in Handle |-> Gone] /\ shandles' = <<>>
  /\ nh' = [h \in Handle |-> Gone] /\ nhandles' = <<>>
  /\ listeners' = <<Listener(1)>> /\ backlog' = {}
  /\ loop' = At("top") /\ job' = NoJob
  /\ tm' = set_timer(NoTimers, DumpInterval, checkpoint_timer)
  /\ db' = [saved.db EXCEPT !.online = @ \ saved.conns]
  /\ disk' = saved
  /\ asked' = [tag |-> 0, got |-> 0]
  /\ did' = [did EXCEPT !.restarts = @ + 1, !.unconnected = -2]
  /\ server_end' = [dead |-> FALSE, to |-> <<>>, from |-> <<>>]
  /\ middle' = [at |-> "read", pid |-> TRUE, job |-> NoReq]
  /\ slave' = NewSlave
  /\ UNCHANGED <<faults, does>>

\* The machine goes down: what was not dumped is lost.
Crash == "crash" \in does /\ Restart(disk)

\* panic, in the middle of a verb: a dump of the database as it is then.
panic ==
  /\ "crash" \in does /\ loop.at = "verb"
  /\ Restart([db |-> db, conns |-> write_active_connections])

\* shutdown() or a signal ended main_loop: network_shutdown, and the final dump.
Shutdown ==
  /\ loop.at = "top" /\ loop.down
  /\ Restart([db |-> db, conns |-> write_active_connections])

-----------------------------------------------------------------------------
(* run_ready_tasks, as far as connections go.                              *)

\* A line of input runs a command, or do_login_command on a connection that has
\* not logged in.  Taking it off the queue lets the network read again.
RunInput(h) ==
  /\ loop.at = "tasks" /\ h \in ToSet(shandles) /\ sh[h].lines > 0
  /\ sh' = [sh EXCEPT ![h].lines = @ - 1]
  /\ nh' = [nh EXCEPT ![h].input_suspended = FALSE]
  /\ IF sh[h].player < 0 THEN Run("do_login_command", 0, h, "login", db)
     ELSE Run("command", 0, h, "tasks", db)
  /\ Go("verb")
  /\ UNCHANGED <<shandles, nhandles, listeners, backlog, disk, asked, did, does, nlvars>>

\* A task that was forked or suspended.
RunTask ==
  /\ loop.at = "tasks" /\ did.tasks < MaxTasks
  /\ did' = [did EXCEPT !.tasks = @ + 1]
  /\ Run("task", 0, 0, "tasks", db)
  /\ Go("verb")
  /\ UNCHANGED <<sh, shandles, nh, nhandles, listeners, backlog, disk, asked, does, nlvars>>

TasksDone ==
  /\ loop.at = "tasks"
  /\ loop' = [Moved(shandles, IF shandles = <<>> THEN 0 ELSE Head(shandles)) EXCEPT !.at = "sweep"]
  /\ UNCHANGED <<sh, shandles, nh, nhandles, listeners, backlog, job, tm, db, disk, asked, did, does, nlvars>>

-----------------------------------------------------------------------------
(* The loop over connections at the end of main_loop.                      *)

Sweeping == loop.at = "sweep" /\ loop.h # 0
\* The test of connection_time turned round.
TimedOutAfterLogin(h) == ~sh[h].outbound /\ sh[h].logged /\ sh[h].age > ConnectTimeout
TimedOut(h) == ~sh[h].outbound /\ ~sh[h].logged /\ sh[h].age > ConnectTimeout
Recycled(h) == sh[h].logged /\ sh[h].player \notin db.users

\* Timed out before logging in, or booted: the verb runs first.
SweepTells ==
  /\ Sweeping
  /\ TimedOut(loop.h) \/ (sh[loop.h].disconnect_me /\ ~Recycled(loop.h))
  /\ Run("user_disconnected", sh[loop.h].player, loop.h, "swept", db)
  /\ Go("verb")
  /\ UNCHANGED <<sh, shandles, nh, nhandles, listeners, backlog, disk, asked, did, does, nlvars>>

SweepRecycled ==
  /\ Sweeping /\ ~TimedOut(loop.h) /\ Recycled(loop.h)
  /\ Freed(loop.h)
  /\ loop' = Moved(shandles', loop.next)
  /\ UNCHANGED <<listeners, backlog, job, tm, db, disk, asked, did, does, nlvars>>

SweepKeeps ==
  /\ Sweeping /\ ~TimedOut(loop.h) /\ ~Recycled(loop.h) /\ ~sh[loop.h].disconnect_me
  /\ loop' = Moved(shandles, loop.next)
  /\ UNCHANGED <<sh, shandles, nh, nhandles, listeners, backlog, job, tm, db, disk, asked, did, does, nlvars>>

SweepDone ==
  /\ loop.at = "sweep" /\ loop.h = 0
  /\ Go("top")
  /\ UNCHANGED <<sh, shandles, nh, nhandles, listeners, backlog, job, tm, db, disk, asked, did, does, nlvars>>

-----------------------------------------------------------------------------
(* Built-in functions that a verb calls.                                   *)

Notifier == Offline(job.name) \/ Online(job.name)
InVerb(call) ==
  /\ loop.at = "verb" /\ call \in does /\ job.calls > 0 /\ ~tm.sigvtalrm
  /\ Notifier => call \in NotifierCalls
Called == job' = [job EXCEPT !.calls = @ - 1]

bf_notify(h, no_flush, room) ==
  /\ InVerb("notify")
  /\ h \in ToSet(shandles) /\ ~sh[h].disconnect_me /\ nh[h].sent < MaxSent
  /\ nh' = [nh EXCEPT ![h] = enqueue_output(@, ~no_flush, room).n]
  /\ UNCHANGED <<sh, shandles, nhandles, listeners, backlog, loop, job, tm, db, disk, asked, did, does, nlvars>>

\* A wrong version: the connection is closed then and there.
boot_player_at_once(h) ==
  /\ InVerb("boot") /\ Called
  /\ h \in ToSet(shandles)
  /\ Freed(h)
  /\ UNCHANGED <<listeners, backlog, loop, tm, db, disk, asked, did, does, nlvars>>
boot_player(h) ==
  /\ InVerb("boot") /\ Called
  /\ h \in ToSet(shandles)
  /\ sh' = [sh EXCEPT ![h].disconnect_me = TRUE]
  /\ UNCHANGED <<shandles, nh, nhandles, listeners, backlog, loop, tm, db, disk, asked, did, does, nlvars>>

\* The handle of a player is given to another; a connection the other had is
\* closed without a word to the database (player_connected_silent), which is
\* what the verb that calls it takes care of.
bf_switch_player(old, new) ==
  /\ InVerb("switch") /\ Called
  /\ old # new /\ is_player_connected(old) /\ new \in db.users
  /\ LET h == find_shandle(old)
         existing == find_shandle(new)
         switched == [sh EXCEPT ![h].player = new, ![h].logged = TRUE]
     IN  /\ sh' = IF existing = 0 THEN switched ELSE [switched EXCEPT ![existing] = Gone]
         /\ nh' = IF existing = 0 THEN nh ELSE [nh EXCEPT ![existing] = Gone]
         /\ shandles' = Without(shandles, existing) /\ nhandles' = Without(nhandles, existing)
  /\ db' = [db EXCEPT !.online = (@ \ {old}) \cup {new}]
  /\ UNCHANGED <<listeners, backlog, loop, tm, disk, asked, did, does, nlvars>>

\* recycle() of a user.
RecycleUser(u) ==
  /\ InVerb("recycle") /\ Called
  /\ u \in db.users
  /\ db' = [db EXCEPT !.users = @ \ {u}]
  /\ UNCHANGED <<sh, shandles, nh, nhandles, listeners, backlog, loop, tm, disk, asked, did, does, nlvars>>

bf_set_connection_option(h, value) ==
  /\ InVerb("binary") /\ Called
  /\ h \in ToSet(shandles) /\ ~sh[h].disconnect_me
  /\ nh' = [nh EXCEPT ![h].binary = value]
  /\ UNCHANGED <<sh, shandles, nhandles, listeners, backlog, loop, tm, db, disk, asked, did, does, nlvars>>

find_slistener(port) == {i \in DOMAIN listeners : listeners[i].port = port}

bf_listen(port) ==
  /\ InVerb("listen") /\ Called
  /\ find_slistener(port) = {} /\ FdsUsed < MaxFds
  /\ listeners' = <<Listener(port)>> \o listeners
  /\ UNCHANGED <<sh, shandles, nh, nhandles, backlog, loop, tm, db, disk, asked, did, does, nlvars>>

bf_unlisten(port) ==
  /\ InVerb("listen") /\ Called
  /\ find_slistener(port) # {}
  /\ listeners' = SelectSeq(listeners, LAMBDA l : l.port # port)
  /\ backlog' = backlog \ {port}
  /\ UNCHANGED <<sh, shandles, nh, nhandles, loop, tm, db, disk, asked, did, does, nlvars>>

bf_dump_database ==
  /\ InVerb("dump") /\ Called
  /\ loop' = [loop EXCEPT !.checkpoint = TRUE]
  /\ UNCHANGED <<sh, shandles, nh, nhandles, listeners, backlog, tm, db, disk, asked, did, does, nlvars>>

bf_shutdown ==
  /\ InVerb("shutdown") /\ Called
  /\ did.restarts < MaxRestarts
  /\ loop' = [loop EXCEPT !.down = TRUE]
  /\ UNCHANGED <<sh, shandles, nh, nhandles, listeners, backlog, tm, db, disk, asked, did, does, nlvars>>

\* open_network_connection: the address is looked up ...
OpenStart ==
  /\ InVerb("open") /\ did.conns < MaxConn
  /\ job' = [job EXCEPT !.calls = @ - 1, !.open = 1]
  /\ Ask("addr", NextTag)
  /\ asked' = [tag |-> NextTag, got |-> 0]
  /\ Go("lookup")
  /\ UNCHANGED <<sh, shandles, nh, nhandles, listeners, backlog, tm, db, disk, did, does>>

\* ... and connect() is called with a timer running.  Without the intermediary
\* only numeric addresses are known.
OpenConnects(numeric) ==
  /\ loop.at = "lookup" /\ job.open = 1
  /\ TakeAnswer("addr")
  /\ asked' = [asked EXCEPT !.got = Answered("addr")]
  /\ IF (Found("addr") \/ (server_end.dead /\ numeric)) /\ FdsUsed < MaxFds
     THEN Go("connect") /\ tm' = set_timer(tm, OutboundTimeout, timeout_proc)
     ELSE Go("verb") /\ UNCHANGED tm
  /\ job' = [job EXCEPT !.open = 0]
  /\ UNCHANGED <<sh, shandles, nh, nhandles, listeners, backlog, db, disk, did, does>>

\* connect() returned before the timer went off.
OpenFinish(ok) ==
  /\ loop.at = "connect" /\ ~tm.sigalrm
  /\ tm' = cancel_timer(tm, timeout_proc)
  /\ IF ok THEN NewConnection(SYSTEM_OBJECT, FALSE, TRUE, FALSE)
     ELSE UNCHANGED <<sh, shandles, nh, nhandles, did>>
  /\ Go("verb")
  /\ UNCHANGED <<listeners, backlog, job, db, disk, asked, does, nlvars>>

-----------------------------------------------------------------------------
(* The end of a verb, and what its caller does next.                       *)

Ends(then) == loop.at = "verb" /\ job.then = then

\* server_close and network_process_io free the handle and go on.
EndClose ==
  /\ Ends("close") /\ Stop
  /\ Freed(job.h)
  /\ loop' = IF job.h \in ToSet(shandles) THEN [Moved(nhandles', loop.next) EXCEPT !.at = IF @ = "verb" THEN "io" ELSE @]
             ELSE [loop EXCEPT !.at = "undefined"]
  /\ UNCHANGED <<listeners, backlog, db, disk, asked, did, does, nlvars>>

\* main_loop prints a message, frees the handle and goes on.
EndSwept ==
  /\ Ends("swept") /\ Stop
  /\ Freed(job.h)
  /\ loop' = IF job.h \in ToSet(shandles) THEN [Moved(shandles', loop.next) EXCEPT !.at = IF @ = "verb" THEN "sweep" ELSE @]
             ELSE [loop EXCEPT !.at = "undefined"]
  /\ UNCHANGED <<listeners, backlog, db, disk, asked, did, does, nlvars>>

EndTask ==
  /\ (Ends("tasks") \/ Ends("wait")) /\ Stop
  /\ Go(job.then)
  /\ UNCHANGED <<sh, shandles, nh, nhandles, listeners, backlog, db, disk, asked, did, does, nlvars>>

\* do_login_command returned: no user, or the connection is no longer what it was.
Logs(u) == job.h \in ToSet(shandles) /\ sh[job.h].player < 0 /\ u \in db.users
EndLoginFails ==
  /\ Ends("login") /\ Stop
  /\ Go("tasks")
  /\ UNCHANGED <<sh, shandles, nh, nhandles, listeners, backlog, db, disk, asked, did, does, nlvars>>

\* player_connected: a user that was connected already is redirected; the old
\* connection is gone before any verb runs.
player_connected(u, room) ==
  /\ Ends("login") /\ "login" \in does /\ Logs(u)
  /\ LET h == job.h
         existing == find_shandle(u)
         moved == existing # 0 /\ sh[existing].listener # sh[h].listener
         on == [sh EXCEPT ![h].player = u, ![h].logged = TRUE, ![h].disconnect_me = @ \/ moved]
         told == [nh EXCEPT ![h] = Told(@, sh[h].print, room)]
     IN  /\ sh' = IF existing = 0 THEN on ELSE [on EXCEPT ![existing] = Gone]
         /\ nh' = IF existing = 0 THEN told ELSE [told EXCEPT ![existing] = Gone]
         /\ shandles' = Without(shandles, existing) /\ nhandles' = Without(nhandles, existing)
         /\ IF existing = 0 THEN Run("user_connected", u, h, "tasks", db)
            ELSE IF moved THEN Run("user_client_disconnected", u, h, "connected", db)
            ELSE Run("user_reconnected", u, h, "tasks", db)
  /\ UNCHANGED <<listeners, backlog, loop, disk, asked, did, does, nlvars>>

\* The listener of the old connection has been told; now that of the new one.
EndRedirected ==
  /\ Ends("connected")
  /\ IF job.h \in ToSet(shandles)
     THEN /\ sh' = [sh EXCEPT ![job.h].disconnect_me = FALSE]
          /\ Run("user_connected", sh[job.h].player, job.h, "tasks", db)
          /\ UNCHANGED loop
     ELSE Go("undefined") /\ Stop /\ UNCHANGED <<sh, db>>
  /\ UNCHANGED <<shandles, nh, nhandles, listeners, backlog, disk, asked, did, does, nlvars>>

-----------------------------------------------------------------------------
ClientStep ==
  \/ \E port \in Port : ClientConnects(port)
  \/ \E h \in Handle : ClientHangsUp(h) \/ \E c \in {"x", "CR", "LF", "BS", "ctl"} : ClientSends(h, c)

LoopStep ==
  \/ Select \/ AcceptStart \/ AcceptFinish \/ AcceptDone \/ IoDone
  \/ \E room \in Rooms : IoServes(room) \/ IoCloses(room)
  \/ CheckpointStarted \/ Dump \/ Shutdown
  \/ (\E h \in Handle : RunInput(h)) \/ RunTask \/ TasksDone
  \/ SweepTells \/ SweepRecycled \/ SweepKeeps \/ SweepDone

CallStep ==
  \/ \E h \in Handle, room \in Rooms, no_flush \in BOOLEAN : bf_notify(h, no_flush, room)
  \/ \E h \in Handle : boot_player(h) \/ \E value \in BOOLEAN : bf_set_connection_option(h, value)
  \/ \E new \in User : RecycleUser(new)
                       \/ \E h \in ToSet(shandles) : bf_switch_player(sh[h].player, new)
  \/ \E port \in Port : bf_listen(port) \/ bf_unlisten(port)
  \/ bf_dump_database \/ bf_shutdown \/ Compute
  \/ OpenStart \/ \E b \in BOOLEAN : OpenConnects(b) \/ OpenFinish(b)

EndStep ==
  \/ EndClose \/ EndSwept \/ EndTask \/ EndLoginFails \/ EndRedirected
  \/ \E u \in User, room \in Rooms : player_connected(u, room)

Elsewhere == <<sh, shandles, nh, nhandles, listeners, backlog, loop, job, tm, db, disk, asked, did, does>>
HelperProcesses == HelperStep /\ UNCHANGED Elsewhere
HelpersFail == HelperFault /\ UNCHANGED Elsewhere

ServerStep == LoopStep \/ CallStep \/ EndStep \/ Alarm

Next == ClientStep \/ Tick \/ ServerStep \/ HelperProcesses \/ HelpersFail \/ Crash \/ panic

Spec == Init /\ [][Next]_vars

\* The server's thread and the helper processes are scheduled, and time passes
\* again and again while the server waits in select().
FairSpec ==
  Spec /\ WF_vars(ServerStep) /\ WF_vars(HelperProcesses) /\ SF_vars(Tick)

-----------------------------------------------------------------------------
\* connected_players(): connections that are about to be closed are not shown.
bf_connected_players ==
  {sh[h].player : h \in {x \in ToSet(shandles) : sh[x].logged /\ ~sh[x].disconnect_me}}

\* What the database has been told of its users agrees with the connections each
\* time the main loop begins, whatever was redirected, booted, recycled or closed
\* by the client, and after a restart from any dump (call_notifier in main_loop,
\* server_close and player_connected).
OnlineKnown ==
  loop.at = "top" =>
    /\ db.online \cap db.users = {sh[h].player : h \in ToSet(shandles)} \cap db.users
    /\ bf_connected_players \subseteq db.online

\* The two handles of a connection exist together, no two connections have one
\* player while a verb runs, and the loops that run verbs never follow a pointer
\* to a handle that has been freed.
HandlesSound ==
  /\ loop.at # "undefined"
  /\ shandles = nhandles
  /\ \A g, h \in ToSet(shandles) : g # h => sh[g].player # sh[h].player

\* enqueue_output and push_output lose lines only when the queue is full, count
\* them, and tell the client before it gets another line.
OutputTold == \A h \in ToSet(nhandles) : LossTold(nh[h])

\* pull_input finds the client's lines however the network cuts them up.
LinesFramed == \A h \in ToSet(nhandles) : Framed(nh[h])

\* The answer to a name lookup is never that to an earlier request, although
\* processes time out, die and are started again in between.
AnswersMatch == asked.got \in {0, asked.tag}

\* No timer is lost and no signal finds the list empty (timers.cc); and a verb
\* uses no more than its seconds of CPU from its start or the last SIGALRM.
TimersKept == Armed(tm) /\ job.used <= 2 * TaskSeconds

NotLoggedIn(h) == h \in ToSet(shandles) /\ ~sh[h].logged /\ ~sh[h].outbound
\* A connection that does not log in is closed, and a lookup comes to an end.
NobodyLingers ==
  /\ \A h \in Handle : NotLoggedIn(h) /\ "timeout" \in does ~> ~NotLoggedIn(h)
  /\ loop.at = "lookup" ~> loop.at # "lookup"
=============================================================================
