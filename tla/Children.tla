------------------------------ MODULE Children ------------------------------
(***************************************************************************)
(* The children of the server: the processes started by exec() (exec.cc),  *)
(* the checkpointers, and the handler of SIGCHLD that tells them apart     *)
(* (server.cc).  The handler runs at any time, except in the code between  *)
(* BLOCK_SIGCHLD and UNBLOCK_SIGCHLD, which is one action here.            *)
(* A task that waits on exec() is named by the pid of its process.  What   *)
(* the process reads and writes is left out.  An exec() that finds no slot *)
(* (E_QUOTA) or cannot fork (E_EXEC) leaves every variable alone.          *)
(***************************************************************************)
EXTENDS Integers, FiniteSets

CONSTANTS
  Slot,           \* indexes of process_table
  Pid,            \* bound: processes ever forked; no pid comes back
  MaxCheckpoints, \* bound: checkpointers among them
  Calls,          \* what tasks call: "exec", "kill"
  Faults          \* what may fail: "fork", "write" (to the child), "dump"

ASSUME ChildrenAssumption ==
  /\ Slot \subseteq Nat
  /\ MaxCheckpoints \in Nat

VARIABLES
  pc,        \* where main_loop is
  table,     \* process_table
  proc,      \* the processes, in the kernel
  vms,       \* the tasks that called exec()
  interrupt, \* sigchild_interrupt
  pending,   \* SIGCHLD is to be delivered
  finished,  \* checkpoint_finished: 0, 1 = failure, 2 = success
  outcomes,  \* results of checkpointers that were reaped and not announced
  told       \* the last call of #0:checkpoint_finished

vars == <<pc, table, proc, vms, interrupt, pending, finished, outcomes, told>>
notices == <<finished, outcomes, told>>

NULL == [pid |-> 0, status |-> "NULL"]
Entry(p, status) == [pid |-> p, status |-> status]
Used == {s \in Slot : table[s] # NULL}

Process(kind, at, ok) == [kind |-> kind, at |-> at, ok |-> ok]
Unused == Process("none", "unused", TRUE)
Zombies == {p \in Pid : proc[p].at = "zombie"}

Init ==
  /\ pc = "checkpoint"
  /\ table = [s \in Slot |-> NULL]
  /\ proc = [p \in Pid |-> Unused]
  /\ vms = [p \in Pid |-> "none"]
  /\ interrupt = FALSE /\ pending = FALSE
  /\ finished = 0 /\ outcomes = {}
  /\ told = [success |-> FALSE, of |-> {FALSE}]

-----------------------------------------------------------------------------
(* Tasks, run by run_ready_tasks or as the notifier of main_loop.          *)

InTask(call) == pc \in {"tasks", "notifying"} /\ call \in Calls
Forked(p, kind) == proc' = [proc EXCEPT ![p] = Process(kind, "running", TRUE)]

\* exec_waiter_suspender: the first free slot, and a process.
Exec(s, p) ==
  /\ InTask("exec") /\ proc[p] = Unused
  /\ s \notin Used /\ \A u \in Slot \ Used : s <= u
  /\ table' = [table EXCEPT ![s] = Entry(p, "CONTINUE")]
  /\ Forked(p, "exec")
  /\ vms' = [vms EXCEPT ![p] = "waiting"]
  /\ UNCHANGED <<pc, interrupt, pending, notices>>

\* write_all fails (close_fin): the slot is given back and the task gets
\* E_EXEC, but the process has been forked.
ExecWriteFails(p) ==
  /\ InTask("exec") /\ "write" \in Faults
  /\ proc[p] = Unused /\ Used # Slot
  /\ Forked(p, "exec")
  /\ UNCHANGED <<pc, table, vms, interrupt, pending, notices>>

\* kill_task, through exec_waiter_enumerator: the VM is freed; the slot is
\* kept, and so is the process.
Kill(s) ==
  /\ InTask("kill")
  /\ s \in Used /\ table[s].status # "KILL"
  /\ table' = [table EXCEPT ![s] = Entry(@.pid, "KILL")]
  /\ vms' = [vms EXCEPT ![table[s].pid] = "killed"]
  /\ UNCHANGED <<pc, proc, interrupt, pending, notices>>

-----------------------------------------------------------------------------
(* main_loop.                                                              *)

\* checkpoint_requested: db_flush forks a checkpointer, ...
ForkCheckpointer(p) ==
  /\ pc = "checkpoint" /\ proc[p] = Unused
  /\ Cardinality({r \in Pid : proc[r].kind = "checkpoint"}) < MaxCheckpoints
  /\ Forked(p, "checkpoint")
  /\ pc' = "finished"
  /\ UNCHANGED <<table, vms, interrupt, pending, notices>>

\* ... or cannot, and says so at once.
ForkFails ==
  /\ pc = "checkpoint" /\ "fork" \in Faults
  /\ told' = [success |-> FALSE, of |-> {FALSE}]
  /\ pc' = "finished"
  /\ UNCHANGED <<table, proc, vms, interrupt, pending, finished, outcomes>>

NoCheckpoint ==
  /\ pc = "checkpoint"
  /\ pc' = "finished"
  /\ UNCHANGED <<table, proc, vms, interrupt, pending, notices>>

\* `if (checkpoint_finished)': call_checkpoint_notifier, during which tasks
\* run and signals arrive ...
CallNotifier ==
  /\ pc = "finished" /\ finished # 0
  /\ told' = [success |-> finished = 2, of |-> outcomes]
  /\ outcomes' = {}
  /\ pc' = "notifying"
  /\ UNCHANGED <<table, proc, vms, interrupt, pending, finished>>

\* ... and then `checkpoint_finished = 0'.
NotifierReturns ==
  /\ pc = "notifying"
  /\ finished' = 0
  /\ pc' = "tasks"
  /\ UNCHANGED <<table, proc, vms, interrupt, pending, outcomes, told>>

NothingFinished ==
  /\ pc = "finished" /\ finished = 0
  /\ pc' = "tasks"
  /\ UNCHANGED <<table, proc, vms, interrupt, pending, notices>>

Stopped == {s \in Used : table[s].status = "STOP"}
Done == {s \in Used : table[s].status # "CONTINUE"}

\* What the loop over process_table does for the slots in done and stopped.
FreeSlots(done, stopped) ==
  /\ table' = [s \in Slot |-> IF s \in done THEN NULL ELSE table[s]]
  /\ vms' = [p \in Pid |-> IF \E s \in stopped : table[s].pid = p
                           THEN "resumed" ELSE vms[p]]

\* Mutant: one child per interrupt.
deal_with_one_exit ==
  /\ pc = "tasks"
  /\ \/ ~interrupt /\ UNCHANGED <<table, vms>>
     \/ interrupt /\ \E s \in Done : FreeSlots({s}, Stopped \cap {s})
  /\ interrupt' = FALSE
  /\ pc' = "checkpoint"
  /\ UNCHANGED <<proc, pending, notices>>

\* Mutant: the slots of killed tasks stay.
deal_with_stopped_exits ==
  /\ pc = "tasks"
  /\ IF interrupt THEN FreeSlots(Stopped, Stopped) ELSE UNCHANGED <<table, vms>>
  /\ interrupt' = FALSE
  /\ pc' = "checkpoint"
  /\ UNCHANGED <<proc, pending, notices>>

\* deal_with_child_exit: stopped children resume their tasks, and they and the
\* killed ones give their slots back.
deal_with_child_exit ==
  /\ pc = "tasks"
  /\ IF interrupt THEN FreeSlots(Done, Stopped) ELSE UNCHANGED <<table, vms>>
  /\ interrupt' = FALSE
  /\ pc' = "checkpoint"
  /\ UNCHANGED <<proc, pending, notices>>

-----------------------------------------------------------------------------
(* The kernel and the handler of SIGCHLD.                                  *)

\* A process ends.
ProcessEnds(p, ok) ==
  /\ proc[p].at = "running"
  /\ proc[p].kind = "checkpoint" /\ ~ok => "dump" \in Faults
  /\ proc' = [proc EXCEPT ![p].at = "zombie", ![p].ok = ok]
  /\ pending' = TRUE
  /\ UNCHANGED <<pc, table, vms, interrupt, notices>>

\* exec_complete finds the process of slot s among those that were reaped.
Matched == {s \in Used : table[s].pid \in Zombies}
\* Processes exec_complete does not know: "a checkpoint process, or [...] an
\* exec task [that] was explicitly killed".
Unmatched == {p \in Zombies : \A s \in Used : table[s].pid # p}

\* Mutant: a killed task is marked as stopped, too.
exec_complete_always(s) ==
  IF s \in Matched THEN Entry(table[s].pid, "STOP") ELSE table[s]

\* exec_complete, on slot s
exec_complete(s) ==
  IF s \in Matched /\ table[s].status = "CONTINUE"
  THEN Entry(table[s].pid, "STOP") ELSE table[s]

\* The end of child_completed_signal: `status' is that of the last child reaped.
note_checkpoint_child(last) ==
  IF Unmatched # {} THEN (IF proc[last].ok THEN 2 ELSE 1) ELSE finished

\* child_completed_signal: reaps every child that has ended, in any order.
child_completed_signal ==
  /\ pending
  /\ pending' = FALSE
  /\ proc' = [p \in Pid |-> IF p \in Zombies THEN [proc[p] EXCEPT !.at = "reaped"]
                            ELSE proc[p]]
  /\ table' = [s \in Slot |-> exec_complete(s)]
  /\ interrupt' = (interrupt \/ Matched # {})
  /\ \E last \in Zombies : finished' = note_checkpoint_child(last)
  /\ outcomes' = outcomes \cup
                   {proc[p].ok : p \in {r \in Zombies : proc[r].kind = "checkpoint"}}
  /\ UNCHANGED <<pc, vms, told>>

-----------------------------------------------------------------------------
LoopStep ==
  \/ \E p \in Pid : ForkCheckpointer(p)
  \/ ForkFails \/ NoCheckpoint
  \/ CallNotifier \/ NotifierReturns \/ NothingFinished
  \/ deal_with_child_exit

TaskStep ==
  \/ \E s \in Slot, p \in Pid : Exec(s, p)
  \/ \E p \in Pid : ExecWriteFails(p)
  \/ \E s \in Slot : Kill(s)

Next ==
  \/ LoopStep
  \/ TaskStep
  \/ \E p \in Pid, ok \in BOOLEAN : ProcessEnds(p, ok)
  \/ child_completed_signal

Spec == Init /\ [][Next]_vars

\* main_loop goes round (tasks end), and a signal that is pending is delivered.
\* Nothing says that a process ends.
FairSpec == Spec /\ WF_vars(LoopStep) /\ WF_vars(child_completed_signal)

-----------------------------------------------------------------------------
(* Properties.                                                             *)

\* The types of the variables.
TypeOK ==
  /\ pc \in {"checkpoint", "finished", "notifying", "tasks"}
  /\ table \in [Slot -> [pid : Pid, status : {"CONTINUE", "STOP", "KILL"}] \cup {NULL}]
  /\ proc \in [Pid -> [kind : {"none", "exec", "checkpoint"},
                       at : {"unused", "running", "zombie", "reaped"}, ok : BOOLEAN]]
  /\ vms \in [Pid -> {"none", "waiting", "resumed", "killed"}]
  /\ interrupt \in BOOLEAN /\ pending \in BOOLEAN
  /\ finished \in 0..2 /\ outcomes \in SUBSET BOOLEAN
  /\ told \in [success : BOOLEAN, of : SUBSET BOOLEAN]

\* No wake-up is lost: a task waiting on exec() has a slot, and either its
\* process has not been reaped, or the slot says STOP and sigchild_interrupt is
\* set, so that the next deal_with_child_exit resumes the task.
WaiterServed ==
  \A p \in Pid : vms[p] = "waiting" =>
    \E s \in Used :
      /\ table[s].pid = p
      /\ \/ table[s].status = "CONTINUE" /\ proc[p].at \in {"running", "zombie"}
         \/ table[s].status = "STOP" /\ interrupt

\* A killed task's VM was freed by killing_closure: whatever its process does
\* afterwards, its slot is never one that would be resumed.
NoDanglingVm ==
  \A s \in Used : table[s].status # "KILL" => vms[table[s].pid] = "waiting"

\* A slot is not kept by a process that has gone, unless the next
\* deal_with_child_exit takes it back: exec() does not run out of slots.
NoLeakedSlot ==
  \A s \in Used : interrupt \/ proc[table[s].pid].at # "reaped"

\* "success is true if and only if the checkpoint was successfully written".  It
\* does not hold: see "Disagreements" in the README.
Truthful == told.success \in told.of

\* exec() returns: when the process has ended, its task is resumed or killed.
ExecReturns ==
  \A p \in Pid :
    vms[p] = "waiting" /\ proc[p].at # "running" ~> vms[p] # "waiting"

\* The invariant that carries WaiterServed, NoDanglingVm and NoLeakedSlot: a
\* process has at most one slot, and what the slot says agrees with where the
\* process and the task are.
TableInv ==
  /\ \A s, u \in Used : table[s].pid = table[u].pid => s = u
  /\ \A s \in Used :
       LET p == table[s].pid
       IN  /\ table[s].status = "CONTINUE" =>
                vms[p] = "waiting" /\ proc[p].at \in {"running", "zombie"}
           /\ table[s].status = "STOP" =>
                vms[p] = "waiting" /\ proc[p].at = "reaped" /\ interrupt
           /\ table[s].status = "KILL" =>
                vms[p] = "killed" /\ proc[p].at # "unused"
                /\ (proc[p].at = "reaped" => interrupt)
  /\ \A p \in Pid : vms[p] = "waiting" =>
       \E s \in Used : table[s].pid = p /\ table[s].status # "KILL"
  /\ \A p \in Pid : proc[p].at = "zombie" => pending
=============================================================================
