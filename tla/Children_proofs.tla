--------------------------- MODULE Children_proofs ---------------------------
(***************************************************************************)
(* Proofs about Children for any number of slots and processes: the types, *)
(* and that no wake-up of an exec() is lost, no killed task is resumed and *)
(* no slot leaks.                                                          *)
(***************************************************************************)
EXTENDS Children, TLAPS

Inv == TypeOK /\ TableInv

\* An entry of process_table is not NULL, and the other way round.
LEMMA Entries ==
  ASSUME TypeOK
  PROVE  /\ \A s \in Used : /\ table[s].pid \in Pid
                            /\ table[s].status \in {"CONTINUE", "STOP", "KILL"}
                            /\ table[s] = Entry(table[s].pid, table[s].status)
         /\ \A p, status : status # "NULL" => Entry(p, status) # NULL
  BY DEF TypeOK, Used, Entry, NULL

\* The steps of main_loop other than deal_with_child_exit touch neither the
\* table nor the tasks, and fork at most one process.
LEMMA LoopEffect ==
  ASSUME \/ \E p \in Pid : ForkCheckpointer(p)
         \/ ForkFails \/ NoCheckpoint
         \/ CallNotifier \/ NotifierReturns \/ NothingFinished
  PROVE  /\ UNCHANGED <<table, vms, interrupt, pending>>
         /\ \/ proc' = proc
            \/ \E p \in Pid : proc[p] = Unused /\ Forked(p, "checkpoint")
  BY DEF ForkCheckpointer, ForkFails, NoCheckpoint, CallNotifier,
         NotifierReturns, NothingFinished, notices

\* The initial states have the right types and an empty table.
LEMMA InitInv == Init => Inv
  <1> SUFFICES ASSUME Init PROVE Inv
    OBVIOUS
  <1>1. TypeOK
    <2>1. told \in [success : BOOLEAN, of : SUBSET BOOLEAN] /\ outcomes \in SUBSET BOOLEAN
      BY DEF Init
    <2>2. table \in [Slot -> [pid : Pid, status : {"CONTINUE", "STOP", "KILL"}] \cup {NULL}]
      BY DEF Init
    <2>3. Unused \in [kind : {"none", "exec", "checkpoint"},
                     at : {"unused", "running", "zombie", "reaped"}, ok : BOOLEAN]
      BY DEF Unused, Process
    <2>4. proc \in [Pid -> [kind : {"none", "exec", "checkpoint"},
                            at : {"unused", "running", "zombie", "reaped"}, ok : BOOLEAN]]
      BY <2>3 DEF Init
    <2>5. vms \in [Pid -> {"none", "waiting", "resumed", "killed"}]
      BY DEF Init
    <2>6. pc \in {"checkpoint", "finished", "notifying", "tasks"} /\ finished \in 0..2
      BY DEF Init
    <2>7. interrupt \in BOOLEAN /\ pending \in BOOLEAN
      BY DEF Init
    <2> QED
      BY <2>1, <2>2, <2>4, <2>5, <2>6, <2>7 DEF TypeOK
  <1>2. Used = {}
    BY DEF Init, Used
  <1>3. \A p \in Pid : vms[p] # "waiting" /\ proc[p].at # "zombie"
    BY DEF Init, Unused, Process
  <1>4. TableInv
    BY <1>2, <1>3 DEF TableInv
  <1> QED
    BY <1>1, <1>4 DEF Inv

\* Types are preserved by every step.
LEMMA TypeStep ==
  ASSUME TypeOK, [Next]_vars
  PROVE  TypeOK'
  <1> USE DEF TypeOK
  <1>1. ASSUME NEW s \in Slot, NEW p \in Pid, Exec(s, p) PROVE TypeOK'
    BY <1>1 DEF Exec, Forked, Process, Entry, notices
  <1>2. ASSUME NEW p \in Pid, ExecWriteFails(p) PROVE TypeOK'
    BY <1>2 DEF ExecWriteFails, Forked, Process, notices
  <1>3. ASSUME NEW s \in Slot, Kill(s) PROVE TypeOK'
    <2>1. table[s].pid \in Pid /\ table[s] # NULL
      BY <1>3, Entries DEF Kill, Used
    <2> QED
      BY <1>3, <2>1 DEF Kill, Entry, notices
  <1>4. ASSUME NEW p \in Pid, ForkCheckpointer(p) PROVE TypeOK'
    BY <1>4 DEF ForkCheckpointer, Forked, Process, notices
  <1>5. CASE ForkFails
    BY <1>5 DEF ForkFails
  <1>6. CASE NoCheckpoint
    BY <1>6 DEF NoCheckpoint, notices
  <1>7. CASE CallNotifier
    BY <1>7 DEF CallNotifier
  <1>8. CASE NotifierReturns
    BY <1>8 DEF NotifierReturns
  <1>9. CASE NothingFinished
    BY <1>9 DEF NothingFinished, notices
  <1>10. CASE deal_with_child_exit
    BY <1>10 DEF deal_with_child_exit, FreeSlots, notices
  <1>11. ASSUME NEW p \in Pid, NEW ok \in BOOLEAN, ProcessEnds(p, ok) PROVE TypeOK'
    <2> DEFINE Processes == [kind : {"none", "exec", "checkpoint"},
                             at : {"unused", "running", "zombie", "reaped"}, ok : BOOLEAN]
    <2>1. PICK x : x = [proc[p] EXCEPT !.at = "zombie", !.ok = ok]
      OBVIOUS
    <2>2. proc' = [proc EXCEPT ![p] = x]
      BY <1>11, <2>1 DEF ProcessEnds
    <2>3. proc[p] \in Processes /\ proc \in [Pid -> Processes]
      OBVIOUS
    <2>4. x \in Processes
      BY ONLY <2>1, <2>3
    <2>5. proc' \in [Pid -> Processes]
      BY ONLY <2>2, <2>3, <2>4
    <2> QED
      BY <1>11, <2>5 DEF ProcessEnds, notices
  <1>12. CASE child_completed_signal
    <2>1. table' \in [Slot -> [pid : Pid, status : {"CONTINUE", "STOP", "KILL"}] \cup {NULL}]
      <3>1. ASSUME NEW s \in Slot
            PROVE  exec_complete(s) \in
                     [pid : Pid, status : {"CONTINUE", "STOP", "KILL"}] \cup {NULL}
        BY Entries DEF exec_complete, Matched, Entry
      <3> QED
        BY <1>12, <3>1 DEF child_completed_signal
    <2>2. finished' \in 0..2
      BY <1>12 DEF child_completed_signal, note_checkpoint_child
    <2>3. proc' \in [Pid -> [kind : {"none", "exec", "checkpoint"},
                             at : {"unused", "running", "zombie", "reaped"}, ok : BOOLEAN]]
      BY <1>12 DEF child_completed_signal
    <2>4. outcomes' \in SUBSET BOOLEAN
      BY <1>12 DEF child_completed_signal, Zombies
    <2>5. interrupt' \in BOOLEAN /\ pending' \in BOOLEAN
      BY <1>12 DEF child_completed_signal
    <2>6. UNCHANGED <<pc, vms, told>>
      BY <1>12 DEF child_completed_signal
    <2> QED
      BY <2>1, <2>2, <2>3, <2>4, <2>5, <2>6
  <1>13. CASE UNCHANGED vars
    BY <1>13 DEF vars
  <1> QED
    BY <1>1, <1>2, <1>3, <1>4, <1>5, <1>6, <1>7, <1>8, <1>9, <1>10, <1>11, <1>12, <1>13
       DEF Next, LoopStep, TaskStep

\* What a slot says of its process and its task: the second conjunct of TableInv.
SlotInv(s) ==
  LET p == table[s].pid
  IN  /\ table[s].status = "CONTINUE" =>
           vms[p] = "waiting" /\ proc[p].at \in {"running", "zombie"}
      /\ table[s].status = "STOP" =>
           vms[p] = "waiting" /\ proc[p].at = "reaped" /\ interrupt
      /\ table[s].status = "KILL" =>
           vms[p] = "killed" /\ proc[p].at # "unused"
           /\ (proc[p].at = "reaped" => interrupt)
OneSlot == \A s, u \in Used : table[s].pid = table[u].pid => s = u
WaiterHasSlot ==
  \A p \in Pid : vms[p] = "waiting" =>
    \E s \in Used : table[s].pid = p /\ table[s].status # "KILL"
ZombiePending == \A p \in Pid : proc[p].at = "zombie" => pending

\* The invariant by its parts.
LEMMA TableInvParts ==
  TableInv <=> OneSlot /\ (\A s \in Used : SlotInv(s)) /\ WaiterHasSlot /\ ZombiePending
  BY DEF TableInv, OneSlot, SlotInv, WaiterHasSlot, ZombiePending

\* A process that has a slot has been forked.
LEMMA SlotForked ==
  ASSUME TypeOK, TableInv, NEW s \in Used
  PROVE  proc[table[s].pid].at # "unused"
  BY Entries, TableInvParts DEF SlotInv

\* A step that leaves the table and the tasks alone and moves no process that
\* has a slot preserves the invariant, if a new zombie is signalled.
LEMMA Undisturbed ==
  ASSUME TypeOK, TableInv,
         UNCHANGED <<table, vms, interrupt>>,
         \A s \in Used : proc'[table[s].pid].at = proc[table[s].pid].at
                         \/ /\ proc[table[s].pid].at = "running"
                            /\ proc'[table[s].pid].at = "zombie",
         \A p \in Pid : proc'[p].at = "zombie" => pending'
  PROVE  TableInv'
  <1>1. Used' = Used
    BY DEF Used
  <1>2. OneSlot' /\ WaiterHasSlot' /\ ZombiePending'
    BY <1>1, TableInvParts DEF OneSlot, WaiterHasSlot, ZombiePending
  <1>3. ASSUME NEW s \in Used PROVE SlotInv(s)'
    BY TableInvParts DEF SlotInv
  <1> QED
    BY <1>1, <1>2, <1>3, TableInvParts DEF TableInv, OneSlot, SlotInv, WaiterHasSlot, ZombiePending

\* exec() takes a slot that is free and a process that is new.
LEMMA ExecStep ==
  ASSUME TypeOK, TableInv, NEW s \in Slot, NEW p \in Pid, Exec(s, p)
  PROVE  TableInv'
  <1>1. /\ table' = [table EXCEPT ![s] = Entry(p, "CONTINUE")]
        /\ proc' = [proc EXCEPT ![p] = Process("exec", "running", TRUE)]
        /\ vms' = [vms EXCEPT ![p] = "waiting"]
        /\ UNCHANGED <<interrupt, pending>>
        /\ s \notin Used /\ proc[p].at = "unused"
    BY DEF Exec, Forked, Unused, Process, notices
  <1>2. table'[s] = Entry(p, "CONTINUE") /\ \A u \in Slot \ {s} : table'[u] = table[u]
    BY <1>1 DEF TypeOK
  <1>3. Used' = Used \cup {s}
    BY <1>1, <1>2, Entries DEF Used
  <1>4. \A u \in Used : table[u].pid # p /\ table[u].pid \in Pid /\ u # s /\ u \in Slot
    BY <1>1, SlotForked, Entries DEF Used
  <1>5. /\ vms'[p] = "waiting" /\ proc'[p].at = "running"
        /\ \A r \in Pid \ {p} : vms'[r] = vms[r] /\ proc'[r] = proc[r]
    BY <1>1 DEF TypeOK, Process
  <1>6. OneSlot'
    BY <1>2, <1>3, <1>4, TableInvParts DEF OneSlot, Entry
  <1>7. ASSUME NEW u \in Used' PROVE SlotInv(u)'
    <2>1. CASE u = s
      BY <2>1, <1>2, <1>5 DEF SlotInv, Entry
    <2>2. CASE u \in Used
      <3>1. SlotInv(u)
        BY <2>2, TableInvParts
      <3>2. /\ table'[u] = table[u]
            /\ vms'[table[u].pid] = vms[table[u].pid]
            /\ proc'[table[u].pid] = proc[table[u].pid]
            /\ interrupt' = interrupt
        BY <2>2, <1>1, <1>2, <1>4, <1>5
      <3> QED
        BY <3>1, <3>2 DEF SlotInv
    <2> QED
      BY <2>1, <2>2, <1>3
  <1>8. WaiterHasSlot'
    BY <1>2, <1>3, <1>4, <1>5, TableInvParts DEF WaiterHasSlot, Entry
  <1>9. ZombiePending'
    BY <1>1, <1>5, TableInvParts DEF ZombiePending
  <1> QED
    BY <1>6, <1>7, <1>8, <1>9 DEF TableInv, OneSlot, SlotInv, WaiterHasSlot, ZombiePending

\* kill_task marks one slot and frees one VM.
LEMMA KillStep ==
  ASSUME TypeOK, TableInv, NEW s \in Slot, Kill(s)
  PROVE  TableInv'
  <1> DEFINE p == table[s].pid
  <1>1. /\ s \in Used /\ p \in Pid
        /\ table' = [table EXCEPT ![s] = Entry(p, "KILL")]
        /\ vms' = [vms EXCEPT ![p] = "killed"]
        /\ UNCHANGED <<proc, interrupt, pending>>
        /\ table[s].status \in {"CONTINUE", "STOP"}
    BY Entries DEF Kill, notices
  <1>2. table'[s] = Entry(p, "KILL") /\ \A u \in Slot \ {s} : table'[u] = table[u]
    BY <1>1, Entries DEF TypeOK, Entry
  <1>3. Used' = Used
    BY <1>1, <1>2, Entries DEF Used
  <1>4. \A u \in Used : u \in Slot /\ table[u].pid \in Pid /\ (u # s => table[u].pid # p)
    BY <1>1, Entries, TableInvParts DEF OneSlot, Used
  <1>5. vms'[p] = "killed" /\ \A r \in Pid \ {p} : vms'[r] = vms[r]
    BY <1>1 DEF TypeOK
  <1>6. OneSlot'
    BY <1>2, <1>3, <1>4, TableInvParts DEF OneSlot, Entry
  <1>7. ASSUME NEW u \in Used' PROVE SlotInv(u)'
    <2>1. CASE u = s
      <3>1. proc[p].at # "unused" /\ (proc[p].at = "reaped" => interrupt)
        BY <1>1, TableInvParts DEF SlotInv
      <3> QED
        BY <2>1, <3>1, <1>1, <1>2, <1>5 DEF SlotInv, Entry
    <2>2. CASE u # s
      BY <2>2, <1>1, <1>2, <1>3, <1>4, <1>5, TableInvParts DEF SlotInv
    <2> QED
      BY <2>1, <2>2
  <1>8. WaiterHasSlot'
    BY <1>1, <1>2, <1>3, <1>4, <1>5, TableInvParts DEF WaiterHasSlot, Entry
  <1>9. ZombiePending'
    BY <1>1, TableInvParts DEF ZombiePending
  <1> QED
    BY <1>6, <1>7, <1>8, <1>9 DEF TableInv, OneSlot, SlotInv, WaiterHasSlot, ZombiePending

\* deal_with_child_exit leaves the slots that say CONTINUE, and resumes exactly
\* the tasks whose slots say STOP.
LEMMA DealStep ==
  ASSUME TypeOK, TableInv, deal_with_child_exit
  PROVE  TableInv'
  <1>0. UNCHANGED <<proc, pending>> /\ interrupt' = FALSE
    BY DEF deal_with_child_exit, notices
  <1>1. CASE ~interrupt
    <2>1. UNCHANGED <<table, vms, interrupt>>
      BY <1>0, <1>1 DEF deal_with_child_exit, TypeOK
    <2> QED
      BY <1>0, <2>1, Undisturbed, TableInvParts DEF ZombiePending
  <1>2. CASE interrupt
    <2>1. /\ \A s \in Slot : table'[s] = IF s \in Done THEN NULL ELSE table[s]
          /\ \A p \in Pid : vms'[p] = IF \E s \in Stopped : table[s].pid = p
                                       THEN "resumed" ELSE vms[p]
      BY <1>2 DEF deal_with_child_exit, FreeSlots
    <2>2. Used' = Used \ Done
      BY <2>1 DEF Used, Done
    <2>3. \A u \in Used \ Done : /\ u \in Slot /\ table'[u] = table[u]
                                  /\ table[u].status = "CONTINUE"
                                  /\ table[u].pid \in Pid
                                  /\ vms'[table[u].pid] = vms[table[u].pid]
      BY <2>1, Entries, TableInvParts DEF Used, Done, Stopped, OneSlot
    <2>4. OneSlot'
      BY <2>2, <2>3, TableInvParts DEF OneSlot
    <2>5. ASSUME NEW u \in Used' PROVE SlotInv(u)'
      BY <1>0, <2>2, <2>3, TableInvParts DEF SlotInv
    <2>6. WaiterHasSlot'
      <3> SUFFICES ASSUME NEW p \in Pid, vms'[p] = "waiting"
                   PROVE  \E s \in Used' : table'[s].pid = p /\ table'[s].status # "KILL"
        BY DEF WaiterHasSlot
      <3>1. vms[p] = "waiting" /\ \A s \in Stopped : table[s].pid # p
        BY <2>1
      <3>2. PICK s \in Used : table[s].pid = p /\ table[s].status # "KILL"
        BY <3>1, TableInvParts DEF WaiterHasSlot
      <3>3. s \in Used \ Done
        BY <3>1, <3>2, Entries DEF Done, Stopped
      <3> QED
        BY <3>2, <3>3, <2>2, <2>3
    <2>7. ZombiePending'
      BY <1>0, TableInvParts DEF ZombiePending
    <2> QED
      BY <2>4, <2>5, <2>6, <2>7 DEF TableInv, OneSlot, SlotInv, WaiterHasSlot, ZombiePending
  <1> QED
    BY <1>1, <1>2 DEF TypeOK

\* child_completed_signal marks the slots of the processes it reaps and raises
\* sigchild_interrupt for them.
LEMMA SignalStep ==
  ASSUME TypeOK, TableInv, child_completed_signal
  PROVE  TableInv'
  <1>1. /\ \A p \in Pid : proc'[p].at = IF proc[p].at = "zombie" THEN "reaped" ELSE proc[p].at
        /\ \A s \in Slot : table'[s] = exec_complete(s)
        /\ interrupt' = (interrupt \/ Matched # {})
        /\ vms' = vms
    BY DEF child_completed_signal, Zombies, TypeOK
  <1>2. \A s \in Slot : exec_complete(s) = NULL <=> table[s] = NULL
    BY Entries DEF exec_complete, Matched, Used, Entry, NULL
  <1>3. Used' = Used
    BY <1>1, <1>2 DEF Used
  <1>4. \A s \in Used :
          /\ s \in Slot /\ table[s].pid \in Pid
          /\ table'[s].pid = table[s].pid
          /\ table'[s].status = IF /\ proc[table[s].pid].at = "zombie"
                                   /\ table[s].status = "CONTINUE"
                                THEN "STOP" ELSE table[s].status
          /\ proc[table[s].pid].at = "zombie" => interrupt'
    <2> SUFFICES ASSUME NEW s \in Used
                 PROVE  /\ s \in Slot /\ table[s].pid \in Pid
                        /\ table'[s].pid = table[s].pid
                        /\ table'[s].status = IF /\ proc[table[s].pid].at = "zombie"
                                                 /\ table[s].status = "CONTINUE"
                                              THEN "STOP" ELSE table[s].status
                        /\ proc[table[s].pid].at = "zombie" => interrupt'
      OBVIOUS
    <2>1. s \in Slot /\ table[s].pid \in Pid
      BY Entries DEF Used
    <2>2. s \in Matched <=> proc[table[s].pid].at = "zombie"
      BY <2>1 DEF Matched, Zombies
    <2>3. table'[s] = IF proc[table[s].pid].at = "zombie" /\ table[s].status = "CONTINUE"
                      THEN Entry(table[s].pid, "STOP") ELSE table[s]
      BY <1>1, <2>1, <2>2 DEF exec_complete
    <2>4. s \in Matched => interrupt'
      BY <1>1
    <2> QED
      BY <2>1, <2>2, <2>3, <2>4 DEF Entry
  <1>5. OneSlot'
    BY <1>3, <1>4, TableInvParts DEF OneSlot
  <1>6. ASSUME NEW s \in Used' PROVE SlotInv(s)'
    <2>1. SlotInv(s)
      BY <1>3, TableInvParts
    <2>2. interrupt => interrupt'
      BY <1>1 DEF TypeOK
    <2>3. table[s].status \in {"CONTINUE", "STOP", "KILL"}
      BY <1>3, Entries
    <2> QED
      BY <1>1, <1>3, <1>4, <2>1, <2>2, <2>3 DEF SlotInv
  <1>7. WaiterHasSlot'
    BY <1>1, <1>3, <1>4, TableInvParts DEF WaiterHasSlot
  <1>8. ZombiePending'
    BY <1>1 DEF ZombiePending
  <1> QED
    BY <1>5, <1>6, <1>7, <1>8 DEF TableInv, OneSlot, SlotInv, WaiterHasSlot, ZombiePending

\* Every step preserves the invariant.
LEMMA TableStep ==
  ASSUME TypeOK, TableInv, [Next]_vars
  PROVE  TableInv'
  <1>1. ASSUME NEW s \in Slot, NEW p \in Pid, Exec(s, p) PROVE TableInv'
    BY <1>1, ExecStep
  <1>2. ASSUME NEW s \in Slot, Kill(s) PROVE TableInv'
    BY <1>2, KillStep
  <1>3. CASE deal_with_child_exit
    BY <1>3, DealStep
  <1>4. CASE child_completed_signal
    BY <1>4, SignalStep
  <1>5. ASSUME NEW p \in Pid, NEW kind, proc[p] = Unused, Forked(p, kind),
               UNCHANGED <<table, vms, interrupt, pending>>
        PROVE  TableInv'
    <2>1. proc'[p].at = "running" /\ proc[p].at = "unused"
          /\ \A r \in Pid \ {p} : proc'[r] = proc[r]
      BY <1>5 DEF Forked, Process, Unused, TypeOK
    <2>2. \A s \in Used : table[s].pid \in Pid /\ table[s].pid # p
      BY <2>1, SlotForked, Entries
    <2>3. \A r \in Pid : proc'[r].at = "zombie" => pending'
      BY <1>5, <2>1, TableInvParts DEF ZombiePending
    <2> QED
      BY <1>5, <2>1, <2>2, <2>3, Undisturbed
  <1>6. ASSUME UNCHANGED <<table, vms, interrupt, pending, proc>> PROVE TableInv'
    BY <1>6, Undisturbed, TableInvParts DEF ZombiePending
  <1>7. ASSUME NEW p \in Pid, ExecWriteFails(p) PROVE TableInv'
    BY <1>5, <1>7 DEF ExecWriteFails
  <1>8. ASSUME \/ \E p \in Pid : ForkCheckpointer(p)
               \/ ForkFails \/ NoCheckpoint
               \/ CallNotifier \/ NotifierReturns \/ NothingFinished
        PROVE  TableInv'
    BY <1>5, <1>6, <1>8, LoopEffect
  <1>9. ASSUME NEW p \in Pid, NEW ok \in BOOLEAN, ProcessEnds(p, ok) PROVE TableInv'
    <2>1. /\ proc[p].at = "running" /\ proc'[p].at = "zombie" /\ pending'
          /\ \A r \in Pid \ {p} : proc'[r] = proc[r]
          /\ UNCHANGED <<table, vms, interrupt>>
      BY <1>9 DEF ProcessEnds, TypeOK, notices
    <2> QED
      BY <2>1, Undisturbed, Entries
  <1>10. CASE UNCHANGED vars
    BY <1>10, <1>6 DEF vars
  <1> QED
    BY <1>1, <1>2, <1>3, <1>4, <1>7, <1>8, <1>9, <1>10 DEF Next, LoopStep, TaskStep

\* In every state the variables have their types and process_table agrees with
\* the processes and the tasks.
THEOREM TableCorrect == Spec => [](TypeOK /\ TableInv)
  <1>1. Init => TypeOK /\ TableInv
    BY InitInv DEF Inv
  <1>2. TypeOK /\ TableInv /\ [Next]_vars => (TypeOK /\ TableInv)'
    BY TypeStep, TableStep
  <1> QED
    BY <1>1, <1>2, PTL DEF Spec

\* No wake-up is lost: whenever SIGCHLD comes, a task waiting on exec() is
\* resumed or will be when its process ends.
THEOREM NoLostWakeup == Spec => []WaiterServed
  <1>1. TypeOK /\ TableInv => WaiterServed
    BY Entries, TableInvParts DEF WaiterServed, WaiterHasSlot, SlotInv
  <1> QED
    BY <1>1, TableCorrect, PTL

\* deal_with_child_exit never resumes a VM that kill_task has freed.
THEOREM KilledNeverResumed == Spec => []NoDanglingVm
  <1>1. TypeOK /\ TableInv => NoDanglingVm
    BY Entries, TableInvParts DEF NoDanglingVm, SlotInv
  <1> QED
    BY <1>1, TableCorrect, PTL

\* Slots of process_table are not leaked.
THEOREM SlotsComeBack == Spec => []NoLeakedSlot
  <1>1. TypeOK /\ TableInv => NoLeakedSlot
    BY Entries, TableInvParts DEF NoLeakedSlot, SlotInv
  <1> QED
    BY <1>1, TableCorrect, PTL
=============================================================================
