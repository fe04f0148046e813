----------------------------- MODULE Checkpoint -----------------------------
(***************************************************************************)
(* Dumping the database: dump_database of db_file.cc, and the parts of     *)
(* server.cc that start a dump (main_loop, panic, main) or ask for one.    *)
(* The server forks a child for every checkpoint and waits for none, so    *)
(* several processes work on the same directory: the dumper <<r, g>> is    *)
(* that of generation g in the r-th run of the server, where the last one  *)
(* of a run may be the server itself.  dump_generation starts over in      *)
(* every run, so dumpers of different runs use the same temporary names    *)
(* dump.#g#, also at the same time: a child may outlive its run.           *)
(* A database is a version, the number of changes made to it.  Files are   *)
(* kept by name; a process that has a file open goes on writing it when    *)
(* the file is renamed or its name removed, and opening a name that is     *)
(* there empties the file, whoever writes it.                              *)
(***************************************************************************)
EXTENDS Integers

CONSTANTS
  MaxRun,     \* bound on the runs of the server
  MaxGen,     \* bound on dump_generation
  MaxVersion, \* bound on changes to the database
  Scopes      \* the bounds of a behaviour: how many runs, how many generations
              \* in each, and which faults: "fork", "open", "write", "flush" or
              \* "rename" fails; "panic"; "kill" of the server; "crash"

Runs == 1..MaxRun
Gens == 1..MaxGen
AllFaults == {"fork", "open", "write", "flush", "rename", "panic", "kill", "crash"}

ASSUME CheckpointAssumption ==
  /\ MaxRun \in Nat \ {0} /\ MaxGen \in Nat /\ MaxVersion \in Nat
  /\ Scopes \subseteq [runs : Runs, gens : [Runs -> 0..MaxGen], faults : SUBSET AllFaults]

VARIABLES
  scope,      \* the bounds of this behaviour
  run,        \* the number of the run
  server,     \* what the server does: see ServerStates
  shutdown,   \* shutdown_triggered
  requested,  \* checkpoint_requested
  unanswered, \* no checkpoint was taken or reported as failed since the last request
  base,       \* the database the run started from
  mem,        \* the database in memory
  gen,        \* dump_generation
  dumper,     \* the processes in dump_database, and how far each is
  disk        \* the file of each name

vars == <<scope, run, server, shutdown, requested, unanswered, base, mem, gen, dumper, disk>>

\* dump_db_name and input_db_name; the names in Gens are the temporary ones.
Dump  == 0
Input == -1
Names == Gens \cup {Dump, Input}
NoName == -2

\* What is in a file that is being written or was given up, and in one that was
\* written but for the end; neither loads.
Partial   == -2
Truncated == -3

\* A file: what is in it, and the runs whose dumpers opened or renamed it.
NoFile == [data |-> Partial, hands |-> {}, there |-> FALSE]
File(d, h) == [data |-> d, hands |-> h, there |-> TRUE]

\* In main_loop; running #0:checkpoint_started; in the final dump; in the
\* panic dump; not running.
ServerStates == {"loop", "starting", "final", "panic", "down"}

\* A dumper has been forked, has its file open, has written and synced it, has
\* removed the old database, or has gone.  While the file is open: its name, if
\* it has one, and whether no other process had it open meanwhile.
Pids == Runs \X Gens
Steps == {"gone", "forked", "open", "synced", "removed"}
Dumper(at, snap, child) ==
  [at |-> at, snap |-> snap, child |-> child, file |-> NoName, alone |-> TRUE]
Gone == Dumper("gone", 0, TRUE)
Forked(child) == Dumper("forked", mem, child)

Init ==
  /\ scope \in Scopes
  /\ run = 1 /\ server = "loop" /\ shutdown = FALSE
  /\ requested = FALSE /\ unanswered = FALSE
  /\ base = 0 /\ mem = 0 /\ gen = 0
  /\ dumper = [p \in Pids |-> Gone]
  /\ disk = [n \in Names |-> IF n = Input THEN File(0, {}) ELSE NoFile]

Idle == \A p \in Pids : dumper[p].at = "gone"
MayDump == gen < scope.gens[run]
MayFail(fault) == fault \in scope.faults

-----------------------------------------------------------------------------
(* The file system: the files after a name is removed or one is renamed to *)
(* another, and a process that may have them open.                         *)

Removed(n) == [disk EXCEPT ![n] = NoFile]
Renamed(n, m) == [disk EXCEPT ![n] = NoFile, ![m] = disk[n]]
Follows(d, n, m) ==
  IF d.file = n THEN [d EXCEPT !.file = m]
  ELSE IF d.file = m THEN [d EXCEPT !.file = NoName]
  ELSE d

-----------------------------------------------------------------------------
(* The server.                                                             *)

\* A task changes the database.
Modify ==
  /\ server \in {"loop", "starting"} /\ mem < MaxVersion
  /\ mem' = mem + 1
  /\ UNCHANGED <<scope, run, server, shutdown, requested, unanswered, base, gen, dumper, disk>>

\* Mutant: a request is taken as served by a checkpoint under way.
RequestOnce ==
  /\ server \in {"loop", "starting"}
  /\ requested' = (requested \/ Idle) /\ unanswered' = TRUE
  /\ UNCHANGED <<scope, run, server, shutdown, base, mem, gen, dumper, disk>>

\* checkpoint_signal, checkpoint_timer, bf_dump_database
Request ==
  /\ server \in {"loop", "starting"}
  /\ requested' = TRUE /\ unanswered' = TRUE
  /\ UNCHANGED <<scope, run, server, shutdown, base, mem, gen, dumper, disk>>

\* main_loop sees the request, clears it and runs #0:checkpoint_started.
StartCheckpoint ==
  /\ server = "loop" /\ requested
  /\ requested' = FALSE /\ server' = "starting"
  /\ UNCHANGED <<scope, run, shutdown, unanswered, base, mem, gen, dumper, disk>>

\* `Remove previous checkpoint', whoever still writes it.
RemovePrevious == disk' = IF gen = 0 THEN disk ELSE Removed(gen)
AfterRemovePrevious(d) == IF gen = 0 THEN d ELSE Follows(d, gen, NoName)

\* dump_database until it has the name of the temporary file, in the process
\* that is to write it.
BeginDump(child) ==
  /\ MayDump
  /\ RemovePrevious
  /\ gen' = gen + 1
  /\ dumper' = [p \in Pids |-> IF p = <<run, gen + 1>> THEN Forked(child)
                               ELSE AfterRemovePrevious(dumper[p])]

\* db_flush(FLUSH_ALL_NOW): a snapshot of the database is in the child.
ForkCheckpointer ==
  /\ server = "starting"
  /\ BeginDump(TRUE)
  /\ server' = "loop" /\ unanswered' = FALSE
  /\ UNCHANGED <<scope, run, shutdown, requested, base, mem>>

\* FORK_ERROR: nothing is dumped, and call_checkpoint_notifier(0) says so.
ForkFails ==
  /\ server = "starting" /\ MayDump /\ MayFail("fork")
  /\ RemovePrevious
  /\ gen' = gen + 1
  /\ dumper' = [p \in Pids |-> AfterRemovePrevious(dumper[p])]
  /\ server' = "loop" /\ unanswered' = FALSE
  /\ UNCHANGED <<scope, run, shutdown, requested, base, mem>>

\* shutdown_signal, bf_shutdown
Shutdown ==
  /\ server \in {"loop", "starting"}
  /\ shutdown' = TRUE
  /\ UNCHANGED <<scope, run, server, requested, unanswered, base, mem, gen, dumper, disk>>

\* main_loop ends; db_shutdown: dump_database(DUMP_SHUTDOWN) in the server
\* itself.
FinalDump ==
  /\ server = "loop" /\ shutdown
  /\ BeginDump(FALSE)
  /\ server' = "final"
  /\ UNCHANGED <<scope, run, shutdown, requested, unanswered, base, mem>>

\* panic(): dump_database(DUMP_PANIC), which leaves dump_generation alone and
\* writes dump.PANIC, a file that keeps its name and that no process reads, ...
Panic ==
  /\ server \in {"loop", "starting"} /\ MayFail("panic")
  /\ RemovePrevious
  /\ dumper' = [p \in Pids |-> AfterRemovePrevious(dumper[p])]
  /\ \/ server' = "panic"
     \/ MayFail("open") /\ server' = "down"
  /\ UNCHANGED <<scope, run, shutdown, requested, unanswered, base, mem, gen>>

\* ... until that succeeds.
PanicDumped ==
  /\ server = "panic"
  /\ server' = "down"
  /\ UNCHANGED <<scope, run, shutdown, requested, unanswered, base, mem, gen, dumper, disk>>

\* The server is killed; its children go on.
Kill ==
  /\ server # "down" /\ MayFail("kill")
  /\ server' = "down"
  /\ dumper' = [p \in Pids |-> IF dumper[p].child THEN dumper[p] ELSE Gone]
  /\ UNCHANGED <<scope, run, shutdown, requested, unanswered, base, mem, gen, disk>>

\* The machine goes down.
Crash ==
  /\ server # "down" \/ ~Idle
  /\ MayFail("crash")
  /\ server' = "down"
  /\ dumper' = [p \in Pids |-> Gone]
  /\ UNCHANGED <<scope, run, shutdown, requested, unanswered, base, mem, gen, disk>>

\* restart.sh: the output of the last run, if there is one, becomes the input,
\* whatever the children of that run still do.
NextInput == IF disk[Dump].there THEN disk[Dump] ELSE disk[Input]
MoveOutput ==
  IF disk[Dump].there
  THEN /\ disk' = Renamed(Dump, Input)
       /\ dumper' = [p \in Pids |-> Follows(dumper[p], Dump, Input)]
  ELSE UNCHANGED <<disk, dumper>>

MayStart == server = "down" /\ run < scope.runs
Loads(file) == file.data \notin {Partial, Truncated}

StartWith(version) ==
  /\ run' = run + 1 /\ server' = "loop" /\ shutdown' = FALSE
  /\ requested' = FALSE /\ unanswered' = FALSE
  /\ base' = version /\ mem' = version /\ gen' = 0
  /\ scope' = scope

Restart ==
  /\ MayStart /\ Loads(NextInput)
  /\ MoveOutput
  /\ StartWith(NextInput.data)

\* Mutant: what db_load returns is not looked at.
RestartUnchecked ==
  /\ MayStart /\ ~Loads(NextInput)
  /\ MoveOutput
  /\ StartWith(0)

\* db_load fails: the server ends at once.  What the operator does then, with
\* the older databases that are left, is not modelled.
RestartFails ==
  /\ MayStart /\ ~Loads(NextInput)
  /\ MoveOutput
  /\ UNCHANGED <<scope, run, server, shutdown, requested, unanswered, base, mem, gen>>

-----------------------------------------------------------------------------
(* dump_database in the process p.                                         *)

Run(p) == p[1]
Gen(p) == p[2]

\* It goes on to the next step, or is done: a child exits, the server ends.
GoesOn(p, from, to) ==
  /\ dumper[p].at = from
  /\ dumper' = [dumper EXCEPT ![p] = Dumper(to, @.snap, @.child)]
  /\ server' = server
Exits(p, from) ==
  /\ dumper[p].at = from
  /\ dumper' = [dumper EXCEPT ![p] = Gone]
  /\ server' = IF dumper[p].child THEN server ELSE "down"

\* fopen(temp_name, "w"): a new file, or the one of that name, emptied.
OpenTemp(p) ==
  LET n == Gen(p)
      others == {q \in Pids : dumper[q].file = n}
  IN /\ dumper[p].at = "forked"
     /\ dumper' = [q \in Pids |->
          IF q = p THEN [dumper[q] EXCEPT !.at = "open", !.file = n, !.alone = (others = {})]
          ELSE IF q \in others THEN [dumper[q] EXCEPT !.alone = FALSE]
          ELSE dumper[q]]
     /\ disk' = [disk EXCEPT ![n] = File(Partial, @.hands \cup {Run(p)})]
     /\ UNCHANGED <<scope, run, server, shutdown, requested, unanswered, base, mem, gen>>

\* `Opening temporary dump file': no retry.
OpenFails(p) ==
  /\ MayFail("open") /\ Exits(p, "forked")
  /\ UNCHANGED <<scope, run, shutdown, requested, unanswered, base, mem, gen, disk>>

\* The file that p has open, if it has a name, now holds d.
Holds(p, d) ==
  disk' = IF dumper[p].file = NoName THEN disk
          ELSE [disk EXCEPT ![dumper[p].file] = [@ EXCEPT !.data = d]]

\* write_db_file, fflush, fsync and fclose.  Where another process wrote the
\* file at the same time, each at its own offset, it may hold anything.
WriteTemp(p) ==
  /\ GoesOn(p, "open", "synced")
  /\ \/ Holds(p, dumper[p].snap)
     \/ ~dumper[p].alone /\ Holds(p, Partial)
  /\ UNCHANGED <<scope, run, shutdown, requested, unanswered, base, mem, gen>>

\* The end of the file cannot be written: the results of fflush, fsync and
\* fclose are not looked at.
FlushFails(p) ==
  /\ MayFail("flush") /\ GoesOn(p, "open", "synced")
  /\ Holds(p, Truncated)
  /\ UNCHANGED <<scope, run, shutdown, requested, unanswered, base, mem, gen>>

\* Mutant: what write_db_file returns is not looked at.
WriteUnchecked(p) ==
  /\ MayFail("write") /\ dumper[p].child /\ GoesOn(p, "open", "synced")
  /\ UNCHANGED <<scope, run, shutdown, requested, unanswered, base, mem, gen, disk>>

\* `Abandoning checkpoint attempt': remove(temp_name), whoever writes it.
WriteFails(p) ==
  /\ MayFail("write") /\ dumper[p].child /\ dumper[p].at = "open"
  /\ disk' = Removed(Gen(p))
  /\ dumper' = [q \in Pids |-> IF q = p THEN Gone ELSE Follows(dumper[q], Gen(p), NoName)]
  /\ UNCHANGED <<scope, run, server, shutdown, requested, unanswered, base, mem, gen>>

\* `Waiting 60 seconds and retrying dump': the final dump starts over, with
\* the next generation; the file it removes then is this one again.
RetryDump(p) ==
  /\ MayFail("write") /\ ~dumper[p].child /\ dumper[p].at = "open" /\ MayDump
  /\ disk' = Removed(Gen(p))
  /\ gen' = gen + 1
  /\ dumper' = [q \in Pids |-> IF q = p THEN Gone
                               ELSE IF q = <<run, gen + 1>> THEN Forked(FALSE)
                               ELSE Follows(dumper[q], Gen(p), NoName)]
  /\ UNCHANGED <<scope, run, server, shutdown, requested, unanswered, base, mem>>

\* panic() in a checkpointer shuts its parent down.
ChildPanics(p) ==
  /\ MayFail("panic") /\ dumper[p].child /\ Exits(p, "open")
  /\ shutdown' = (shutdown \/ (server # "down" /\ Run(p) = run))
  /\ UNCHANGED <<scope, run, requested, unanswered, base, mem, gen, disk>>

\* remove(dump_db_name)
RemoveOld(p) ==
  /\ dumper[p].at = "synced"
  /\ disk' = Removed(Dump)
  /\ dumper' = [q \in Pids |-> IF q = p THEN [dumper[q] EXCEPT !.at = "removed"]
                               ELSE Follows(dumper[q], Dump, NoName)]
  /\ UNCHANGED <<scope, run, server, shutdown, requested, unanswered, base, mem, gen>>

\* rename(temp_name, dump_db_name) ...
Rename(p) ==
  /\ dumper[p].at = "removed" /\ disk[Gen(p)].there
  /\ disk' = [disk EXCEPT ![Gen(p)] = NoFile,
                          ![Dump] = File(disk[Gen(p)].data, disk[Gen(p)].hands \cup {Run(p)})]
  /\ dumper' = [q \in Pids |-> IF q = p THEN Gone ELSE Follows(dumper[q], Gen(p), Dump)]
  /\ server' = IF dumper[p].child THEN server ELSE "down"
  /\ UNCHANGED <<scope, run, shutdown, requested, unanswered, base, mem, gen>>

\* ... which fails also if there is no such name.
RenameFails(p) ==
  /\ MayFail("rename") \/ ~disk[Gen(p)].there
  /\ Exits(p, "removed")
  /\ UNCHANGED <<scope, run, shutdown, requested, unanswered, base, mem, gen, disk>>

-----------------------------------------------------------------------------
DumpStep(p) ==
  \/ OpenTemp(p) \/ OpenFails(p)
  \/ WriteTemp(p) \/ FlushFails(p) \/ WriteFails(p) \/ RetryDump(p)
  \/ ChildPanics(p)
  \/ RemoveOld(p) \/ Rename(p) \/ RenameFails(p)

Next ==
  \/ Modify \/ Request \/ StartCheckpoint \/ ForkCheckpointer \/ ForkFails
  \/ Shutdown \/ FinalDump \/ Panic \/ PanicDumped
  \/ Kill \/ Crash \/ Restart \/ RestartFails
  \/ \E p \in Pids : DumpStep(p)

Spec == Init /\ [][Next]_vars

-----------------------------------------------------------------------------
(* Properties.                                                             *)

Versions == 0..MaxVersion
Dumpers == [at : Steps, snap : Versions, child : BOOLEAN,
            file : Names \cup {NoName}, alone : BOOLEAN]
FileRecs == [data : Versions \cup {Partial, Truncated}, hands : SUBSET Runs, there : BOOLEAN]

\* The types of the variables.
TypeOK ==
  /\ scope \in Scopes
  /\ run \in Runs /\ server \in ServerStates /\ gen \in 0..MaxGen
  /\ shutdown \in BOOLEAN /\ requested \in BOOLEAN /\ unanswered \in BOOLEAN
  /\ base \in Versions /\ mem \in Versions
  /\ dumper \in [Pids -> Dumpers]
  /\ disk \in [Names -> FileRecs]

\* Dumpers of two runs had to do with the file.
Shared(file) == \E r, s \in file.hands : r # s

\* However many dumpers run, and whatever fails, a file that is still being
\* written or was given up gets the name dump_db_name only where dumpers of two
\* runs met on one temporary name: within a run a dumper renames only what it
\* wrote and synced, also when another one has removed its file.  (That fflush,
\* fsync and fclose may fail unnoticed is Truncated, not Partial.)
NeverTorn == disk[Dump].there /\ disk[Dump].data = Partial => Shared(disk[Dump])

\* The file that the next run starts from is the work of dumpers of two runs, or
\* was left by one that outlived its run.
Outlived ==
  \/ Shared(NextInput)
  \/ disk[Dump].there /\ \E r \in disk[Dump].hands : r < run

\* A run of the server never starts from an older database than the run before,
\* unless a dumper that outlived its run had its hands on the file: the dumpers of
\* the run that ended, in whatever order they finished and whichever failed, leave
\* nothing older than what it started from.
InputNeverOlder == [][base' >= base \/ Outlived]_vars

\* A request for a checkpoint is never lost, also when it comes while the
\* checkpoint before it is being started: unless it is still to be seen, a
\* checkpoint was taken since, or reported as failed.
NoLostRequest == server = "loop" /\ ~requested => ~unanswered

\* "The server is careful to dump the database just before shutting down": after
\* a clean shutdown, once every process is gone, the output database is the
\* database.  It does not hold: see "Disagreements" in the README.
FinalDumpKept ==
  server = "down" /\ shutdown /\ Idle => disk[Dump].there /\ disk[Dump].data = mem

\* The invariant that carries NeverTorn and InputNeverOlder, in three parts.
\* Processes: none is of a run or a generation to come; one of this run has a
\* snapshot no older than what the run started from; one that has a file with a
\* name open is of a run known to the file, and has it under its own temporary
\* name unless it was renamed; one that has yet to open its temporary name has not
\* been there; what one of them alone has written is its snapshot.
ToCome(p) == Run(p) > run \/ (Run(p) = run /\ Gen(p) > gen)
SnapOk(p) ==
  /\ ToCome(p) => dumper[p].at = "gone"
  /\ Run(p) = run /\ dumper[p].at # "gone" => dumper[p].snap >= base
OpenOk(p) ==
  /\ dumper[p].at = "open" /\ Run(p) \in disk[Gen(p)].hands => dumper[p].file = Gen(p)
  /\ dumper[p].file # NoName =>
       /\ dumper[p].at = "open"
       /\ disk[dumper[p].file].there
       /\ Run(p) \in disk[dumper[p].file].hands
       /\ dumper[p].file \in Gens => dumper[p].file = Gen(p)
       /\ ~dumper[p].alone => Shared(disk[dumper[p].file])
FreshOk(p) ==
  ToCome(p) \/ dumper[p].at = "forked" => Run(p) \notin disk[Gen(p)].hands
WrittenOk(p) ==
  /\ dumper[p].at \in {"synced", "removed"}
  /\ Run(p) \in disk[Gen(p)].hands /\ ~Shared(disk[Gen(p)])
  => disk[Gen(p)].data \in {dumper[p].snap, Truncated}
ProcessInv ==
  /\ mem >= base
  /\ \A p \in Pids : SnapOk(p) /\ OpenOk(p) /\ FreshOk(p) /\ WrittenOk(p)

\* Files: each but the first was opened by a dumper of a run so far, and one that
\* only this run had to do with holds nothing older than what the run started from.
FileOk(n) ==
  /\ \A r \in disk[n].hands : r <= run
  /\ n # Input => (disk[n].there <=> disk[n].hands # {})
  /\ /\ disk[n].hands # {} /\ \A r \in disk[n].hands : r = run
     /\ disk[n].data \in Versions
     => disk[n].data >= base
FileInv == \A n \in Names : FileOk(n)

\* The output and the input, where only one run had to do with them, are written
\* no more and are not given up; such an input is what the run started from, or
\* does not load.
OutputInv ==
  /\ \A n \in {Dump, Input} : ~Shared(disk[n]) =>
       /\ \A p \in Pids : dumper[p].file # n
       /\ disk[n].there => disk[n].data # Partial
  /\ disk[Input].there
  /\ ~Shared(disk[Input]) => disk[Input].data \in {base, Truncated}

DumpInv == ProcessInv /\ FileInv /\ OutputInv

\* The invariant that carries NoLostRequest.
RequestInv == unanswered => requested \/ server # "loop"
=============================================================================
