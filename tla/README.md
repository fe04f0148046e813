# A TLA+ model of the Stunt server

Stunt is a MOO server (a fork of LambdaMOO): one process holds a database of
objects in memory, accepts connections, turns lines of input into tasks written
in the MOO language, compiles and interprets their programs, schedules the
tasks, and writes the database to disk from time to time. This directory models
the parts whose correctness depends on state that lives through many steps,
checks them with TLC on small instances, and proves the central results with
TLAPS for every instance.

Paths and line numbers below refer to `src/`.

## 1. Inventory

| Component | State | Operations | Hard behaviour | What makes it correct | Modules |
|---|---|---|---|---|---|
| Task scheduler (`tasks.cc`) | `active_tqueues`, `idle_tqueues`, `waiting_tasks`, external queues; per queue: input, ready tasks, reader, options, counters | input, `fork`, `suspend`, `resume`, `kill_task`, `read`, `read_http`, `force_input`, `flush_input`, `switch_player`, login, dispatch, dump and reload of the queue | every task can change every list while it runs; intrusive lists without checks | lists and counters agree; no ready work on an idle queue; no task lost, duplicated or starved; quota | `TaskQueues`, `Tasks` |
| Input queue (`tasks.cc`) | a list with a second thread over the ends of its runs | enqueue at either end, dequeue first, in-band or out-of-band | pointers to the middle of the list | implements a list | `InputList`, `InputQueue` |
| Checkpoints (`db_file.cc`, `server.cc`, `restart.sh`) | generation, temporary files, output and input database | checkpoint, final dump, panic dump, restart | several processes, no locking, failures and crashes between steps | what is loaded is whole and never older | `Checkpoint` |
| exec and child processes (`exec.cc`, `server.cc`) | `process_table`, `sigchild_interrupt`, `checkpoint_finished` | `exec`, `kill_task`, SIGCHLD, checkpoint notification | a signal handler that interrupts the main loop | no lost wake-up, no freed VM resumed, slots come back | `Children` |
| Object hierarchies (`db_objects.cc`, `objects.cc`) | parents and children, location and contents, `num_objects`, recycled flag | `create`, `chparents`, `move`, `recycle`, `renumber`, `reset_max_object` | `move` and `recycle` call verbs halfway, which may change anything | links mutual and acyclic; numbers free when given | `Objects` |
| Properties, verbs and the verb cache (`db_properties.cc`, `db_verbs.cc`, `property.cc`, `verbs.cc`) | values laid out along the ancestors; verb lists; cache of lookups | add, delete, rename, set, clear, `chparents`, `create`, `recycle` | re-layout after a change of ancestors, invalidation | one value per property above; nothing else changes; a cached answer is the right one | `Properties`, `Verbs`, `Database` |
| Values (`list.cc`, `numbers.cc`, `utils.cc`, `collection.cc`) | none | indexing, ranges, arithmetic, comparison | widths, boundaries | agree with the meaning | `Values` |
| Compiler, parser, decompiler (`code_gen.cc`, `parser.y`, `unparse.cc`, `decompile.cc`) | none that lives on | compile, list, parse, find the line of an error | programs are kept as code and listed as text | the code means the tree; the text is the program | `CodeGen`, `Decompile`, `Text` |
| Virtual machine (`execute.cc`) | activation stack, run-time stacks, ticks and seconds | opcodes, calls, `try`/`except`/`finally`, suspend, fork, abort, write and read of tasks | unwinding through handlers, limits, restarts | means what the source means; stacks hold | `Execute`, `Opcodes`, `Meaning`, `Interpreter` |
| Main loop and connections (`server.cc`) | `all_shandles`, listeners, boot and shutdown flags | accept, receive, close, boot, redirect, time out, listen, open | verbs run while the list of connections is walked | no freed handle used; the database is told who is connected | `Connections` |
| Network (`net_multi.cc`, `net_bsd_tcp.cc`) | output queue, input buffer, binary mode | push, flush, pull, close, back pressure | partial writes, lost output | loss is announced; lines are framed | `Network` |
| Name lookup (`name_lookup.cc`) | two processes and four pipes | ask, time out, start again | a late answer, a dead helper | an answer belongs to its question | `NameLookup` |
| Timers (`timers.cc`) | list of timers, alarm | set, cancel, expire, wait | signals, a fork, a clock that goes on | each timer fires, and once | `Timers` |
| Garbage and anonymous objects (`garbage.cc`, `utils.cc`, `storage.cc`, `server.cc`) | reference counts, colours, root buffer, pending queue | reference, dereference, collect, finalise | cycles, finalisation by verbs | nothing reachable is freed; garbage is found | `Garbage` |
| Maps (`map.cc`) | red-black tree, shared until written | insert, delete, range, iterate | top-down rebalancing in place | a balanced tree that agrees with a finite map | `Maps` |
| Database file (`db_file.cc`, `db_io.cc`) | numbers of anonymous objects, pending values | write, read, validate and upgrade the hierarchies | damaged files, old versions | a load gives what was written, or is refused | `DbFile` |
| File input and output (`fileio.cc`) | table of handles, streams | the `file_*` functions | handles given again, text and binary modes | a handle is a stream's; reads give what is there | `FileIO` |
| Matching and command parsing; HTTP, JSON and vendored code; hashes, ciphers and random numbers | - | - | - | - | not modelled (section 7) |

How they interact: `main_loop` (`server.cc:610`) is the only thread. Once round
the loop it starts a checkpoint if one is requested, announces one that has
ended, recycles anonymous objects that are lost, lets the network deliver lines
(`server_receive_line` -> `new_input_task`), calls `run_ready_tasks`, which runs
at most one task, collects finished `exec` processes (`deal_with_child_exit`)
and closes connections. A task calls built-in functions; those change the
queues, the database, the process table and the flags that `main_loop` looks at.
SIGCHLD, SIGALRM and SIGVTALRM interrupt all of this except the sections that
block them. Checkpointers are forked children that share only the file system.

## 2. Modules

Actions and helpers that model a C function have its name. Each module also
holds a few definitions marked `Mutant`: deliberately wrong versions of a
definition, which show that a property notices. `map` in `PROJECT.json` gives
the lines of each definition; a helper of a line or two that lies within the
lines of its caller is left to the caller's entry.

**Scheduling.** `TaskQueues` has the structures of `tasks.cc` and the helpers
every operation is built from (`ensure_usage`, `enqueue_waiting`,
`dequeue_input_task`, ...). A helper is a function from a world (the queues and
the three lists) to a world. The input of a queue is a list here; that the
pointers implement a list is what `InputQueue` shows. Lines have a kind and a
length of 0 or 1; quoted and binary lines queue like in-band ones.

`Tasks` (extends `TaskQueues`) is the scheduler. `phase` is where the single
thread is: in `main_loop`, in the dispatching loop of `run_ready_tasks`, or in a
task. There is one action for every branch of `run_ready_tasks` and for every
built-in function that changes the queues; the program of a task is arbitrary.
A behaviour begins with the choice of one of `Workloads`: which calls are made,
by whom, with how many lines and tasks. `CheckpointAndRestart` composes
`write_task_queue` and `read_task_queue`. Permissions, resumed values,
`.program`, prefix and suffix, and HTTP parsing proper are left out; the parser
may want more after any line. `time(0)` is `now`.

`InputList` and `InputQueue` are the plain list of lines, and the two threads of
pointers of `enqueue_input_task` and `dequeue_input_task`, address by address.
The address of a `next` or `next_itail` field is the number of its task, 0 being
the tqueue itself. `result` records what the last dequeue was asked for and what
it gave, so that the abstract list can say which line is the right one.

**Processes.** `Checkpoint` has `dump_database` step by step in each process,
the parts of `main_loop`, `panic` and `main` that start it, and `restart.sh`. A
database is a version number; a file is absent, partial, truncated by a failed
flush, or a whole version. A process that has a file open keeps writing it after
the name was removed or the file renamed. `dump_generation` starts over in every
run, so that checkpointers of two runs may use one temporary name; a restart may
come at any moment, while checkpointers of earlier runs are still at work, and ends
at once if the file it moved into place does not load (`RestartFails`). A behaviour
begins with the choice of one of `Scopes`: how many runs, how many generations in
each, and what may fail. A file remembers the runs whose dumpers had it in hand.

`Children` has `process_table`, the children in the kernel, the signal handler,
`deal_with_child_exit` and the notification of finished checkpoints. The code
between `BLOCK_SIGCHLD` and `UNBLOCK_SIGCHLD` is one action, the handler can run
between any two. Pids are not used again.

**The database.** `Objects` has the two hierarchies, object numbers, and
`move`/`recycle` with the calls that wait for a verb in `pend`. Sets stand for
lists of children and contents; lists of parents are sets plus the set of those
named `twice`, since `check_for_duplicates` lets some duplicates through. A
`renumber` that meets such a list leaves a stale number, or writes past the end
of a list of children; `damaged` says so, and what the server does after that is not
followed. The two loops over ancestors (`Descendants`, `Inside`) are stated as least
closed sets.

`Properties`, `Verbs` and `Database` have the order of ancestors, the layout of
property values along it and its repair after a change of parents, the verb
lists and the cache, and the built-in functions over them, with one anonymous
object beside the permanent ones. Of a value only whether it is clear is kept. An
assertion that fails, or a null pointer that is followed (an anonymous child one of
whose parents is gone), ends the server: `aborted`.

`Garbage`, `DbFile`, `Maps` and `FileIO` are composed by `Storage`: reference
counts, colours and the collector; what a dump writes of anonymous objects and
how a load builds them again and validates hierarchies that may be anything, in
both file versions; the tree nodes of a map, changed in place unless shared; and
the handle table with the streams behind it. In `FileIO` an open file is not
opened again, directories are not opened, less than a buffer of output is
pending, reads are unbuffered, and times are left out of `file_stat`.

**The language.** `Values`, `CodeGen` and `Decompile` are the values, the
compiler and the way back. `Text` is `unparse.cc` and the grammar of `parser.y`
over tokens. `Execute` and `Opcodes` are `run()`, one opcode a step. `Meaning`
says what a tree means without any code, stack or program counter: the
specification that the rest is compared with. `Interpreter` takes a program from
its source to its end: compiled, run, suspended, forked, written out and read
again by way of its text, and aborted.

**Connections.** `Network`, `NameLookup` and `Timers` are operators on the
record of a connection, of the lookup processes and of the timers; `Connections`
has the actions: clients, `network_process_io`, the loop over the connections,
notifier verbs that call back into the server (`NotifierCalls`), timers, lookups
for outbound connections, checkpoints and restarts. A lookup may find nothing: the
answer is then empty or the address `0xffffffff` (`Unknown`). Bytes are those of a
line, CR, LF, and control characters, which are ignored and part a CR from an LF.
Input lines are only counted; their queues are in `Tasks`.

**Proofs.** `X_proofs` holds the theorems about module `X`, `Lemmas` what they
share.

## 3. Runs

`MC*.tla` only instantiate; each `.cfg` is one question. States are distinct
states; times are for two workers.

| Run | Question | Bounds | States, time |
|---|---|---|---|
| `Tasks_bg` | Two programmers fork, suspend, resume and kill under a task limit of 2, with checkpoints and restarts, or force lines that force further lines: `QueuesSound`, `CountsRight`, `NoStrandedWork`, `TasksListed`, `ReadyTaskRuns` | 3 task ids (one more than the limit), 2 queues, 2 lines, delays now, later and for ever, 2 seconds, tasks of 0 or 1 second, usage to 1, so that one player may be ahead of the other | 473,552, 200 s |
| `Tasks_conn` | Held, out-of-band, forced and flushed input with `read` and `read_http` on one connection; two connections that log in, switch players and disconnect while tasks are queued: `NobodyForgotten`, `UniquePlayer`, `ReaderNeverFreed` | 3 lines queued at a time with a high-water mark of 2, so that input is suspended and resumed; readers apart from held and flushed input; 3 queues, 3 tasks | 1,573,412, 120 s |
| `InputQueue` | `ListSound`, and the pointers implement the list (`ImplementsList`) | 5 lines: three runs, the middle one removed, twice | 61,618, 62 s |
| `Checkpoint` | Up to 3 dumpers at once, restarts at any moment, every fault: `NeverTorn`, `NoLostRequest`, `InputNeverOlder` | one run with 3 generations (a third dumper can remove the file of a second while a first is late) and its restart; 3 runs, the first two with dumpers that meet on a temporary name; 4 runs, three of them with a dumper of generation 1; 2 versions | 1,904,903, 140 s |
| `Children` | `exec`, kill, failing writes, checkpointers: `WaiterServed`, `NoDanglingVm`, `NoLeakedSlot`, `ExecReturns` | 2 slots, 3 processes, 2 of which may be checkpointers | 173,569, 25 s |
| `Objects` | Two tasks inside `move` or `recycle` while every built-in function changes the database: `HierarchiesSound` | every call on 3 objects; `create`, `recycle`, `renumber` and `reset_max_object` on 4, so that an object may name a parent twice and a lower number be free; lists of 3 parents (the shortest that passes with a duplicate) | 483,975, 150 s |
| `Database` | Properties and verbs change while objects are created, recycled and reparented: `ValuesSound`, `VerbFound`, `ValuesKept` | starting hierarchies of 3 objects in the shapes of `MCShapes` with an anonymous one, 3 calls | 92,772, 60 s |
| `Interpreter` | Programs with every form of statement and expression: `SameMeaning`, `TextKept`, `MachineSound`, `TracebacksRight`, `TurnEnds` | the programs of `MCSources` and `MCStored`; integers to 7, bytes to 15 so that wide operands occur, 60 ticks, 4 frames | 48,585, 57 s |
| `Interpreter_loop` | `EveryTurnEnds`, which fails (section 5) | `while x (1) endwhile` | stops at the violation, 2 s |
| `Connections` | Eight kinds of work: `OnlineKnown`, `HandlesSound`, `OutputTold`, `LinesFramed`, `AnswersMatch`, `TimersKept`, `NobodyLingers` | 2 connections, 2 ports, an output queue of two lines, sockets that take 0 to 5 units, 3 bytes, one task, one call of each notifier verb, 3 faults, one restart | 415,401, 150 s |
| `Storage` | `HeapSound`, `GarbageFound`, `DumpFaithful`, `LoadedSound`, `MapsAgree`, `FilesSound`, `ReadsRight` | 3 addresses, 2 variables, 2 anonymous objects; all files of 2 objects and chosen ones of 3, well-formed or not; maps of up to 6 keys; 2 file handles, files of 4 bytes, 4 calls | about 400,000, 120 s |
| `Storage_gc` | `LiveKept`, which fails (section 5) | 3 addresses, 2 variables | stops at the violation, 3 s |

The bounds are small because the operations touch at most two queues, two
dumpers, two slots, two connections or an object and its neighbours at a time;
each bound is one more than what an operation touches, or one beyond a limit of
the code (task limit, high-water mark, number of slots, length of the output
queue). Red-black trees need six keys before every case of `rberase` occurs.
`Spare`, `Pid`, `Scopes`, `Workloads`, and the constants whose names begin with
`Max` (`MaxRun`, `MaxGen`, `MaxUsage`, `MaxObj`, ...) are bounds of the model, not of
the code, except `MaxFds`; `Slot` of `Children` stands for `EXEC_MAX_PROCESSES`. The
theorems of section 4 hold for all their values.

Deadlock is checked in `Tasks_bg`, `Children`, `InputQueue` and
`Connections`. In the others an instance stops when its bounds are used up:
`Checkpoint` when the server is down for good or the generations are spent,
`Tasks_conn` when the pool of queues is, `Objects` when the objects are gone,
`Database` and `Storage` when the calls are made, `Interpreter` when the program
has ended.

Fairness. `Tasks!FairSpec` assumes what `main_loop` guarantees: it calls
`run_ready_tasks` again and again; each call ends or starts a task; a task ends,
because its ticks and seconds are limited (`TurnEnds` of the interpreter is what
justifies this, and section 5 has the one loop for which it is wrong); time passes.
That does not rule out starvation. `run_ready_tasks` serves the lines of a queue before
its background tasks, and queues of less usage before others: a player whose lines
force further lines, or who competes with players that have used less and are charged
nothing because their tasks take less than a second, may wait for ever. `ReadyTaskRuns` says that
nothing else keeps a ready task back. `Children!FairSpec`
assumes that `main_loop` goes round and that a pending signal is delivered; it
does not assume that a process ends. `Connections!FairSpec` assumes that the
server's thread and the two lookup processes take their next steps and that time
passes; clients need do nothing. `Interpreter!FairSpec` assumes that the
interpreter goes on while a task runs and that its timer goes off. Nothing is
assumed of clients, of what tasks call or of faults.

## 4. Proofs

`tlapm` checks the theorems below for every value of the constants: any number of
queues, tasks, lines, objects, slots, processes, generations, versions, connections,
timers and restarts.

| Module | Theorem | Says |
|---|---|---|
| `Checkpoint_proofs` | `TypeCorrect`, `DumpsAreWhole`, `InputMonotone`, `RequestsServed` | `Spec => [](TypeOK /\ DumpInv)`, `[]NeverTorn`, `InputNeverOlder` (an action property), `[]NoLostRequest` |
| `Children_proofs` | `TableCorrect`, `NoLostWakeup`, `KilledNeverResumed`, `SlotsComeBack` | `Spec => [](TypeOK /\ TableInv)`, `[]WaiterServed`, `[]NoDanglingVm`, `[]NoLeakedSlot` |
| `Objects_proofs` | `HierarchiesKept` | `Spec => []HierarchiesSound` |
| `InputQueue_proofs` | `PointersAgree`, `QueueIsList` | `Spec => []ListSound`, and the refinement `Spec => Abstract!Spec` |
| `Tasks_proofs` | `ListsStaySound`, `OneQueueEach`, `WorkIsActive`, `NobodyWaitsInVain`, `ReadersSurvive`, `NoTaskOverlooked`, `TasksAreCounted`, `LimitHolds` | `Spec => []QueuesSound`, `[]UniquePlayer`, `[]NoStrandedWork`, `[]NobodyForgotten`, `ReaderNeverFreed` (an action property), `[]TasksListed`, `[]Counted`, `[]CountsRight` (`Counted` and `LimitKept`) |
| `Connections_proofs` | `NoTimerLost`, `AnswersToTheQuestion`, `NoDanglingHandle`, `DatabaseKnowsWhoIsOn`, `EveryLossIsTold`, `LinesArriveWhole` | `Spec => []TimersKept`, `[]AnswersMatch`, `[]HandlesSound`, `[]OnlineKnown`, `[]OutputTold`, `[]LinesFramed` |
| `FileIO_proofs` | `NoStreamLeaks` | `FileSpec => []FilesSound`; `Storage` takes the same steps beside its others |
| `Lemmas` | none listed | induction over numbers in a form the provers can use, recursive functions, and lists with an element put in or taken out |

**Assumptions.** The named `ASSUME`s of the modules, which TLC evaluates in every
run: sets of numbers are sets of numbers, finite where the code has a fixed
table, and bounds are numbers, at least 1 where the code needs one. Some properties
except a case in which the code does something else. `HierarchiesSound` ends with a
`renumber` that meets a duplicate (`damaged`, section 5). `NeverTorn` excepts a file
that dumpers of two runs had in hand, and `InputNeverOlder` a file that is `Outlived`,
which is the same or the work of a checkpointer of an earlier run: such a one, still
at work after `restart.sh` has started the next run, may replace a newer database, and
nothing in the code prevents it. Six theorems have a hypothesis of their own.
`ReadersSurvive` is about one
lifetime of the server (`OneLifetime`), because a restart frees every queue and
resumes the readers as interrupted tasks. `NoTaskOverlooked` assumes that no task calls
`read`, `read_http` or `switch_player`, `TasksAreCounted` that none calls `exec`:
section 5 has what goes wrong with them. `LimitHolds` assumes no `exec`, and one
lifetime or no `read` and `read_http`, because the readers that a restart resumes as
interrupted tasks were never counted against the limit. The other theorems about
tasks have no hypothesis, and all but `ReadersSurvive` include restarts.
`NoDanglingHandle` and `DatabaseKnowsWhoIsOn` assume that the verbs
told of connections (`user_disconnected` and its like) do not call `switch_player`;
what happens when one does is in section 5. They may call every other built-in.

**The inductive invariants.**

- *Checkpoint.* `NeverTorn` is about the file that has the name of the database
  and says nothing of the temporary files, of which the next rename takes one.
  `DumpInv` adds, in `ProcessInv`, that generations only grow within a run, so that
  dumpers of one run never meet on a file; that one that is about to rename a file
  only its own run had in hand finds its snapshot there; and that no snapshot of this
  run is older than what the run started from. `FileInv` says the last of the files of
  this run, and `OutputInv` that output and input, if only one run had them in hand, are
  written no more. Which runs had a file in hand is what makes this inductive: from the
  name alone nothing follows once checkpointers outlive their run. `RequestInv`: a
  request without an answer is in the flag that `main_loop` looks at, or the server is
  not in its loop.
- *Children.* `TableInv` says that a process id is in one slot, which states of a
  slot go with which states of its process and of its task, and that a process
  that has ended and was not reaped has a SIGCHLD pending. Without the last part
  nothing prevents a state in which a task waits for a signal that never comes.
  There is one lemma for each action, and `Undisturbed` for what it leaves alone.
- *Objects.* `HierarchiesSound` is inductive as it stands, because nothing is called
  of a damaged server and a `renumber` that misses nothing renames every link. The
  cycles are the work: an object that is not above its new parents gets no cycle from
  them, and a new number makes none, for closures of any size.
- *InputQueue.* `Rep(m, p)` names the path `p` of `m` nodes that the pointers
  describe: its nodes are the lines in order, the second thread jumps from the end
  of a run to the end of the next, and both tails are where the code expects them.
  The operations change the path by an element at one end or at the end of the
  first run. The refinement reads the abstract list off that path.
- *Tasks.* `Inv` has four parts: types; `Sound` (the lists are lists, one queue
  per player, and the rows of idle and of live queues are as `IdleRow` and
  `LiveRow` say); `Thread` (the queue whose task runs is the first active one,
  the connection that is being closed is still there); and `OneEach` (no id is in
  two places). `IdleRow` and `LiveRow` are stronger than the properties: a
  connection that has not logged in has no ready tasks, for example, which is why
  a login can move its queue; and a connected queue has a player. The helpers of
  `TaskQueues` each have a lemma that says what they keep, with the exemption of
  the queue they are changing (`SoundBut`); an action's lemma composes them in the
  order in which the code calls them. The loops (`run_ready_tasks` moving the
  tasks that are due, `write_task_queue`, `read_task_queue`) are recursive
  functions; `ChainExists` shows that they are defined, and `UpInduction` goes
  through them. For a restart this shows that what is written names no task twice
  and that reading it gives a sound world in which every task waits.

  `CountsRight` (`Counted` and `LimitKept`) needs a second invariant, `Booked`: with `T[p]` the number of `p`'s
  tasks in `waiting_tasks`, each queue of a player `p` counts its ready tasks and
  `T[p]` (`Paid`), a player with `T[p] # 0` has a queue, and a queue without a player
  has no ready task (`Balanced`). It is stated with `T` apart from the list, because
  while `run_ready_tasks` moves the tasks that are due, and while `kill_task` or
  `resume` takes one out, the books are balanced for a list that is in no variable.
  The lemmas go by what happens to one task: counted (`CountedBooks`), made ready
  (`ReadiedBooks`), started or killed (`TookBooks`, `DropBooks`), or carried with its
  queue to another player's (`CarriedBooks`, which needs that a queue that counts
  nothing holds nothing, `TidyBooks`). Each action's lemma then says that it keeps
  the books (`Ledger`). The limit is part of `Paid`; `QuotaKept` adds that the tasks
  of a programmer are in the waiting list or on the one queue with that player. Through
  a restart, what is written are tasks that were queued, no task twice (`WrittenOne`),
  so what each programmer has to read is within the limit again (`MineFew`, `Quota`).

- *Connections.* Four invariants, one for each of the parts that `Connections`
  composes, each resting on the first two. `TimerInv`: the alarm is not set while
  its signal is pending, the CPU time used and the time left are within the limit,
  and `timeout_proc` has a timer only in `connect()` and only one, which is why
  SIGALRM cannot throw out of anything else. `LookupInv`: while the server waits, the
  request with its tag is in one place of the two pipes and two processes, whole, in
  part or answered as unknown, and everything else is empty or idle (`Lookup`); when the server does not wait,
  the helpers are idle or dead. `HandleInv`: the lists are lists without repetition and
  equal, a player below 0 is above the next one to be given out (`Rows`); a loop that
  waits for a verb has its connection and the next one in the list (`Cursor`); and
  `Known`, the database's idea of who is online is right except for the connection
  that is being closed or redirected, whose verb runs (`Skip`). The last part also
  holds of the dump on disk, for restarts. The property speaks of the top of the loop
  only; the exemption is what makes it inductive in between. `NetInv`: the network's
  own list is a list without repetition, a handle is left for a connection that is
  being opened, and every handle in the list is `HandleOk`. It does not need
  `HandleInv`, so `EveryLossIsTold` and `LinesArriveWhole` hold whatever verbs call.
- *Network.* `HandleOk(n)` is `OutOk(n) /\ InputOk(n)`. `OutOk` adds to `LossTold` that
  the queued lines are in order and none is beyond the last one sent; then a line that
  goes out is above every line the client has, and the lines `Flushed` drops are
  exactly the ones that become missing. The length of the queue is a prefix sum
  (`Lengths`), and `LengthsOfRest` and `EnqueuedLength` say what it is after blocks
  went out in whole or in part. `InputOk` says that the lines, the buffer and the flag
  `last_input_was_CR` are what the bytes read so far give (`Reads`): the flag is
  set exactly if the last byte was a CR in line mode, which is what joins a CR and an LF
  that two reads have cut apart. `FrameStep` shows how one more byte changes the lines
  of the whole history; `PullKeeps` goes through the bytes of one read with it.
- *FileIO.* `Matched` pairs the table with the streams (`Paired`), says that nothing is
  pending on a handle that flushes (`OutOf`), and gives the types (`Rows`). Each call
  changes one entry or one stream, and what the reading loops, which are recursive
  functions over the number of reads, leave of a stream is still open with the same
  bytes.

**Only model-checked.** Liveness (`ReadyTaskRuns`, `ExecReturns`, `TurnEnds`,
`NobodyLingers`) is out of the prover's reach. The interpreter, the database, the
values, the storage and the text are written with recursive operators, which the
prover cannot follow: `SameMeaning`, `TextKept`, `MachineSound`, `TracebacksRight`, `ValuesSound`,
`VerbFound`, `ValuesKept`, `HeapSound`, `GarbageFound`, `DumpFaithful`,
`LoadedSound`, `MapsAgree`. `ReadsRight` compares what was read with the lines of a
file, which takes an induction over the file.

## 5. Disagreements

Where the code does not do what a comment, a document or an assertion says of it.

**Shown by a run.**

- `Storage_gc`: `cb_scan_white` (`garbage.cc:311`) goes on into every child that is not
  pink, also into black ones, which are live. An anonymous object that a variable
  refers to, and that a garbage cycle refers to as well, is queued and recycled. The
  trace has 7 states: `A.p = {B, A}`, `B` in a variable, `A` lost, collection.
- `Interpreter_loop`: `while x (1) endwhile` runs for ever. `EOP_WHILE_ID` takes a tick
  off (`execute.cc:1911`), but neither ticks nor timer are looked at except for opcodes
  with `COUNT_TICK` (840), and none is in this loop. `options.h:92` speaks of the
  maximum that "any task is allowed to use without suspending".

**Stated in a module, and false of the code.** TLC shows each one when it is added to a
configuration:

| Definition | How to see it | What the code does |
|---|---|---|
| `Checkpoint!FinalDumpKept` | as an invariant of `MCCheckpoint`, also with `MaxRun = 1`, `Scopes <- NoFaults` | `db_shutdown` does not wait for a checkpointer that runs. The final dump removes the checkpointer's temporary file and puts its own in place; the checkpointer then removes that (`db_file.cc:1206`), and its `rename` fails: nothing went wrong, and no database is left, against "the server is careful to dump the database just before shutting down" (`ProgrammersManual:6094`) |
| `Objects!RenumberFixes` | as an invariant of `MCObjects`; 7 states | `check_for_duplicates` starts its inner loop at `i + i` (`db_objects.cc:836`) and lets `{a, b, b}` through; `renumber` of `b` replaces one of the two mentions (482), against "Fix up the parents/children hierarchy" (459) |
| `Database!ServerStays` | as an invariant of `MCDatabase` with `MaxObj = 4`, `Shapes <- Diamond`, `Workloads <- Reparenting` | `dbpriv_fix_properties_after_chparent` takes the ancestors that an object has now through another parent for old ones (`db_properties.cc:987`); where an object inherits from another along two ways, and that one gets a parent with a property, the assertion at 903 fails and ends the server |
| `Children!Truthful` | as an invariant of `MCChildren` | the status of the child reaped last is reported as the checkpoint's (`server.cc:354`; `ProgrammersManual:6128`) |
| `Objects!NeverReused` | as a property of `MCObjects` | a number is given again after `recycle` and `reset_max_object` (`db_objects.cc:82`; `ProgrammersManual:4162`) |
| `Interpreter!AllLines` | `MCInterpreter` with `Sources <- StoreSources` | some errors are reported for the wrong line (`decompile.cc:451`; `README.rX:137`) |
| `Connections!HandlesSound` | with `"switch"` added to `NotifierCalls` | a notifier that calls `switch_player` frees a handle that its caller goes on to use (`server.cc:699`, `net_multi.cc:596`) |

**Met while modelling, and kept in the models as the code has it or out of the
inputs:**

- *Tasks.* `resume_task` queues a task of `exec` without counting it
  (`tasks.cc:1276`, against the comment at 173). `write_task_queue` leaves out
  readers on active queues (1917). `switch_player` moves ready tasks to a queue that
  stays idle (2863).
- *Checkpoints and children.* A failing last flush goes unnoticed. A checkpointer that
  outlives its run may write the temporary file of a new one, and may replace the newer
  database of the next run by its older one (`restart.sh:28`). The process of a
  killed `exec` is taken for a checkpointer. A checkpoint that ends while the
  notifier of the last one runs overwrites its result.
- *Objects.* An aborted `recycle` leaves an object that cannot be recycled; after a
  `renumber` inside its verb, `recycle` destroys whatever has the number.
- *Properties.* Anonymous children are never checked for validity: if such a child has
  lost another of its parents, a null pointer is followed (`db_properties.cc:978`). A definition is
  checked against ancestors and descendants only, so that two parents may give one
  object two properties of a name; `bf_recycle` then never ends (`objects.cc:743`).
  `renumber` leaves owners and parents of anonymous objects alone.
- *Garbage.* `collect_white` queues objects that are already recycled or invalid, and
  an assertion stops the server (`server.cc:491`); so does a recycle verb that
  recycles another object of its batch. A panic during the batch loses it. After a
  load every pending object has one reference too many.
- *Database file.* `ng_validate_hierarchies` removes from the list it walks
  (`db_file.cc:663`): of two invalid numbers in a row one stays and is followed.
- *Interpreter.* The value of a `return` is lost through a `finally`; `pass` looks at
  a stale handler; `num_stacks` never grows; with the debug flag off `x[9][1] = 5`
  stores the error in `x`; a comparison of integers overflows.
- *Text.* A negative literal before `.`, `:` or `[` is listed without brackets;
  `(^).foo` is listed as `^.foo`; 256 `except` clauses pass a test for 255.
- *Network.* `boot_player` during the notifier of a redirect is lost
  (`server.cc:1444`); `wakeup_call` starts timers it has not stopped
  (`timers.cc:68`); a process id that was given again may be killed by
  `restart_lookup`; a notice of lost output that was written in part is repeated.
- *Files.* `file_allocate_next_handle` may refuse though a lower handle is free
  (`fileio.cc:138`); the tests of the mode reject nothing (`!(mode = ...) & ...`);
  `file_read` reads past the length when it is above the buffer's; `writeline`
  stops at `~00`.

## 6. Plan

Done: every module of section 2, the runs of section 3, the theorems of section 4.
Left, in this order: `ValuesSound` and `VerbFound` of the database, once the order of
ancestors and the layout of property values are written without recursive operators;
`MapsAgree`, for which the red-black trees need the same.

## 7. Not modelled

- *Matching and command parsing* (`match.cc`, `parse_cmd.cc`): functions of one
  string and the contents of two objects, without state.
- *HTTP, JSON and vendored code* (`http_parser.c`, `yajl`, `regexpr.c`): third-party
  parsers. The task scheduler models what `read_http` does with lines that the parser
  takes or refuses.
- *Hashes, ciphers and random numbers* (`sosemanuk.c`, `crypt`, `md5`, ...):
  arithmetic over strings.
- Within the parts that are modelled: permissions (every caller is a wizard), the
  wording of messages, clocks that are set back, process ids given again, what an
  operator does when the database does not load, and what a server does after a
  `renumber` has damaged its lists.
