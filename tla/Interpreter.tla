---------------------------- MODULE Interpreter ----------------------------
(***************************************************************************)
(* One program from its source to its end: compiled, run opcode by opcode, *)
(* suspended and resumed, its forked tasks run, and the database written   *)
(* and read again while tasks wait.  Stored programs are not run, but      *)
(* listed and set again: verb_code() and set_verb_code().                  *)
(*                                                                         *)
(* A task is [state, stk, root, log, k, told]: state is new, forked,       *)
(* suspended or ended; k says how it ended (ok, raise, abort); told, the   *)
(* tracebacks that its player has seen.  nested is in the machine while    *)
(* #0:handle_... runs for the task that has just been aborted.  listing is *)
(* the text that verb_code() gave; unread says that a text was refused.    *)
(***************************************************************************)
EXTENDS Meaning, Text

CONSTANTS Sources,      \* the programs to run
          Stored,       \* the programs to list and set
          Answers,      \* the values that a suspended task may be resumed with
          Taken         \* the errors for which #0:handle_uncaught_error returns true

VARIABLES src, answer, vm, tasks, want, restarted, listing, unread

texts == <<listing, unread>>
vars == <<src, answer, vm, tasks, want, restarted, texts>>

MainKey == <<"main", 0, Empty>>
HandlerStr(name) == <<"str", <<IF name = "handle_uncaught_error" THEN 3001 ELSE 3002>>>>

FirstEnv(this, player, args) ==
    [NewEnv EXCEPT ![SLOT_THIS] = Obj(this), ![SLOT_CALLER] = Obj(NOTHING), ![SLOT_PLAYER] = Obj(player),
                   ![SLOT_DOBJ] = Obj(NOTHING), ![SLOT_VERB] = Empty, ![SLOT_ARGS] = args]
\* do_server_program_task() of a program that player 1 owns, on object 1
MainActiv == NewActiv(MainKey, FirstEnv(1, 1, ListV(<<>>)), Obj(1), 1, 1, 1, Obj(1), Empty, TRUE)
Task(state, a, root) == [state |-> state, stk |-> <<a>>, root |-> root, log |-> <<>>, k |-> "", told |-> <<>>]

Idle == [code |-> <<>>, stk |-> <<>>, root |-> 0, ticks |-> 0, timed |-> FALSE, out |-> "DONE", result |-> None,
         handler |-> None, err |-> None, log |-> <<>>, props |-> FirstProps, forks |-> <<>>, panic |-> FALSE, misled |-> {}, me |-> 0,
         nested |-> None]

Init ==
    /\ \/ src \in Sources /\ answer \in Answers
       \/ src \in Stored /\ answer = None
    /\ vm = Idle /\ tasks = <<>> /\ want = <<>> /\ restarted = FALSE
    /\ listing = <<>> /\ unread = FALSE

IsStored == answer = None

\* The programs are compiled: the task's own, the verbs, and what eval() is given
Compile ==
    /\ vm.code = <<>> /\ ~IsStored
    /\ vm' = [vm EXCEPT !.code = [k \in {MainKey} \cup {<<"verb", p[1], p[2]>> : p \in DOMAIN Verbs}
                                        \cup {<<"text", 0, t>> : t \in DOMAIN Texts} |->
                  generate_code(CASE k[1] = "main" -> src [] k[1] = "verb" -> Verbs[<<k[2], k[3]>>].body
                                  [] k[1] = "text" -> Texts[k[3]])]]
    /\ tasks' = <<Task("new", MainActiv, 0)>>
    /\ want' = Tasks(<<[body |-> src, f |-> MainActiv]>>, FirstProps, answer, <<>>)
    /\ UNCHANGED <<src, answer, restarted, texts>>

\* A program is stored as a verb; bf_verb_code(), with the option fully-paren, and after
\* that bf_set_verb_code() of what it gave (both as far as the checks let them)
StoreVerb ==
    /\ vm.code = <<>> /\ IsStored
    /\ want' = <<generate_code(src)>> /\ vm' = [vm EXCEPT !.code = (MainKey :> want'[1])]
    /\ UNCHANGED <<src, answer, tasks, restarted, texts>>
bf_verb_code(full) ==
    /\ IsStored /\ vm.code # <<>> /\ listing = <<>>
    /\ listing' = unparse_program(vm.code[MainKey], full, 0)
    /\ UNCHANGED <<src, answer, vm, tasks, want, restarted, unread>>
bf_set_verb_code ==
    /\ listing # <<>> /\ listing' = <<>>
    /\ \E read \in {parse_program(listing)} :
         IF read.ok THEN vm' = [vm EXCEPT !.code = (MainKey :> generate_code(read.body))] /\ UNCHANGED unread
                    ELSE unread' = TRUE /\ UNCHANGED vm
    /\ UNCHANGED <<src, answer, tasks, want, restarted>>

-----------------------------------------------------------------------------
\* run_interpreter() after run(): the handler in the database, or the traceback
HandlerOf(m) == find_callable_verbdef(<<0>>, HandlerStr(m.handler[1]))
HandlerActiv(m) ==
    LET v == HandlerStr(m.handler[1])
    IN  NewActiv(<<"verb", HandlerOf(m), v>>, FirstEnv(0, m.stk[1].player, m.handler[2]), Obj(0), m.stk[1].player,
                 Verbs[<<HandlerOf(m), v>>].owner, 0, Obj(HandlerOf(m)), v, Verbs[<<HandlerOf(m), v>>].debug)
Reported(m) == m.out = "ABORTED" /\ m.handler # None /\ m.nested = None
\* Mutant: takes what the handler returns for true.
Handled_always(m) == m.nested # None /\ m.out \in {"BLOCKED", "DONE"}
Handled(m) == m.nested # None /\ (m.out = "BLOCKED" \/ (m.out = "DONE" /\ is_true(m.result)))
EndsAs(m) ==
    LET own == IF m.out = "ABORTED" /\ m.handler # None THEN <<m.handler>> ELSE <<>>
        told == IF m.nested = None THEN own ELSE IF Handled(m) THEN <<>> ELSE Append(own, m.nested)
        how == IF m.nested # None THEN m.nested ELSE m.handler
        k == IF m.out = "DONE" /\ m.nested = None THEN "ok"
             ELSE IF how # None /\ how[1] = "handle_uncaught_error" THEN "raise" ELSE "abort"
    IN  [state |-> "ended", stk |-> <<>>, root |-> 0, log |-> m.log, k |-> k, told |-> told]

\* A step of the interpreter leaves the machine n
Settle(n) ==
    LET saved == IF n.out = "BLOCKED" /\ n.nested = None
                 THEN [state |-> "suspended", stk |-> n.stk, root |-> n.root, log |-> n.log, k |-> "", told |-> <<>>]
                 ELSE EndsAs(n)
        born == [i \in DOMAIN n.forks |-> Task("forked", n.forks[i].a, n.forks[i].vec)]
    IN  IF n.out = "RUN" THEN vm' = n /\ UNCHANGED tasks
        ELSE IF Reported(n) /\ HandlerOf(n) # NOTHING
        THEN /\ vm' = [n EXCEPT !.stk = <<HandlerActiv(n)>>, !.root = 0, !.out = "RUN", !.nested = n.handler,
                                !.handler = None, !.ticks = FgTicks, !.timed = FALSE, !.result = None]
             /\ UNCHANGED tasks
        ELSE /\ vm' = [n EXCEPT !.stk = <<>>, !.log = <<>>, !.forks = <<>>, !.timed = FALSE, !.ticks = 0]
             /\ tasks' = [tasks EXCEPT ![n.me] = saved] \o born
Step(n) == Settle(Concluded(n)) /\ UNCHANGED <<src, answer, want, restarted, texts>>

\* run_interpreter(): do_task(), do_forked_task() and resume_from_previous_vm()
Resumed(m) ==
    IF answer[1] # "err" THEN push(m, answer)
    ELSE PUSH_ERROR(SetActiv(m, [RUN_ACTIV(m) EXCEPT !.epc = RUN_ACTIV(m).pc]), answer[2])
RunTask(i) ==
    LET t == tasks[i]
        m == [vm EXCEPT !.stk = t.stk, !.root = t.root, !.log = t.log, !.me = i, !.out = "RUN", !.result = None,
                        !.handler = None, !.nested = None, !.ticks = IF t.state = "new" THEN FgTicks ELSE BgTicks]
    IN  /\ tasks # <<>> /\ vm.out # "RUN" /\ t.state # "ended"
        /\ Step(IF t.state = "suspended" THEN Resumed(m) ELSE m)

\* the opcodes, in the groups of execute.cc
Running == vm.out = "RUN" /\ ~vm.panic
RunExtended(m) ==
    LET op == NextByte(m)[1] IN OpExtended(Skipped(IF COUNT_EOP_TICK(op) THEN Counted(m) ELSE m, 1), op)
run(m, op) ==
    CASE op[1] = "CALL_VERB" -> OpCallVerb(m)
      [] op[1] \in {"RETURN", "RETURN0", "DONE"} -> OpReturn(m, op[1])
      [] op[1] = "BI_FUNC_CALL" -> OpBiFuncCall(m)
      [] op[1] = "EXTENDED" -> RunExtended(m)
      [] OTHER -> OpPlain(m, op)
RunOpcode ==
    Running /\ Step(IF TimeIsUp(vm) THEN Abort(Fetched(vm), IF vm.ticks <= 1 THEN "ticks" ELSE "seconds")
                    ELSE run(Fetched(vm), Opcode(vm)))

\* task_timeout(): the timer of the task goes off
task_timeout == Running /\ ~vm.timed /\ vm' = [vm EXCEPT !.timed = TRUE] /\ UNCHANGED <<src, answer, tasks, want, restarted, texts>>

-----------------------------------------------------------------------------
\* dbio_write_var() and dbio_read_var() of an iterator: the key it is at, or clear at the end
WriteVar(v, base) ==
    IF v[1] # "iter" THEN v ELSE IF v[2] \in DOMAIN base[2] THEN base[2][v[2]][1] ELSE Clear
\* write_activ() and read_activ(): the base of an iterator is below it on the stack
ReadActiv(a) ==
    [a EXCEPT !.rts = [i \in DOMAIN @ |-> WriteVar(@[i], IF i > 1 THEN @[i - 1] ELSE None)]]
check_pc_validity(prog, vec, pc) ==
    LET b == VectorOf(prog, vec)
    IN  pc < b.size /\ (b.vector[pc] = <<"CALL_VERB">> \/ b.vector[pc - 1] = <<"BI_FUNC_CALL">>)
\* The database is written and read again: dbio_write_program() and dbio_read_program().  A
\* forked task keeps only the body of its fork, as the main vector of a program.
ForkKey(i) == <<"fork", i, Empty>>
Forked == {i \in DOMAIN tasks : tasks[i].state = "forked" /\ tasks[i].root > 0}
VectorOfKey(k) == IF k[1] = "fork" THEN tasks[k[2]].root ELSE 0
ProgramOf(k) == vm.code[IF k[1] = "fork" THEN tasks[k[2]].stk[1].prog ELSE k]
Written(k) == unparse_program(ProgramOf(k), TRUE, VectorOfKey(k))
Restart ==
    /\ tasks # <<>> /\ ~Running /\ ~restarted
    /\ \E i \in DOMAIN tasks : tasks[i].state \in {"suspended", "forked"}
    /\ \E read \in {[k \in DOMAIN vm.code \cup {ForkKey(i) : i \in Forked} |-> parse_program(Written(k))]} :
         IF \E k \in DOMAIN read : ~read[k].ok THEN unread' = TRUE /\ UNCHANGED <<vm, tasks>>
         ELSE /\ vm' = [vm EXCEPT !.code = [k \in DOMAIN read |-> generate_code(read[k].body)]]
              /\ tasks' = [i \in DOMAIN tasks |->
                             IF i \in Forked THEN [tasks[i] EXCEPT !.root = 0, !.stk[1].prog = ForkKey(i)]
                             ELSE [tasks[i] EXCEPT !.stk = [j \in DOMAIN @ |-> ReadActiv(@[j])]]]
              /\ UNCHANGED unread
    /\ restarted' = TRUE
    /\ UNCHANGED <<src, answer, want, listing>>

Next == \/ Compile \/ RunOpcode \/ task_timeout \/ Restart \/ StoreVerb \/ bf_set_verb_code \/ \E full \in BOOLEAN : bf_verb_code(full)
        \/ \E i \in DOMAIN tasks : RunTask(i)

Spec == Init /\ [][Next]_vars
\* Weak fairness of the interpreter, written out: it has a step exactly while it is
\* running, and the only other step then is the timer's, which changes timed.  The timer
\* goes off in the end.
FairSpec == Spec /\ ([]<>~Running \/ []<><<vm'.timed = vm.timed>>_vars) /\ WF_vars(task_timeout)

-----------------------------------------------------------------------------
\* Compiling and running a program is the meaning of its tree: at every moment a task has
\* told its player a part of what it should tell, and when it has ended by itself all of it,
\* whatever was suspended, forked or restarted in between (code_gen.cc, execute.cc).
SameMeaning ==
    /\ \A i \in DOMAIN tasks : IsPrefix(tasks[i].log, want[i].log)
    /\ Running /\ vm.nested = None => IsPrefix(vm.log, want[vm.me].log)
    /\ \A i \in DOMAIN tasks :
         tasks[i].state = "ended" /\ tasks[i].k \in {"ok", "raise"} =>
             /\ tasks[i].log = want[i].log
             /\ (tasks[i].k = "raise") = (want[i].k = "raise")

\* The text of a program is the program: whatever the kinds of its operators and the brackets
\* around them, what verb_code() lists and the database is written with is parsed without
\* an error, and compiling it gives the same code (unparse.cc, parser.y).
TextKept ==
    /\ ~unread
    /\ IsStored /\ vm.code # <<>> => vm.code[MainKey] = want[1]

\* No opcode, error, handler or resumption writes past the run-time stack that
\* alloc_rt_stack() made of the max_stack that code generation computed, and none of the
\* panics of the interpreter is reached: handler marks are where the end of their
\* statement looks for them, and a task that was saved can be read again.
MachineSound ==
    /\ \A i \in DOMAIN vm.stk : Len(vm.stk[i].rts) <=
          VectorOf(vm.code[vm.stk[i].prog], IF i > 1 THEN 0 ELSE vm.root).max_stack
    /\ ~vm.panic
    /\ restarted => \A i \in DOMAIN tasks : tasks[i].state = "suspended" =>
           \A j \in DOMAIN tasks[i].stk :
               check_pc_validity(vm.code[tasks[i].stk[j].prog], IF j > 1 THEN 0 ELSE tasks[i].root, tasks[i].stk[j].pc)

\* Every frame of every traceback names the line its error came from.  It does not hold:
\* see "Disagreements" in the README.
AllLines == vm.misled = {}

\* Every frame of every traceback names the line its error came from, though lines are not
\* kept and find_line_number() finds them by decompiling (but for the stores of an indexed
\* assignment after its first); and a task that an error or a limit ends makes one
\* traceback of it, which its player sees unless #0:handle_... took it; one that ends by
\* itself makes none (decompile.cc, run_interpreter()).
TracebacksRight ==
    /\ "other" \notin vm.misled
    /\ \A i \in DOMAIN tasks : tasks[i].state = "ended" =>
        /\ tasks[i].k = "ok" => tasks[i].told = <<>>
        /\ tasks[i].k = "raise" =>
              \A t \in Range(tasks[i].told) :
                  t[1] = "handle_uncaught_error" => t[2][2][1] = want[i].v
        /\ tasks[i].k = "raise" /\ want[i].v \notin Taken => tasks[i].told # <<>>

\* The opcodes that neither the ticks nor the timer are looked at for: those above OP_G_PUT
Untested == {"PUSH", "PUSH_CLEAR", "IMM", "MAKE_EMPTY_LIST", "LIST_ADD_TAIL", "LIST_APPEND", "PUSH_REF", "PUT_TEMP",
             "PUSH_TEMP", "JUMP", "POP", "EXTENDED", "MAP_CREATE", "MAP_INSERT", "NUM"}
AtNamedWhile ==
    Running /\ Opcode(vm)[1] = "EXTENDED" /\ bc(vm).vector[RUN_ACTIV(vm).pc + 2][1] = "WHILE_ID"

\* A task does not keep the server for itself: it ends, suspends or runs out of ticks or
\* seconds (the limits of setup_task_execution_limits()).  Only a named while loop can go on
\* for ever, if nothing in it is an opcode for which the limits are looked at: EOP_WHILE_ID
\* takes a tick off and does not look whether there are any left.
TurnEnds == <>[]Running => []<>AtNamedWhile /\ <>[](Running /\ Opcode(vm)[1] \in Untested)

\* "the default maximum numbers of `ticks' (basic operations) any task is allowed to use without
\* suspending", and of seconds: no task keeps the server for ever.  It does not hold: see
\* "Disagreements" in the README.
EveryTurnEnds == Running ~> ~Running
=============================================================================
