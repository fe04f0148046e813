------------------------------ MODULE Execute ------------------------------
(***************************************************************************)
(* execute.cc: the interpreter of the byte codes that CodeGen makes, one   *)
(* opcode a step, with the calls of verbs and of built-in functions, the   *)
(* unwinding of the stacks, the limits on a task, and the form in which a  *)
(* suspended task is written to the database and read again.               *)
(*                                                                         *)
(* A machine m is what run() works on: code (the programs, by key), stk    *)
(* (activ_stack, the running one last), root (root_activ_vector; 0 is the  *)
(* main vector), ticks, timed (task_timed_out), out (RUN, DONE, ABORTED or *)
(* BLOCKED), result, handler (handler_verb_name and its arguments), log    *)
(* (what the task told its player), props (the properties), forks (the     *)
(* tasks it forked), panic, misled (where tracebacks named wrong lines),   *)
(* and err: the error that the opcode raises or the reason it aborts the   *)
(* task for, which is the last that an opcode does (Concluded).            *)
(*                                                                         *)
(* An activation a: prog (a key of code), env (rt_env), rts (the run-time  *)
(* stack), pc, epc (error_pc), temp, bip, bid and data (bi_func_pc,        *)
(* bi_func_id and bi_func_data), this, player, progr, recv, vloc, verb and *)
(* debug.                                                                  *)
(***************************************************************************)
EXTENDS Decompile

CONSTANTS
    Objects,        \* the valid object numbers; 0 is the system object
    Parents,        \* [Objects -> Seq(Objects)]
    Verbs,          \* <<object, name>> to [body, owner, debug]
    Texts,          \* what eval() can parse: a string to a body
    FirstProps,     \* <<object, name>> to [v, owner, r, w]: the properties at the start
    BuiltIns,       \* the built-in properties: a name to its Bi_Prop
    ProtectedProps, \* the built-in properties that only wizards may read
    ProtectedFuncs, \* the built-in functions that #0:bf_... stand in for
    Players,        \* is_user()
    NoQuota,        \* programmers who may not have a background task
    NumVars,        \* num_var_names, the same for every program
    FgTicks, BgTicks, MaxDepth, MaxLen,
    Catchable       \* SVO_MAX_CONCAT_CATCHABLE

ASSUME ExecuteAssumption ==
    /\ 0 \in Objects /\ FgTicks \in Nat /\ BgTicks \in Nat /\ MaxDepth \in Nat \ {0}
    /\ NumVars \in Nat /\ MaxLen \in Nat /\ Catchable \in BOOLEAN

\* the slots of the variables of every verb; DOBJ stands for the six that a command fills
\* in, and INT for the types
SLOT_THIS == 0
SLOT_CALLER == 1
SLOT_PLAYER == 2
SLOT_DOBJ == 3
SLOT_VERB == 4
SLOT_ARGS == 5
SLOT_INT == 6

NOTHING == -1
Obj(o) == <<"obj", o>>
Empty == <<"str", <<>>>>
FIN_FALL_THRU == IntV(0)
FIN_RAISE == IntV(1)
FIN_UNCAUGHT == IntV(2)
FIN_RETURN == IntV(3)
FIN_ABORT == IntV(4)
FIN_EXIT == IntV(5)

-----------------------------------------------------------------------------
\* the running activation and its stack; Top(m, 0) is the top of the stack
RUN_ACTIV(m) == m.stk[Len(m.stk)]
CALLER_ACTIV(m) == m.stk[Len(m.stk) - 1]
SetActiv(m, a) == [m EXCEPT !.stk[Len(m.stk)] = a]
push(m, v) == [m EXCEPT !.stk[Len(m.stk)].rts = Append(@, v)]
pop(m, n) == [m EXCEPT !.stk[Len(m.stk)].rts = SubSeq(@, 1, Len(@) - n)]
Top(m, i) == LET r == RUN_ACTIV(m).rts IN r[Len(r) - i]
Replace(m, i, v) == [m EXCEPT !.stk[Len(m.stk)].rts[Len(RUN_ACTIV(m).rts) - i] = v]
SetVar(m, slot, v) == [m EXCEPT !.stk[Len(m.stk)].env[slot] = v]
Var(m, slot) == RUN_ACTIV(m).env[slot]

bc(m) == VectorOf(m.code[RUN_ACTIV(m).prog], IF Len(m.stk) > 1 THEN 0 ELSE m.root)
Sz(m) == bc(m).numbytes
Operand(m, off, n) == ReadBytes(bc(m).vector, RUN_ACTIV(m).pc + off, n)
JUMP(m, label) == [m EXCEPT !.stk[Len(m.stk)].pc = label]
Skipped(m, n) == [m EXCEPT !.stk[Len(m.stk)].pc = @ + n]
NextByte(m) == bc(m).vector[RUN_ACTIV(m).pc + 1]
VarAt(m, off) == Operand(m, off, Sz(m).var_name)
LabelAt(m, off) == Operand(m, off, Sz(m).label)

-----------------------------------------------------------------------------
\* find_callable_verbdef(): where the verb is found, depth first; NOTHING if it is not
RECURSIVE find_callable_verbdef(_, _)
find_callable_verbdef(stack, name) ==
    IF stack = <<>> THEN NOTHING
    ELSE IF stack[1] \notin Objects THEN find_callable_verbdef(Tail(stack), name)
    ELSE IF <<stack[1], name>> \in DOMAIN Verbs THEN stack[1]
    ELSE find_callable_verbdef(Parents[stack[1]] \o Tail(stack), name)

is_valid(v) == is_object(v) /\ v[2] \in Objects
HasFlag(m, o, name) == <<o, name>> \in DOMAIN m.props /\ is_true(m.props[<<o, name>>].v)
NameOf(kind) == CHOOSE n \in DOMAIN BuiltIns : BuiltIns[n] = kind
is_wizard(m, o) == HasFlag(m, o, NameOf("BP_WIZARD"))
is_programmer(m, o) == HasFlag(m, o, NameOf("BP_PROGRAMMER"))

\* new_rt_env() and fill_in_rt_consts()
NewEnv == [s \in 0 .. (NumVars - 1) |-> IF s = SLOT_INT THEN IntV(0) ELSE None]
NewActiv(prog, env, this, player, progr, recv, vloc, verb, debug) ==
    [prog |-> prog, env |-> env, rts |-> <<>>, pc |-> 0, epc |-> 0, temp |-> None,
     bip |-> 0, bid |-> "", data |-> "", this |-> this, player |-> player, progr |-> progr, recv |-> recv,
     vloc |-> vloc, verb |-> verb, debug |-> debug]

\* call_verb2() after the verb has been found on where
VerbActiv(m, where, recv, vname, this, args) ==
    LET caller == RUN_ACTIV(m)
        given == caller.env[SLOT_PLAYER]
        player == IF is_wizard(m, caller.progr) /\ given[1] = "obj" THEN given ELSE Obj(caller.player)
        env == [NewEnv EXCEPT ![SLOT_THIS] = this, ![SLOT_CALLER] = caller.this,
                              ![SLOT_DOBJ] = caller.env[SLOT_DOBJ], ![SLOT_PLAYER] = player,
                              ![SLOT_VERB] = vname, ![SLOT_ARGS] = args]
        verb == Verbs[<<where, vname>>]
    IN  NewActiv(<<"verb", where, vname>>, env, this, player[2], verb.owner, recv, Obj(where), vname, verb.debug)

push_activation(m) == Len(m.stk) < MaxDepth

\* the parents that pass() looks at, in order: the first whose ancestry has the verb
PassedTo(parents, vname) ==
    LET found == {i \in DOMAIN parents : find_callable_verbdef(<<parents[i]>>, vname) # NOTHING}
    IN  IF found = {} THEN NOTHING
        ELSE find_callable_verbdef(<<parents[CHOOSE i \in found : \A j \in found : i <= j]>>, vname)

call_verb2(m, recv, vname, this, args, do_pass) ==
    LET vloc == RUN_ACTIV(m).vloc
        orphan == IF do_pass THEN ~is_valid(vloc) \/ Parents[vloc[2]] = <<>> ELSE recv \notin Objects
        where == IF do_pass THEN PassedTo(Parents[vloc[2]], vname) ELSE find_callable_verbdef(<<recv>>, vname)
        err == IF orphan THEN "E_INVIND"
               ELSE IF where = NOTHING THEN "E_VERBNF"
               ELSE IF ~push_activation(m) THEN "E_MAXREC" ELSE "E_NONE"
    IN  [err |-> err,
         m |-> IF err = "E_NONE"
               THEN [m EXCEPT !.stk = Append(@, VerbActiv(m, where, recv, vname, this, args))] ELSE m]

setup_activ_for_eval(m, text) ==
    LET caller == RUN_ACTIV(m)
        env == [NewEnv EXCEPT ![SLOT_THIS] = Obj(NOTHING), ![SLOT_CALLER] = caller.this,
                              ![SLOT_DOBJ] = Obj(NOTHING), ![SLOT_PLAYER] = Obj(caller.player),
                              ![SLOT_VERB] = Empty, ![SLOT_ARGS] = ListV(<<>>)]
    IN  [m EXCEPT !.stk = Append(@, NewActiv(<<"text", 0, text>>, env, Obj(NOTHING), caller.player, caller.progr,
                                             NOTHING, Obj(NOTHING), Empty, TRUE))]

-----------------------------------------------------------------------------
\* the name of a built-in function, and bf_ before it, are strings of one character
FuncNames == <<"notify", "raise", "suspend", "pass", "set_task_perms", "task_perms", "caller_perms",
               "callers", "ticks_left", "eval", "call_function", "kill_task">>
FuncStr(f) == <<"str", <<1000 + RankIn(FuncNames, f)>>>>
BfStr(f) == <<"str", <<2000 + RankIn(FuncNames, f)>>>>
\* bf_table: the least and the most arguments, and the types of the first ones
FuncTable ==
    [notify |-> <<1, 1, <<"any">>>>, raise |-> <<1, 3, <<"any", "str", "any">>>>, suspend |-> <<0, 1, <<"int">>>>,
     pass |-> <<0, -1, <<>>>>, set_task_perms |-> <<1, 1, <<"obj">>>>, task_perms |-> <<0, 0, <<>>>>,
     caller_perms |-> <<0, 0, <<>>>>, callers |-> <<0, 1, <<"any">>>>, ticks_left |-> <<0, 0, <<>>>>,
     eval |-> <<1, -1, <<"str">>>>, call_function |-> <<1, -1, <<"str">>>>, kill_task |-> <<0, 0, <<>>>>]
\* make_stack_list(): one entry for each activation, the running one first; the
\* line of an activation is that of its error_pc
LineOf(m, i) == find_line_number(m.code[m.stk[i].prog], IF i = 1 THEN m.root ELSE 0, m.stk[i].epc)
\* for judging it: the line that the byte at error_pc comes from
SourceLine(m, i) == VectorOf(m.code[m.stk[i].prog], IF i = 1 THEN m.root ELSE 0).lines[m.stk[i].epc + 1]
LinesOf(m, start) == [i \in start .. Len(m.stk) |-> LineOf(m, i)]
Misled(m, lines) ==
    {IF SourceLine(m, i) < 0 THEN "store" ELSE "other" :
        i \in {j \in DOMAIN lines : SourceLine(m, j) \notin {0, lines[j], -lines[j]}}}
FrameOf(a, more) == ListV(<<a.this, a.verb, Obj(a.progr), a.vloc, Obj(a.player)>> \o more)
BuiltinFrameOf(a, more) == ListV(<<Obj(NOTHING), FuncStr(a.bid), Obj(NOTHING), Obj(NOTHING), Obj(a.player)>> \o more)
make_stack_list(m, start, include_end, line_numbers_too, lines) ==
    LET n == Len(m.stk)
        entries(i) == (IF include_end \/ i # n
                       THEN <<FrameOf(m.stk[i], IF line_numbers_too THEN <<IntV(lines[i])>> ELSE <<>>)>> ELSE <<>>)
                      \o (IF i # start /\ m.stk[i].bip # 0
                          THEN <<BuiltinFrameOf(m.stk[i], IF line_numbers_too THEN <<IntV(m.stk[i].bip)>> ELSE <<>>)>>
                          ELSE <<>>)
    IN  ListV(FlattenSeq([k \in 1 .. (n - start + 1) |-> entries(n + 1 - k)]))

Handles(codes, code) == codes[1] # "list" \/ ismember(code, codes, FALSE) > 0
\* the arms of the handler whose mark is at place i of the stack: codes and label, in order
ArmsAt(rts, i) == LET n == rts[i][2] IN [k \in 1 .. n |-> <<rts[i - 2 * n + 2 * k - 2], rts[i - 2 * n + 2 * k - 1]>>]
HasHandler(rts, code) ==
    \E i \in DOMAIN rts : rts[i][1] = "catch" /\ \E k \in 1 .. rts[i][2] : Handles(ArmsAt(rts, i)[k][1], code)
find_handler_activ(m, code) ==
    LET frames == {i \in DOMAIN m.stk : HasHandler(m.stk[i].rts, code)}
    IN  IF frames = {} THEN 0 ELSE CHOOSE i \in frames : \A j \in frames : j <= i

\* the inner loop of unwind_stack(): down the stack of one activation, to goal
RECURSIVE UnwindActiv(_, _, _, _)
UnwindActiv(a, why, value, goal) ==
    LET v == Last(a.rts)
        below == Front(a.rts)
        rest == SubSeq(below, 1, Len(below) - 2 * v[2])
        caught(at, rts) == [caught |-> TRUE, a |-> [a EXCEPT !.pc = at, !.rts = rts]]
        first(arms, fits) == arms[CHOOSE k \in fits : \A j \in fits : k <= j]
        tried(arms, fits) == IF fits = {} THEN UnwindActiv([a EXCEPT !.rts = rest], why, value, goal)
                             ELSE caught(first(arms, fits)[2][2], Append(rest, value))
        fitting(arms) == tried(arms, {k \in DOMAIN arms : Handles(arms[k][1], value[2][1])})
    IN  CASE Len(a.rts) <= goal -> [caught |-> FALSE, a |-> a]
          [] Len(a.rts) > goal /\ why # FIN_ABORT /\ v[1] = "finally" -> caught(v[2], below \o <<why, value>>)
          [] Len(a.rts) > goal /\ why = FIN_RAISE /\ v[1] = "catch" -> fitting(ArmsAt(a.rts, Len(a.rts)))
          [] OTHER -> UnwindActiv([a EXCEPT !.rts = below], why, value, goal)

RECURSIVE unwind_stack(_, _, _, _), call_bi_func(_, _, _), CallAgain(_, _, _, _, _), Squelched(_, _, _, _), Concluded(_)

\* suspend_task(): the task is queued, unless its owner has too many already
suspend_task(m) == IF RUN_ACTIV(m).progr \in NoQuota THEN "E_QUOTA" ELSE "E_NONE"

\* The calls of raise_error(), abort_task() and unwind_stack() that end an opcode: Concluded
\* makes them.  result is what the task returns if this unwinds all of it.
Raise(m, code, value) == [m EXCEPT !.err = <<"raise", code, value>>]
Abort(m, reason) == [m EXCEPT !.err = <<"abort", reason>>]
Unwind(m, why, value, result) == [m EXCEPT !.err = <<"unwind", why, value, result>>]

\* a built-in function returns to MOO code, having been called back by unwind_stack()
AfterCallback(m, p) ==
    CASE p.kind = "RETURN" -> push(p.m, p.v)
      [] p.kind = "RAISE" -> IF RUN_ACTIV(m).debug THEN Raise(p.m, p.v, p.value) ELSE push(p.m, p.v)
      [] p.kind = "CALL" -> SetActiv(p.m, [RUN_ACTIV(p.m) EXCEPT !.bid = p.f, !.bip = p.pc, !.data = p.data])
      [] p.kind = "SUSPEND" -> IF suspend_task(p.m) = "E_NONE" THEN [p.m EXCEPT !.out = "BLOCKED"]
                               ELSE [p.m EXCEPT !.panic = TRUE]    \* unwinds with an error for a list
      [] p.kind = "KILL" -> Abort(p.m, "kill")

\* the callbacks of a built-in function while its caller is being unwound: what it
\* returns, raises or suspends is ignored, and what it calls returns at once
Squelched(m, f, pc, data) ==
    LET back(p) == [p.m EXCEPT !.stk = Front(@)]
        after(p) == IF p.kind # "CALL" THEN p.m
                    ELSE IF p.pc = 0 THEN back(p) ELSE Squelched(back(p), f, p.pc, p.data)
    IN  after(CallAgain(m, f, zero, pc, data))

unwind_stack(m, why, value, result) ==
    LET a == RUN_ACTIV(m)
        below == [m EXCEPT !.stk = Front(@)]
        uncaught(at) ==
            IF why = FIN_EXIT THEN JUMP(at, value[2][2][2])
            ELSE IF Len(m.stk) = 1
            THEN IF why = FIN_RETURN THEN [at EXCEPT !.out = "DONE", !.result = result] ELSE [at EXCEPT !.out = "ABORTED"]
            ELSE IF why = FIN_RETURN
            THEN IF a.bip = 0 THEN push(below, value)
                 ELSE AfterCallback(below, CallAgain(below, a.bid, value, a.bip, a.data))
            ELSE unwind_stack(IF a.bip = 0 THEN below ELSE Squelched(below, a.bid, a.bip, a.data), why, value, result)
        after(u) == IF u.caught THEN SetActiv(m, u.a) ELSE uncaught(SetActiv(m, u.a))
    IN  after(UnwindActiv(a, why, value, IF why = FIN_EXIT THEN value[2][1][2] ELSE 0))

\* A traceback of the activations from start on has been made
Seen(m, lines, handler) == [m EXCEPT !.misled = @ \cup Misled(m, lines), !.handler = handler]
raise_error(m, code, value) ==
    LET unwound(h, lines, list) ==
            IF h > 0 THEN Unwind(Seen(m, lines, m.handler), FIN_RAISE, list, None)
            ELSE Unwind(Seen(m, lines, <<"handle_uncaught_error", list>>), FIN_UNCAUGHT, zero, None)
        traced(h, start, lines) ==
            unwound(h, lines, ListV(<<code, Empty, value, make_stack_list(m, start, TRUE, TRUE, lines)>>))
        found(h, start) == traced(h, start, LinesOf(m, start))
        handled(h) == found(h, IF h > 0 THEN h ELSE 1)
    IN  handled(find_handler_activ(m, code))
abort_task(m, reason) ==
    LET list(lines) == ListV(<<<<"str", IF reason = "ticks" THEN <<116>> ELSE <<115>>>>, make_stack_list(m, 1, TRUE, TRUE, lines)>>)
        told(lines) == Seen(m, lines, <<"handle_task_timeout", list(lines)>>)
    IN  Unwind(IF reason = "kill" THEN m ELSE told(LinesOf(m, 1)), FIN_ABORT, zero, None)
Concluded(m) ==
    LET at == [m EXCEPT !.err = None]
        e == m.err
    IN  IF e = None THEN m
        ELSE Concluded(CASE e[1] = "raise" -> raise_error(at, e[2], e[3])
                         [] e[1] = "abort" -> abort_task(at, e[2])
                         [] e[1] = "unwind" -> unwind_stack(at, e[2], e[3], e[4]))

\* RAISE_ERROR and PUSH_ERROR: without the debug flag the error is a value.  When
\* the whole stack is unwound, run() returns OUTCOME_ABORTED.
PUSH_ERROR(m, e) == IF RUN_ACTIV(m).debug THEN Raise(m, ErrV(e), zero) ELSE push(m, ErrV(e))
PUSH_ERROR_UNLESS_QUOTA(m, e) == IF e = "E_QUOTA" /\ ~Catchable THEN Abort(m, "seconds") ELSE PUSH_ERROR(m, e)
PushOrError(m, v) == IF v[1] = "err" THEN PUSH_ERROR(m, v[2]) ELSE push(m, v)
\* the checks of value_bytes() and memo_strlen() against the server options
PushSized(m, v) == IF Len(v[2]) <= MaxLen THEN push(m, v) ELSE PUSH_ERROR_UNLESS_QUOTA(m, "E_QUOTA")

-----------------------------------------------------------------------------
\* The packages of the built-in functions
make_var_pack(m, v) == [kind |-> "RETURN", m |-> m, v |-> v]
make_raise_pack(m, code, value) == [kind |-> "RAISE", m |-> m, v |-> code, value |-> value]
make_error_pack(m, e) == make_raise_pack(m, ErrV(e), zero)
make_call_pack(m, f, pc, data) == [kind |-> "CALL", m |-> m, f |-> f, pc |-> pc, data |-> data]
tail_call_pack(m, f) == make_call_pack(m, f, 0, "")
CalledOr(f, r) == IF r.err = "E_NONE" THEN tail_call_pack(r.m, f) ELSE make_error_pack(r.m, r.err)

bf_pass(m, args) ==
    LET a == RUN_ACTIV(m) IN CalledOr("pass", call_verb2(m, a.recv, a.verb, a.this, args, TRUE))
bf_raise(m, args) ==
    make_raise_pack(m, args[2][1], IF Len(args[2]) >= 3 THEN args[2][3] ELSE zero)
bf_suspend(m, args) ==
    IF args[2] # <<>> /\ args[2][1][2] < 0 THEN make_error_pack(m, "E_INVARG")
    ELSE [kind |-> "SUSPEND", m |-> m]
bf_set_task_perms(m, args, progr) ==
    LET oid == args[2][1][2]
    IN  IF progr # oid /\ ~is_wizard(m, progr) THEN make_error_pack(m, "E_PERM")
        ELSE make_var_pack(SetActiv(m, [RUN_ACTIV(m) EXCEPT !.progr = oid]), zero)
bf_task_perms(m) == make_var_pack(m, Obj(RUN_ACTIV(m).progr))
bf_caller_perms(m) == make_var_pack(m, Obj(IF Len(m.stk) = 1 THEN NOTHING ELSE CALLER_ACTIV(m).progr))
bf_callers(m, args) ==
    make_var_pack(m, make_stack_list(m, 1, FALSE, args[2] # <<>> /\ is_true(args[2][1]), LinesOf(m, 1)))
bf_ticks_left(m) == make_var_pack(m, IntV(m.ticks))
\* eval(): the program runs in an activation of its own, then comes back with func_pc 2
bf_eval(m, args, progr) ==
    IF ~is_programmer(m, progr) THEN make_error_pack(m, "E_PERM")
    ELSE IF \E i \in DOMAIN args[2] : args[2][i][1] # "str" THEN make_error_pack(m, "E_TYPE")
    ELSE IF args[2][1] \notin DOMAIN Texts THEN make_var_pack(m, ListV(<<zero, ListV(<<>>)>>))
    ELSE IF ~push_activation(m) THEN make_error_pack(m, "E_MAXREC")
    ELSE make_call_pack(setup_activ_for_eval(m, args[2][1]), "eval", 2, "")
\* call_function(): data is the name of the function and its own data
ByName(f, p) == IF p.kind = "CALL" THEN [p EXCEPT !.f = "call_function", !.data = <<f, p.data>>] ELSE p
bf_call_function(m, args) ==
    LET known == {f \in DOMAIN FuncTable : FuncStr(f) = args[2][1]}
        first(f) == ByName(f, call_bi_func(m, f, ListV(Tail(args[2]))))
    IN  IF known = {} THEN make_raise_pack(m, ErrV("E_INVARG"), args[2][1]) ELSE first(CHOOSE f \in known : TRUE)

ArgsFit(f, args) ==
    LET n == Len(args) t == FuncTable[f]
    IN  CASE n < t[1] \/ (t[2] # -1 /\ n > t[2]) -> "E_ARGS"
          [] \E k \in 1 .. (IF t[2] = -1 THEN t[1] ELSE n) : t[3][k] \notin {"any", args[k][1]} -> "E_TYPE"
          [] OTHER -> "E_NONE"

\* call_bi_func() with func_pc 1, and above 1, which only the functions that asked for it see
call_bi_func(m, f, args) ==
    LET a == RUN_ACTIV(m)
        called == CASE f = "notify" -> make_var_pack([m EXCEPT !.log = Append(@, args[2][1])], zero)
                    [] f = "raise" -> bf_raise(m, args)
                    [] f = "suspend" -> bf_suspend(m, args)
                    [] f = "pass" -> bf_pass(m, args)
                    [] f = "set_task_perms" -> bf_set_task_perms(m, args, a.progr)
                    [] f = "task_perms" -> bf_task_perms(m)
                    [] f = "caller_perms" -> bf_caller_perms(m)
                    [] f = "callers" -> bf_callers(m, args)
                    [] f = "ticks_left" -> bf_ticks_left(m)
                    [] f = "eval" -> bf_eval(m, args, a.progr)
                    [] f = "call_function" -> bf_call_function(m, args)
                    [] f = "kill_task" -> [kind |-> "KILL", m |-> m]
        checked(e) == IF e # "E_NONE" THEN make_error_pack(m, e) ELSE called
        own == [kind |-> "OWN"]
        stood_in(r) ==
            IF r.err = "E_NONE" THEN tail_call_pack(r.m, f)
            ELSE IF r.err = "E_MAXREC" THEN make_error_pack(m, "E_MAXREC")
            ELSE IF ~is_wizard(m, a.progr) THEN make_error_pack(m, "E_PERM") ELSE own
        protected(p) == IF p = own THEN checked(ArgsFit(f, args[2])) ELSE p
    IN  protected(IF f \in ProtectedFuncs /\ a.this # Obj(0)
                  THEN stood_in(call_verb2(m, 0, BfStr(f), Obj(0), args, FALSE)) ELSE own)
CallAgain(m, f, args, func_pc, data) ==
    CASE f = "eval" /\ func_pc = 2 -> make_var_pack(m, ListV(<<IntV(1), args>>))
      [] f = "call_function" -> ByName(data[1], CallAgain(m, data[1], args, func_pc, data[2]))
=============================================================================
