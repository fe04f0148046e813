------------------------------ MODULE Opcodes ------------------------------
(***************************************************************************)
(* The opcodes of run() in execute.cc.  Each takes the machine after the   *)
(* opcode itself has been read.                                            *)
(***************************************************************************)
EXTENDS Execute

IndexTypes == {"list", "str", "map"}

\* OP_IF, OP_EIF, OP_WHILE and OP_IF_QUES: do_test
do_test(m) ==
    IF is_true(Top(m, 0)) THEN Skipped(pop(m, 1), Sz(m).label) ELSE JUMP(pop(m, 1), LabelAt(m, 0))

\* The end of the range at MAXINT: to goes down instead of from going up
OpForRange(m) ==
    LET to == Top(m, 0)
        from == Top(m, 1)
        lab == LabelAt(m, Sz(m).var_name)
        at == Skipped(SetVar(m, VarAt(m, 0), from), Sz(m).var_name + Sz(m).label)
        left == JUMP(pop(m, 2), lab)
    IN  IF to[1] \notin {"int", "obj"} \/ to[1] # from[1]
        THEN IF RUN_ACTIV(m).debug
             THEN Raise(Skipped(m, Sz(m).var_name + Sz(m).label), ErrV("E_TYPE"), zero) ELSE left
        ELSE IF from[2] > to[2] THEN left
        ELSE IF from[2] < MaxInt THEN Replace(at, 1, <<from[1], from[2] + 1>>)
        ELSE Replace(at, 0, <<to[1], to[2] - 1>>)

\* OP_IMM before OP_POP skips both
OpImm(m) ==
    LET n == Sz(m).literal
        after == Skipped(m, n)
    IN  IF NextByte(after) = <<"POP">> THEN Skipped(after, 1)
        ELSE push(after, m.code[RUN_ACTIV(m).prog].literals[Operand(m, 0, n) + 1])

OpMapInsert(m) ==
    LET key == Top(m, 0) map == Top(m, 2)
    IN  IF map[1] # "map" \/ is_collection(key) THEN PUSH_ERROR(pop(m, 3), "E_TYPE")
        ELSE PushSized(pop(m, 3), mapinsert(map, key, Top(m, 1)))
OpListAddTail(m) ==
    IF Top(m, 1)[1] # "list" THEN PUSH_ERROR(pop(m, 2), "E_TYPE")
    ELSE PushSized(pop(m, 2), listappend(Top(m, 1), Top(m, 0)))
OpListAppend(m) ==
    IF Top(m, 0)[1] # "list" \/ Top(m, 1)[1] # "list" THEN PUSH_ERROR(pop(m, 2), "E_TYPE")
    ELSE PushSized(pop(m, 2), listconcat(Top(m, 1), Top(m, 0)))
OpSplice(m) == IF Top(m, 0)[1] # "list" THEN PUSH_ERROR(pop(m, 1), "E_TYPE") ELSE m

BadIndex(list, index) ==
    \/ list[1] \notin IndexTypes
    \/ list[1] # "map" /\ index[1] # "int"
    \/ list[1] = "map" /\ is_collection(index)
OutOfRange(list, index) == list[1] # "map" /\ index[2] \notin 1 .. Len(list[2])

OpIndexset(m) ==
    LET value == Top(m, 0) index == Top(m, 1) list == Top(m, 2)
        rest == pop(m, 3)
    IN  IF BadIndex(list, index) \/ (list[1] = "str" /\ value[1] # "str") THEN PUSH_ERROR(rest, "E_TYPE")
        ELSE IF OutOfRange(list, index) THEN PUSH_ERROR(rest, "E_RANGE")
        ELSE CASE list[1] = "str" /\ Len(value[2]) # 1 -> PUSH_ERROR(rest, "E_INVARG")
               [] list[1] = "list" -> PushSized(rest, listset(list, value, index[2]))
               [] list[1] = "map" -> PushSized(rest, mapinsert(list, index, value))
               [] OTHER -> push(rest, <<"str", [list[2] EXCEPT ![index[2]] = value[2][1]]>>)

\* OP_MULT, OP_MINUS, OP_DIV, OP_MOD and EOP_EXP; OP_ADD also joins strings
OpArith(m, op) ==
    LET rhs == Top(m, 0) lhs == Top(m, 1)
    IN  IF op = "ADD" /\ lhs[1] = "str" /\ rhs[1] = "str"
        THEN PushSized(pop(m, 2), <<"str", lhs[2] \o rhs[2]>>)
        ELSE PushOrError(pop(m, 2), Arithmetic(op, lhs, rhs))
OpEq(m, op) == push(pop(m, 2), Bool(equality(Top(m, 0), Top(m, 1), FALSE) = (op = "EQ")))
OpCompare(m, op) == PushOrError(pop(m, 2), Comparison(op, Top(m, 1), Top(m, 0)))
OpIn(m) ==
    IF Top(m, 0)[1] \notin {"list", "map"} THEN PUSH_ERROR(pop(m, 2), "E_TYPE")
    ELSE push(pop(m, 2), IntV(ismember(Top(m, 1), Top(m, 0), FALSE)))
OpAndOr(m, op) ==
    IF is_true(Top(m, 0)) = (op = "OR") THEN JUMP(m, LabelAt(m, 0)) ELSE Skipped(pop(m, 1), Sz(m).label)
OpUnary(m, op) ==
    LET arg == Top(m, 0)
    IN  CASE op = "NOT" -> push(pop(m, 1), Bool(~is_true(arg)))
          [] arg[1] = "int" -> push(pop(m, 1), IntV(Wrap(IF op = "UNARY_MINUS" THEN -arg[2] ELSE -arg[2] - 1)))
          [] op = "UNARY_MINUS" /\ arg[1] = "float" -> push(pop(m, 1), <<"float", -arg[2]>>)
          [] OTHER -> PUSH_ERROR(pop(m, 1), "E_TYPE")

Element(list, index) ==
    CASE list[1] = "map" -> list[2][KeyAt(list, index)][2]
      [] list[1] = "list" -> list[2][index[2]]
      [] OTHER -> strget(list, index[2])
OpRef(m) ==
    LET index == Top(m, 0) list == Top(m, 1)
    IN  IF BadIndex(list, index) THEN PUSH_ERROR(pop(m, 2), "E_TYPE")
        ELSE IF OutOfRange(list, index) \/ (list[1] = "map" /\ KeyAt(list, index) = 0)
        THEN PUSH_ERROR(pop(m, 2), "E_RANGE")
        ELSE push(pop(m, 2), Element(list, index))
\* OP_PUSH_REF takes the element out of the list, which is the machine's own copy by
\* now; OP_INDEXSET puts one back
OpPushRef(m) ==
    LET index == Top(m, 0) list == Top(m, 1)
        at == KeyAt(list, index)
    IN  IF list[1] = "str" \/ BadIndex(list, index) THEN PUSH_ERROR(m, "E_TYPE")
        ELSE IF OutOfRange(list, index) \/ (list[1] = "map" /\ at = 0) THEN PUSH_ERROR(m, "E_RANGE")
        ELSE push(Replace(m, 1, IF list[1] = "map" THEN MapV([list[2] EXCEPT ![at] = <<@[1], None>>])
                                ELSE listset(list, None, index[2])), Element(list, index))

BadRange(base, from, to) ==
    \/ base[1] \notin IndexTypes
    \/ base[1] = "map" /\ (is_collection(to) \/ is_collection(from))
    \/ base[1] # "map" /\ (to[1] # "int" \/ from[1] # "int")
OpRangeRef(m) ==
    LET to == Top(m, 0) from == Top(m, 1) base == Top(m, 2)
        rel == compare(from, to, FALSE)
        ends == {KeyAt(base, from), KeyAt(base, to)}
        rest == pop(m, 3)
    IN  IF BadRange(base, from, to) THEN PUSH_ERROR(rest, "E_TYPE")
        ELSE IF base[1] = "map"
        THEN CASE rel <= 0 /\ 0 \in ends -> PUSH_ERROR(rest, "E_RANGE")
               [] rel > 0 -> push(rest, MapV(<<>>))
               [] OTHER -> push(rest, maprange(base, KeyAt(base, from), KeyAt(base, to)))
        ELSE IF from[2] <= to[2] /\ ~({from[2], to[2]} \subseteq 1 .. Len(base[2]))
        THEN PUSH_ERROR(rest, "E_RANGE")
        ELSE push(rest, sublist(base, from[2], to[2]))
OpRangeset(m) ==
    LET value == Top(m, 0) to == Top(m, 1) from == Top(m, 2) base == Top(m, 3)
        rest == pop(m, 4)
    IN  IF BadRange(base, from, to) \/ base[1] # value[1] THEN PUSH_ERROR(rest, "E_TYPE")
        ELSE IF base[1] = "map"
        THEN IF 0 \in {KeyAt(base, from), KeyAt(base, to)} THEN PUSH_ERROR(rest, "E_RANGE")
             ELSE PushSized(rest, maprangeset(base, KeyAt(base, from), KeyAt(base, to), value))
        ELSE IF from[2] > Len(base[2]) + 1 \/ to[2] < 0 THEN PUSH_ERROR(rest, "E_RANGE")
        ELSE PushSized(rest, listrangeset(base, from[2], to[2], value))
\* EOP_FIRST and EOP_LAST look at the collection being indexed, further down the stack
OpFirstLast(m, op) ==
    LET item == RUN_ACTIV(m).rts[Operand(m, 0, Sz(m).stack) + 1]
        after == Skipped(m, Sz(m).stack)
        n == Len(item[2])
    IN  CASE item[1] \in {"str", "list"} -> push(after, IntV(IF op = "LAST" THEN n ELSE IF n > 0 THEN 1 ELSE 0))
          [] item[1] = "map" -> push(after, IF n = 0 THEN None ELSE item[2][IF op = "LAST" THEN n ELSE 1][1])
          [] OTHER -> PUSH_ERROR(after, "E_TYPE")

-----------------------------------------------------------------------------
OpPush(m, slot, clear) ==
    LET v == Var(m, slot)
    IN  IF v = None THEN PUSH_ERROR(m, "E_VARNF")
        ELSE push(IF clear THEN SetVar(m, slot, None) ELSE m, v)
\* OP_PUT before OP_POP does both
OpPut(m, slot) ==
    LET at == SetVar(m, slot, Top(m, 0))
    IN  IF NextByte(m) = <<"POP">> THEN Skipped(pop(at, 1), 1) ELSE at

\* db_property_allows() and bi_prop_protected()
PropKind(name) == IF name \in DOMAIN BuiltIns THEN BuiltIns[name] ELSE "BP_NONE"
bi_prop_protected(m, kind, progr) == kind \in ProtectedProps /\ ~is_wizard(m, progr)
db_property_allows(m, p, progr, flag) == p[flag] \/ progr = p.owner \/ is_wizard(m, progr)
PropError(m, obj, name) ==
    IF ~is_object(obj) \/ name[1] # "str" THEN "E_TYPE"
    ELSE IF ~is_valid(obj) THEN "E_INVIND"
    ELSE IF <<obj[2], name>> \notin DOMAIN m.props THEN "E_PROPNF" ELSE "E_NONE"
ReadError(m, obj, name) ==
    LET progr == RUN_ACTIV(m).progr
    IN  IF PropError(m, obj, name) # "E_NONE" THEN PropError(m, obj, name)
        ELSE IF (IF PropKind(name) # "BP_NONE" THEN bi_prop_protected(m, PropKind(name), progr)
                 ELSE ~db_property_allows(m, m.props[<<obj[2], name>>], progr, "r"))
        THEN "E_PERM" ELSE "E_NONE"
\* OP_GET_PROP, and OP_PUSH_GET_PROP, which keeps the object and the name
OpGetProp(m, kept) ==
    LET name == Top(m, 0) obj == Top(m, 1)
        rest == pop(m, IF kept THEN 0 ELSE 2)
        err == ReadError(m, obj, name)
    IN  IF err # "E_NONE" THEN PUSH_ERROR(rest, err) ELSE push(rest, m.props[<<obj[2], name>>].v)

WriteError(m, obj, name, rhs) ==
    LET progr == RUN_ACTIV(m).progr
        wizard == is_wizard(m, progr)
        kind == PropKind(name)
        owner == m.props[<<obj[2], NameOf("BP_OWNER")>>].v[2]
    IN  IF PropError(m, obj, name) # "E_NONE" THEN PropError(m, obj, name)
        ELSE CASE kind = "BP_NONE" ->
                    IF db_property_allows(m, m.props[<<obj[2], name>>], progr, "w") THEN "E_NONE" ELSE "E_PERM"
               [] kind = "BP_NAME" ->
                    IF rhs[1] # "str" THEN "E_TYPE"
                    ELSE IF ~wizard /\ (obj[2] \in Players \/ bi_prop_protected(m, kind, progr) \/ progr # owner)
                    THEN "E_PERM" ELSE "E_NONE"
               [] kind = "BP_OWNER" -> IF rhs[1] # "obj" THEN "E_TYPE" ELSE IF wizard THEN "E_NONE" ELSE "E_PERM"
               [] kind \in {"BP_PROGRAMMER", "BP_WIZARD"} ->
                    IF ~wizard THEN "E_PERM" ELSE IF obj[1] # "obj" THEN "E_INVARG" ELSE "E_NONE"
               [] kind \in {"BP_R", "BP_W", "BP_F", "BP_A"} ->
                    IF ~wizard /\ (bi_prop_protected(m, kind, progr) \/ progr # owner) THEN "E_PERM" ELSE "E_NONE"
               [] kind \in {"BP_LOCATION", "BP_CONTENTS"} -> "E_PERM"
OpPutProp(m) ==
    LET rhs == Top(m, 0) name == Top(m, 1) obj == Top(m, 2)
        err == WriteError(m, obj, name, rhs)
    IN  IF err # "E_NONE" THEN PUSH_ERROR(pop(m, 3), err)
        ELSE push([pop(m, 3) EXCEPT !.props[<<obj[2], name>>].v =
                      IF PropKind(name) \in {"BP_PROGRAMMER", "BP_WIZARD", "BP_R", "BP_W", "BP_F", "BP_A"}
                      THEN Bool(is_true(rhs)) ELSE rhs], rhs)

-----------------------------------------------------------------------------
\* OP_FORK: the environment is copied now
OpFork(m, with_id) ==
    LET time == Top(m, 0)
        vec == Operand(m, 0, Sz(m).fork)
        id == Operand(m, Sz(m).fork, Sz(m).var_name)
        rest == Skipped(pop(m, 1), Sz(m).fork + IF with_id THEN Sz(m).var_name ELSE 0)
        a == RUN_ACTIV(rest)
        named == IF with_id THEN SetVar(rest, id, IntV(Len(m.forks) + 1)) ELSE rest
        Raised(e) == IF a.debug THEN Raise(rest, ErrV(e), zero) ELSE rest
    IN  CASE time[1] # "int" -> Raised("E_TYPE")
          [] time[1] = "int" /\ time[2] < 0 -> Raised("E_INVARG")
          [] time[1] = "int" /\ time[2] >= 0 /\ a.progr \in NoQuota -> Raised("E_QUOTA")
          [] OTHER -> [named EXCEPT !.forks =
                          Append(@, [vec |-> vec + 1,
                                     a |-> [RUN_ACTIV(named) EXCEPT !.rts = <<>>, !.pc = 0, !.epc = 0, !.bip = 0,
                                                                     !.temp = None]])]

ProtoOf(m, obj) ==
    LET at == <<0, <<"proto", obj[1]>>>>
    IN  IF is_object(obj) THEN obj[2]
        ELSE IF at \in DOMAIN m.props /\ is_valid(m.props[at].v) THEN m.props[at].v[2] ELSE NOTHING
OpCallVerb(m) ==
    LET args == Top(m, 0) verb == Top(m, 1) obj == Top(m, 2)
        rest == pop(m, 3)
        recv == ProtoOf(m, obj)
        r == call_verb2(rest, recv, verb, obj, args, FALSE)
        err == IF args[1] # "list" \/ verb[1] # "str" THEN "E_TYPE"
               ELSE IF is_object(obj) /\ ~is_valid(obj) THEN "E_INVIND"
               ELSE IF ~is_object(obj) /\ recv = NOTHING THEN "E_TYPE" ELSE r.err
    IN  IF err = "E_NONE" THEN r.m ELSE PUSH_ERROR(rest, err)

\* OP_RETURN, OP_RETURN0 and OP_DONE: the value is the result when the stack is gone
OpReturn(m, op) ==
    LET value == IF op = "RETURN" THEN Top(m, 0) ELSE zero
    IN  Unwind(IF op = "RETURN" THEN pop(m, 1) ELSE m, FIN_RETURN, value, value)

OpBiFuncCall(m) ==
    LET args == Top(m, 0)
        rest == Skipped(pop(m, 1), 1)
        suspended(n, e) == IF e = "E_NONE" THEN [n EXCEPT !.out = "BLOCKED"] ELSE PUSH_ERROR(n, e)
        after(p) ==
            CASE p.kind = "RETURN" -> push(p.m, p.v)
              [] p.kind = "RAISE" -> IF RUN_ACTIV(p.m).debug THEN Raise(p.m, p.v, p.value) ELSE push(p.m, p.v)
              [] p.kind = "CALL" -> SetActiv(p.m, [RUN_ACTIV(p.m) EXCEPT !.bid = p.f, !.bip = p.pc, !.data = p.data])
              [] p.kind = "SUSPEND" -> suspended(p.m, suspend_task(p.m))
              [] p.kind = "KILL" -> Abort(p.m, "kill")
    IN  IF args[1] # "list" THEN PUSH_ERROR(rest, "E_TYPE") ELSE after(call_bi_func(rest, NextByte(m)[2], args))

-----------------------------------------------------------------------------
\* EOP_SCATTER: where is the first default to evaluate
OpScatter(m) ==
    LET nargs == Operand(m, 0, 1) nreq == Operand(m, 1, 1) rest == Operand(m, 2, 1)
        have_rest == rest <= nargs
        list == Top(m, 0)
        len == Len(list[2])
        at == Skipped(m, 3)
        width == Sz(m).var_name + Sz(m).label
        over == LabelAt(at, nargs * width)
        err == IF list[1] # "list" THEN "E_TYPE"
               ELSE IF len < nreq \/ (~have_rest /\ len > nargs) THEN "E_ARGS" ELSE "E_NONE"
        nrest == IF have_rest /\ len >= nargs THEN len - nargs + 1 ELSE 0
        step(s, i) ==
            LET id == VarAt(at, (i - 1) * width)
                label == LabelAt(at, (i - 1) * width + Sz(m).var_name)
            IN  IF i = rest
                THEN [s EXCEPT !.m = SetVar(@, id, sublist(list, i, i + nrest - 1)), !.offset = @ + nrest - 1]
                ELSE IF label = 0 THEN [s EXCEPT !.m = SetVar(@, id, list[2][i + s.offset])]
                ELSE IF s.avail > 0
                THEN [s EXCEPT !.m = SetVar(@, id, list[2][i + s.offset]), !.avail = @ - 1]
                ELSE [s EXCEPT !.offset = @ - 1, !.where = IF @ = 0 /\ label # 1 THEN label ELSE @]
        all == FoldLeft(step, [m |-> m, avail |-> len - nreq, offset |-> 0, where |-> 0], [i \in 1 .. nargs |-> i])
    IN  IF err # "E_NONE"
        THEN IF RUN_ACTIV(m).debug THEN Raise(pop(at, 1), ErrV(err), zero)
             ELSE JUMP(push(pop(m, 1), ErrV(err)), over)
        ELSE JUMP(all.m, IF all.where = 0 THEN over ELSE all.where)

\* EOP_END_CATCH and EOP_END_EXCEPT
OpEndTry(m, op) ==
    LET kept == IF op = "END_CATCH" THEN 1 ELSE 0
        mark == Top(m, kept)
        rest == pop(m, kept + 1 + 2 * mark[2])
    IN  IF mark[1] # "catch" THEN [m EXCEPT !.panic = TRUE]
        ELSE JUMP(IF kept = 1 THEN push(rest, Top(m, 0)) ELSE rest, LabelAt(m, 0))
OpEndFinally(m) ==
    IF Top(m, 0)[1] # "finally" THEN [m EXCEPT !.panic = TRUE]
    ELSE push(push(pop(m, 1), FIN_FALL_THRU), zero)
\* Mutant: leaves the reason on the stack when it falls through.
OpContinue_one(m) ==
    LET why == Top(m, 1) rest == pop(m, 2)
    IN  CASE why = FIN_FALL_THRU -> pop(m, 1)
          [] why \in {FIN_EXIT, FIN_RAISE, FIN_RETURN, FIN_UNCAUGHT} -> Unwind(rest, why, Top(m, 0), None)
          [] OTHER -> [m EXCEPT !.panic = TRUE]
\* the end of the handler: go on with what the handler interrupted
OpContinue(m) ==
    LET why == Top(m, 1) rest == pop(m, 2)
    IN  CASE why = FIN_FALL_THRU -> rest
          [] why \in {FIN_EXIT, FIN_RAISE, FIN_RETURN, FIN_UNCAUGHT} -> Unwind(rest, why, Top(m, 0), None)
          [] OTHER -> [m EXCEPT !.panic = TRUE]
OpExit(m, with_id) ==
    LET skip == IF with_id THEN Sz(m).var_name ELSE 0
        to == ListV(<<IntV(Operand(m, skip, Sz(m).stack)), IntV(LabelAt(m, skip + Sz(m).stack))>>)
    IN  Unwind(Skipped(m, skip + Sz(m).stack + Sz(m).label), FIN_EXIT, to, None)

\* EOP_FOR_LIST_1 and EOP_FOR_LIST_2.  A map is walked with an iterator; a key in its
\* place, after the database was loaded, is looked up again.
OpForList(m, two) ==
    LET iter == Top(m, 0) base == Top(m, 1)
        id == VarAt(m, 0)
        index == VarAt(m, Sz(m).var_name)
        head == IF two THEN 2 * Sz(m).var_name ELSE Sz(m).var_name
        at == IF iter = None THEN 1
              ELSE IF iter[1] \in {"int", "iter"} /\ (base[1] # "map" \/ iter[1] = "iter") THEN iter[2]
              ELSE KeyAt(base, iter)
        mark == IF base[1] = "map" THEN "iter" ELSE "int"
        value == IF base[1] = "map" THEN base[2][at][2] ELSE Element(base, IntV(at))
        key == IF base[1] = "map" THEN base[2][at][1] ELSE IntV(at)
        over == JUMP(pop(m, 2), LabelAt(m, head))
        next == Skipped(Replace(SetVar(m, id, value), 0, <<mark, at + 1>>), head + Sz(m).label)
    IN  IF base[1] \notin IndexTypes
        THEN IF RUN_ACTIV(m).debug THEN Raise(Skipped(m, head + Sz(m).label), ErrV("E_TYPE"), zero) ELSE over
        ELSE IF at = 0 \/ at > Len(base[2]) THEN over
        ELSE IF two THEN SetVar(next, index, key) ELSE next

OpExtended(m, op) ==
    CASE op = "RANGESET" -> OpRangeset(m)
      [] op \in {"FIRST", "LAST"} -> OpFirstLast(m, op)
      [] op = "EXP" -> OpArith(m, "EXP")
      [] op = "SCATTER" -> OpScatter(m)
      [] op \in {"PUSH_LABEL", "TRY_FINALLY"} ->
           push(Skipped(m, Sz(m).label), <<IF op = "PUSH_LABEL" THEN "int" ELSE "finally", LabelAt(m, 0)>>)
      [] op = "CATCH" -> push(m, <<"catch", 1>>)
      [] op = "TRY_EXCEPT" -> push(Skipped(m, 1), <<"catch", Operand(m, 0, 1)>>)
      [] op \in {"END_CATCH", "END_EXCEPT"} -> OpEndTry(m, op)
      [] op = "END_FINALLY" -> OpEndFinally(m)
      [] op = "CONTINUE" -> OpContinue(m)
      [] op = "WHILE_ID" -> do_test(Skipped(SetVar(m, VarAt(m, 0), Top(m, 0)), Sz(m).var_name))
      [] op \in {"EXIT", "EXIT_ID"} -> OpExit(m, op = "EXIT_ID")
      [] op \in {"FOR_LIST_1", "FOR_LIST_2"} -> OpForList(m, op = "FOR_LIST_2")
      [] op = "COMPLEMENT" -> OpUnary(m, op)
      [] op \in ExtendedOps -> PushOrError(pop(m, 2), BitOperation(op, Top(m, 1), Top(m, 0)))

OneOperand == {"IF", "EIF", "WHILE", "IF_QUES"}
Operations == {"ADD", "MINUS", "MULT", "DIV", "MOD"}
OpPlain(m, op) ==
    CASE op[1] \in OneOperand -> do_test(m)
      [] op[1] = "JUMP" -> JUMP(m, LabelAt(m, 0))
      [] op[1] = "FOR_RANGE" -> OpForRange(m)
      [] op[1] = "POP" -> pop(m, 1)
      [] op[1] = "IMM" -> OpImm(m)
      [] op[1] = "NUM" -> push(m, IntV(op[2]))
      [] op[1] = "MAP_CREATE" -> push(m, MapV(<<>>))
      [] op[1] = "MAP_INSERT" -> OpMapInsert(m)
      [] op[1] = "MAKE_EMPTY_LIST" -> push(m, ListV(<<>>))
      [] op[1] = "LIST_ADD_TAIL" -> OpListAddTail(m)
      [] op[1] = "LIST_APPEND" -> OpListAppend(m)
      [] op[1] = "INDEXSET" -> OpIndexset(m)
      [] op[1] = "MAKE_SINGLETON_LIST" -> push(pop(m, 1), ListV(<<Top(m, 0)>>))
      [] op[1] = "CHECK_LIST_FOR_SPLICE" -> OpSplice(m)
      [] op[1] = "PUT_TEMP" -> SetActiv(m, [RUN_ACTIV(m) EXCEPT !.temp = Top(m, 0)])
      [] op[1] = "PUSH_TEMP" -> SetActiv(push(m, RUN_ACTIV(m).temp), [RUN_ACTIV(push(m, RUN_ACTIV(m).temp)) EXCEPT !.temp = None])
      [] op[1] \in {"EQ", "NE"} -> OpEq(m, op[1])
      [] op[1] \in {"GT", "LT", "GE", "LE"} -> OpCompare(m, op[1])
      [] op[1] = "IN" -> OpIn(m)
      [] op[1] \in Operations -> OpArith(m, op[1])
      [] op[1] \in {"AND", "OR"} -> OpAndOr(m, op[1])
      [] op[1] \in {"NOT", "UNARY_MINUS"} -> OpUnary(m, op[1])
      [] op[1] = "REF" -> OpRef(m)
      [] op[1] = "PUSH_REF" -> OpPushRef(m)
      [] op[1] = "RANGE_REF" -> OpRangeRef(m)
      [] op[1] = "G_PUT" -> Skipped(SetVar(m, VarAt(m, 0), Top(m, 0)), Sz(m).var_name)
      [] op[1] = "G_PUSH" -> OpPush(Skipped(m, Sz(m).var_name), VarAt(m, 0), FALSE)
      [] op[1] \in {"GET_PROP", "PUSH_GET_PROP"} -> OpGetProp(m, op[1] = "PUSH_GET_PROP")
      [] op[1] = "PUT_PROP" -> OpPutProp(m)
      [] op[1] \in {"FORK", "FORK_WITH_ID"} -> OpFork(m, op[1] = "FORK_WITH_ID")
      [] op[1] \in {"PUSH", "PUSH_CLEAR"} -> OpPush(m, op[2], op[1] = "PUSH_CLEAR")
      [] op[1] = "PUT" -> OpPut(m, op[2])

\* Mutant: the head of a loop costs nothing.
COUNT_TICK_inside(op) == op[1] \in Operations \cup {"CALL_VERB", "BI_FUNC_CALL", "REF", "PUT", "G_PUT"}
COUNT_TICK(op) ==
    \/ op[1] \in OneOperand \cup Operations \cup {"EQ", "NE", "GT", "LT", "GE", "LE", "IN", "AND", "OR", "NOT"}
    \/ op[1] \in {"UNARY_MINUS", "FORK", "FORK_WITH_ID", "FOR_RANGE", "INDEXSET", "PUSH_GET_PROP", "GET_PROP",
                  "CALL_VERB", "PUT_PROP", "BI_FUNC_CALL", "REF", "RANGE_REF",
                  "MAKE_SINGLETON_LIST", "CHECK_LIST_FOR_SPLICE", "PUT", "G_PUT"}
COUNT_EOP_TICK(op) ==
    op \notin {"RANGESET", "FIRST", "LAST", "PUSH_LABEL", "END_CATCH", "END_EXCEPT", "END_FINALLY", "CONTINUE"}

\* the head of the loop of run(): the opcode is read, and its tick is counted
\* (all counts below zero are alike: they stop at -1)
Opcode(m) == NextByte(m)
Counted(m) == [m EXCEPT !.ticks = IF @ < 0 THEN @ ELSE @ - 1]
Fetched(m) ==
    LET counted == IF COUNT_TICK(Opcode(m)) THEN Counted(m) ELSE m
    IN  SetActiv(counted, [RUN_ACTIV(m) EXCEPT !.epc = RUN_ACTIV(m).pc, !.pc = @ + 1])
TimeIsUp(m) == COUNT_TICK(Opcode(m)) /\ (m.ticks <= 1 \/ m.timed)
=============================================================================
