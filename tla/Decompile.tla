----------------------------- MODULE Decompile -----------------------------
(***************************************************************************)
(* decompile.cc: from byte codes back to the tree, and from a place in the *)
(* byte codes to a line of the program.                                    *)
(*                                                                         *)
(* d says what is decompiled: a program, which of its vectors (0 is the    *)
(* main one), and hot_byte as a vector and a place in it.  r is the state  *)
(* of one call: ptr, the stack of expressions, the statements and arms     *)
(* written to the sinks, stmt_start and asgn_hot; done once it has         *)
(* returned early; ok until a panic.  hot_node is kept as a mark on the    *)
(* node itself: an expression is [e, hot], a statement <<mark, statement>> *)
(* and an arm <<mark, ...>>, with hot_position as mark.                    *)
(***************************************************************************)
EXTENDS CodeGen

VectorOf(prog, vec) == IF vec = 0 THEN prog.main ELSE prog.forks[vec]
ReadBytes(v, ptr, n) == FoldLeft(LAMBDA acc, x : acc * Base + x[2], 0, SubSeq(v, ptr + 1, ptr + n))

Mark(hot) == IF hot THEN "TOP" ELSE "no"
BinaryOf == {"EQ", "NE", "LT", "LE", "GT", "GE", "IN", "ADD", "MINUS", "MULT", "DIV", "MOD", "GET_PROP"}
            \cup (ExtendedOps \ UnaryOps)

push_expr(e, hot, r) == [r EXCEPT !.stk = Append(@, [e |-> e, hot |-> hot])]
PopN(n, r) == [r EXCEPT !.stk = SubSeq(@, 1, Len(@) - n)]
Kid(r, i) == r.stk[Len(r.stk) - i]          \* i = 0 is the top
Skip(n, r) == [r EXCEPT !.ptr = @ + n]
Panic(bad, r) == [r EXCEPT !.ok = @ /\ ~bad]
ADD_STMT(mark, s, r) == [r EXCEPT !.out = Append(@, <<mark, s>>), !.start = r.ptr]

IsHot(d, ptr) == d.hotvec = d.vec /\ d.hotpc = ptr
ByteAt(d, ptr) == VectorOf(d.prog, d.vec).vector[ptr + 1]
Label(d, ptr) == ReadBytes(VectorOf(d.prog, d.vec).vector, ptr, VectorOf(d.prog, d.vec).numbytes.label)
Id(d, ptr) == ReadBytes(VectorOf(d.prog, d.vec).vector, ptr, VectorOf(d.prog, d.vec).numbytes.var_name)
Sizes(d) == VectorOf(d.prog, d.vec).numbytes
JumpLen(d) == Sizes(d).label + 1

RECURSIVE decompile(_, _, _), ScatterParts(_, _, _, _), ExceptParts(_, _, _, _)

\* the recursive call, with sinks of its own
Sub(d, r, end) ==
    decompile(d, [r EXCEPT !.out = <<>>, !.arms = <<>>, !.start = r.ptr, !.asgn_hot = FALSE], end)
\* back in the caller: the statements are those of r, the rest has moved on
Back(r, sub) == [sub EXCEPT !.out = r.out, !.arms = r.arms, !.start = r.start,
                            !.asgn_hot = r.asgn_hot, !.done = FALSE]
\* read_jump(): the jump at r.ptr goes to target
read_jump(d, target, r) ==
    Skip(JumpLen(d), Panic(ByteAt(d, r.ptr) # <<"JUMP">> \/ Label(d, r.ptr + 1) # target, r))

\* OP_IF and OP_EIF: r.ptr is after the opcode
DecompileIf(d, op, hot, r, end) ==
    LET cond == Kid(r, 0)
        arm(body) == <<IF IsHot(d, body.ptr) THEN "BOTTOM" ELSE Mark(hot \/ cond.hot), cond.e, body.out>>
        closed(a, rest) == ADD_STMT("no", <<"if", <<a>> \o rest.arms, rest.out>>, Back(r, rest))
        whole(a, over, body) == closed(a, Sub(d, read_jump(d, over, body), over))
        linked(a, at) == [at EXCEPT !.arms = Append(@, a), !.start = at.ptr]
        after(body) == IF op = "IF" THEN whole(arm(body), Label(d, body.ptr + 1), body)
                       ELSE linked(arm(body), read_jump(d, end, Back(r, body)))
    IN  after(Sub(d, PopN(1, Skip(Sizes(d).label, r)), Label(d, r.ptr) - JumpLen(d)))

\* the loops: head is the number of operand bytes before the label, tree the statement
\* without its body
DecompileLoop(d, hot, top, kids, head, r, tree) ==
    LET over == Label(d, r.ptr + head)
        warm == hot \/ \E i \in 0 .. (kids - 1) : Kid(r, i).hot
        after(body) == ADD_STMT(IF IsHot(d, body.ptr) THEN "BOTTOM" ELSE Mark(warm), Append(tree, body.out),
                                Back(r, read_jump(d, top, body)))
    IN  after(Sub(d, PopN(kids, Skip(head + Sizes(d).label, r)), over - JumpLen(d)))

DecompileFork(d, op, hot, r) ==
    LET at == ReadBytes(VectorOf(d.prog, d.vec).vector, r.ptr, Sizes(d).fork)
        q == Skip(Sizes(d).fork, r)
        id == IF op = "FORK" THEN -1 ELSE Id(d, q.ptr)
        fd == [d EXCEPT !.vec = at + 1]
        size == VectorOf(d.prog, at + 1).size
        bottom == IsHot(fd, size - 1)
        mark == IF bottom THEN "BOTTOM" ELSE Mark(hot \/ Kid(r, 0).hot)
        after(body) == ADD_STMT(mark, <<"fork", id, Kid(r, 0).e, body.out>>,
                          [Back(r, body) EXCEPT !.ptr = q.ptr + IF op = "FORK" THEN 0 ELSE Sizes(d).var_name])
    IN  after(Sub(fd, [PopN(1, r) EXCEPT !.ptr = 0], size))

DecompileAndOr(d, op, hot, r) ==
    LET after(rhs) == push_expr(<<IF op = "AND" THEN "and" ELSE "or", Kid(r, 0).e, Kid(rhs, 0).e>>,
                                hot \/ Kid(r, 0).hot \/ Kid(rhs, 0).hot, PopN(1, Back(r, rhs)))
    IN  after(Sub(d, PopN(1, Skip(Sizes(d).label, r)), Label(d, r.ptr)))

DecompileCond(d, hot, r) ==
    LET closed(a, b) ==
            push_expr(<<"cond", Kid(r, 0).e, Kid(a, 0).e, Kid(b, 0).e>>,
                      hot \/ IsHot(d, a.ptr) \/ Kid(r, 0).hot \/ Kid(a, 0).hot \/ Kid(b, 0).hot, PopN(1, Back(r, b)))
        otherwise(a, over) == closed(a, Sub(d, PopN(1, read_jump(d, over, a)), over))
        after(a) == otherwise(a, Label(d, a.ptr + 1))
    IN  after(Sub(d, PopN(1, Skip(Sizes(d).label, r)), Label(d, r.ptr) - JumpLen(d)))

\* finish_indexed_assignment: skip to PUSH_TEMP.  A hot byte on the way makes
\* expr_stack[top_expr_stack] the hot node, which is not the assignment but a
\* node below it: the mark is lost.
SkipToTemp(d, r) ==
    LET v == VectorOf(d.prog, d.vec).vector
        at == CHOOSE p \in r.ptr .. (Len(v) - 1) :
                 v[p + 1] = <<"PUSH_TEMP">> /\ \A q \in r.ptr .. (p - 1) : v[q + 1] # <<"PUSH_TEMP">>
        lost == d.hotvec = d.vec /\ d.hotpc \in r.ptr .. (at - 1)
        top == Kid(r, 0)
    IN  [(IF lost THEN push_expr(top.e, FALSE, PopN(1, r)) ELSE r)
            EXCEPT !.ptr = at + 1, !.asgn_hot = FALSE]

\* EOP_SCATTER: the operands, then the defaults
ScatterParts(d, i, n, ptr) ==       \* <<id, label>> of each operand
    IF i > n THEN <<>>
    ELSE <<<<Id(d, ptr), Label(d, ptr + Sizes(d).var_name)>>>>
         \o ScatterParts(d, i + 1, n, ptr + Sizes(d).var_name + Sizes(d).label)
DecompileScatter(d, hot, r) ==
    LET n == ByteAt(d, r.ptr)[2]
        rest == ByteAt(d, r.ptr + 2)[2]
        ops == ScatterParts(d, 1, n, r.ptr + 3)
        q == Skip(3 + n * (Sizes(d).var_name + Sizes(d).label), r)
        over == Label(d, q.ptr)
        later(i) == {ops[j][2] : j \in {k \in (i + 1) .. n : ops[k][2] > 1}}
        stop(i) == IF later(i) = {} THEN over ELSE CHOOSE l \in later(i) : \A m \in later(i) : l <= m
        kind(i) == IF i = rest THEN "rest" ELSE IF ops[i][2] = 0 THEN "required" ELSE "optional"
        default(acc, i, dflt, e) ==
            [scs |-> Append(acc.scs, <<kind(i), ops[i][1], e.e[3]>>),
             hot |-> acc.hot \/ e.hot \/ IsHot(d, dflt.ptr),
             r |-> Skip(1, PopN(1, Panic(e.e[1] # "asgn" \/ e.e[2] # <<"id", ops[i][1]>> \/ ByteAt(d, dflt.ptr) # <<"POP">>,
                                         Back(r, dflt))))]
        after(acc, i, dflt) == default(acc, i, dflt, Kid(dflt, 0))
        step(acc, i) ==
            IF ops[i][2] <= 1 THEN [acc EXCEPT !.scs = Append(@, <<kind(i), ops[i][1], None>>)]
            ELSE after(acc, i, Sub(d, Panic(acc.r.ptr # ops[i][2], acc.r), stop(i) - 1))
        whole(all, rhs) ==
            push_expr(<<"asgn", <<"scatter", all.scs>>, rhs.e>>, all.hot \/ rhs.hot,
                      PopN(1, Panic(all.r.ptr # over, all.r)))
        closed(all) == whole(all, Kid(all.r, 0))
    IN  closed(FoldLeft(step, [scs |-> <<>>, hot |-> hot, r |-> Skip(Sizes(d).label, q)], [i \in 1 .. n |-> i]))

CodesOf(e) == IF e[1] = "list" THEN e[2] ELSE <<>>
NotCodes(e) == e[1] # "list" /\ e # <<"var", <<"int", 0>>>>

DecompileCatch(d, hot, r, end) ==
    LET label == Kid(r, 0)
        codes == Kid(r, 1)
        plain(q) == ByteAt(d, q.ptr) = <<"NUM", 1>>
        hots(try, q) == \/ hot \/ IsHot(d, try.ptr) \/ IsHot(d, q.ptr)
                        \/ label.hot \/ codes.hot \/ Kid(q, 0).hot
        bad(try, over, q) == \/ NotCodes(codes.e) \/ ByteAt(d, try.ptr + 1) # <<"END_CATCH">> \/ q.ptr # label.e[2][2]
                             \/ ~plain(q) /\ ByteAt(d, q.ptr) # <<"POP">>
                             \/ plain(q) /\ q.ptr + 2 # over
        e(q, except) == <<"catch", Kid(q, 0).e, CodesOf(codes.e), except>>
        default(q, h, dflt) == push_expr(e(q, Kid(dflt, 0).e), h \/ Kid(dflt, 0).hot, PopN(1, Back(r, dflt)))
        closed(over, q, h) ==
            IF plain(q) THEN push_expr(e(q, None), h \/ IsHot(d, q.ptr + 1), Skip(2, PopN(1, q)))
            ELSE default(q, h, Sub(d, PopN(1, Skip(1, q)), over))
        after(try, over, q) == Panic(bad(try, over, q), closed(over, q, hots(try, q)))
        tried(try) == after(try, Label(d, try.ptr + 2), Skip(2 + Sizes(d).label, Back(r, try)))
    IN  tried(Sub(d, PopN(2, r), end))

\* the handlers of a try-except, from the one at r.ptr
ExceptParts(d, arms, over, r) ==
    LET op == ByteAt(d, r.ptr)
        put == CASE op[1] = "G_PUT" -> 1 + Sizes(d).var_name
                 [] op[1] = "PUT" -> 1
                 [] OTHER -> 0
        id == CASE op[1] = "G_PUT" -> Id(d, r.ptr + 1)
                [] op[1] = "PUT" -> op[2]
                [] OTHER -> -1
        hot == arms[1].hot \/ IsHot(d, r.ptr) \/ IsHot(d, r.ptr + put)
        last == Len(arms) = 1
        arm(body) == <<IF ~last /\ IsHot(d, body.ptr) THEN "BOTTOM" ELSE Mark(hot), id, arms[1].codes, body.out>>
        after(body) == ExceptParts(d, Tail(arms), over,
                         [Back(r, IF last THEN body ELSE read_jump(d, over, body)) EXCEPT !.arms = Append(@, arm(body))])
    IN  IF arms = <<>> THEN Panic(r.ptr # over, r)
        ELSE after(Sub(d, Skip(put + 1, Panic(r.ptr # arms[1].label \/ ByteAt(d, r.ptr + put) # <<"POP">>, r)),
                       IF last THEN over ELSE arms[2].label - JumpLen(d)))

DecompileExcept(d, hot, r, end) ==
    LET n == ByteAt(d, r.ptr)[2]
        arm(i) == [label |-> Kid(r, 2 * (n - i)).e[2][2], codes |-> CodesOf(Kid(r, 2 * (n - i) + 1).e),
                   hot |-> Kid(r, 2 * (n - i)).hot \/ Kid(r, 2 * (n - i) + 1).hot]
        closed(body, arms) ==
            ADD_STMT(IF IsHot(d, body.ptr) THEN "ENDBODY" ELSE Mark(hot), <<"except", body.out, arms.arms>>, Back(r, arms))
        handlers(body, q) ==
            closed(body, ExceptParts(d, [i \in 1 .. n |-> arm(i)], Label(d, body.ptr + 2), [q EXCEPT !.arms = <<>>]))
        after(body) ==
            handlers(body, Skip(2 + Sizes(d).label, Panic(ByteAt(d, body.ptr + 1) # <<"END_EXCEPT">>, Back(r, body))))
    IN  after(Sub(d, PopN(2 * n, Skip(1, r)), end))

DecompileFinally(d, hot, r, end) ==
    LET label == Label(d, r.ptr)
        closed(body, handler) ==
            ADD_STMT(IF IsHot(d, handler.ptr) THEN "BOTTOM" ELSE IF IsHot(d, body.ptr) THEN "ENDBODY" ELSE Mark(hot),
                     <<"finally", body.out, handler.out>>,
                     Skip(2, Panic(ByteAt(d, handler.ptr + 1) # <<"CONTINUE">>, Back(r, handler))))
        after(body) ==
            closed(body, Sub(d, Skip(2, Panic(ByteAt(d, body.ptr + 1) # <<"END_FINALLY">> \/ body.ptr + 2 # label,
                                              Back(r, body))), end))
    IN  after(Sub(d, Skip(Sizes(d).label, r), end))

DecompileExit(d, op, hot, r) ==
    LET id == IF op = "EXIT_ID" THEN Id(d, r.ptr) ELSE -1
        q == Skip((IF op = "EXIT_ID" THEN Sizes(d).var_name ELSE 0) + Sizes(d).stack, r)
        after == Skip(Sizes(d).label, q)
    IN  ADD_STMT(Mark(hot), <<IF Label(d, q.ptr) < after.ptr THEN "continue" ELSE "break", id>>, after)

\* one opcode of OP_EXTENDED; r.ptr is after it
DecompileExtended(d, op, hot, r, end) ==
    CASE op = "RANGESET" ->
           SkipToTemp(d, push_expr(
             <<"asgn", <<"range", Kid(r, 3).e, Kid(r, 2).e, Kid(r, 1).e>>, Kid(r, 0).e>>,
             hot \/ r.asgn_hot \/ \E i \in 0 .. 3 : Kid(r, i).hot, PopN(4, r)))
      [] op \in {"FIRST", "LAST"} ->
           push_expr(<<IF op = "FIRST" THEN "first" ELSE "last">>, hot, Skip(Sizes(d).stack, r))
      [] op = "SCATTER" -> DecompileScatter(d, hot, r)
      [] op = "PUSH_LABEL" -> push_expr(<<"var", <<"int", Label(d, r.ptr)>>>>, hot, Skip(Sizes(d).label, r))
      [] op = "CATCH" -> DecompileCatch(d, hot, r, end)
      [] op = "TRY_EXCEPT" -> DecompileExcept(d, hot, r, end)
      [] op = "TRY_FINALLY" -> DecompileFinally(d, hot, r, end)
      [] op \in {"END_CATCH", "END_EXCEPT", "END_FINALLY", "CONTINUE"} -> [r EXCEPT !.ptr = @ - 2, !.done = TRUE]
      [] op = "WHILE_ID" ->
           DecompileLoop(d, hot, r.start, 1, Sizes(d).var_name, r,
                         <<"while", Id(d, r.ptr), Kid(r, 0).e>>)
      [] op \in {"EXIT", "EXIT_ID"} -> DecompileExit(d, op, hot, r)
      [] op = "FOR_LIST_1" ->
           DecompileLoop(d, hot, r.ptr - 2, 2, Sizes(d).var_name, Panic(Kid(r, 0).e # <<"var", None>>, r),
                         <<"for", Id(d, r.ptr), -1, Kid(r, 1).e>>)
      [] op = "FOR_LIST_2" ->
           DecompileLoop(d, hot, r.ptr - 2, 2, 2 * Sizes(d).var_name, Panic(Kid(r, 0).e # <<"var", None>>, r),
                         <<"for", Id(d, r.ptr), Id(d, r.ptr + Sizes(d).var_name), Kid(r, 1).e>>)
      [] op \in BinaryOf ->
           push_expr(<<"bin", op, Kid(r, 1).e, Kid(r, 0).e>>, hot \/ Kid(r, 0).hot \/ Kid(r, 1).hot, PopN(2, r))
      [] op = "COMPLEMENT" -> push_expr(<<"un", op, Kid(r, 0).e>>, hot \/ Kid(r, 0).hot, PopN(1, r))

\* a list that grows by one argument; only the new one can be hot, or the list
AddArg(kind, hot, r) ==
    push_expr(<<"list", Append(Kid(r, 1).e[2], <<kind, Kid(r, 0).e>>)>>,
              hot \/ Kid(r, 0).hot \/ Kid(r, 1).hot, PopN(2, r))
\* OP_MAP_INSERT compares hot_node with the first key and value of the map only
MapInsertHot(hot, r) ==
    \/ hot \/ Kid(r, 2).hot
    \/ Kid(r, 2).e[2] = <<>> /\ (Kid(r, 0).hot \/ Kid(r, 1).hot)

DecompileOp(d, op, hot, r, end) ==
    CASE op[1] \in {"PUSH", "PUSH_CLEAR"} -> push_expr(<<"id", op[2]>>, hot, r)
      [] op[1] = "PUT" ->
           push_expr(<<"asgn", <<"id", op[2]>>, Kid(r, 0).e>>, hot \/ Kid(r, 0).hot, PopN(1, r))
      [] op[1] = "NUM" -> push_expr(<<"var", <<"int", op[2]>>>>, hot, r)
      [] op[1] \in {"IF", "EIF"} -> DecompileIf(d, op[1], hot, r, end)
      [] op[1] = "FOR_RANGE" ->
           DecompileLoop(d, hot, r.ptr - 1, 2, Sizes(d).var_name, r,
                         <<"forrange", Id(d, r.ptr), Kid(r, 1).e, Kid(r, 0).e>>)
      [] op[1] = "WHILE" ->
           DecompileLoop(d, hot, r.start, 1, 0, r, <<"while", -1, Kid(r, 0).e>>)
      [] op[1] \in {"FORK", "FORK_WITH_ID"} -> DecompileFork(d, op[1], hot, r)
      [] op[1] = "POP" -> ADD_STMT(Mark(hot \/ Kid(r, 0).hot), <<"expr", Kid(r, 0).e>>, PopN(1, r))
      [] op[1] = "RETURN" -> ADD_STMT(Mark(hot \/ Kid(r, 0).hot), <<"return", Kid(r, 0).e>>, PopN(1, r))
      [] op[1] = "RETURN0" -> ADD_STMT(Mark(hot), <<"return", None>>, r)
      [] op[1] = "DONE" -> Panic(r.ptr # end, r)
      [] op[1] = "IMM" ->
           push_expr(<<"var", d.prog.literals[ReadBytes(VectorOf(d.prog, d.vec).vector, r.ptr, Sizes(d).literal) + 1]>>,
                     hot, Skip(Sizes(d).literal, r))
      [] op[1] = "G_PUSH" -> push_expr(<<"id", Id(d, r.ptr)>>, hot, Skip(Sizes(d).var_name, r))
      [] op[1] = "G_PUT" ->
           push_expr(<<"asgn", <<"id", Id(d, r.ptr)>>, Kid(r, 0).e>>, hot \/ Kid(r, 0).hot,
                     PopN(1, Skip(Sizes(d).var_name, r)))
      [] op[1] \in {"AND", "OR"} -> DecompileAndOr(d, op[1], hot, r)
      [] op[1] \in UnaryOps -> push_expr(<<"un", op[1], Kid(r, 0).e>>, hot \/ Kid(r, 0).hot, PopN(1, r))
      [] op[1] \in BinaryOf \cup {"PUSH_GET_PROP"} ->
           push_expr(<<"bin", IF op[1] = "PUSH_GET_PROP" THEN "GET_PROP" ELSE op[1], Kid(r, 1).e, Kid(r, 0).e>>,
                     hot \/ Kid(r, 0).hot \/ Kid(r, 1).hot, PopN(2, r))
      [] op[1] \in {"REF", "PUSH_REF"} ->
           push_expr(<<"index", Kid(r, 1).e, Kid(r, 0).e>>, hot \/ Kid(r, 0).hot \/ Kid(r, 1).hot, PopN(2, r))
      [] op[1] = "RANGE_REF" ->
           push_expr(<<"range", Kid(r, 2).e, Kid(r, 1).e, Kid(r, 0).e>>,
                     hot \/ \E i \in 0 .. 2 : Kid(r, i).hot, PopN(3, r))
      [] op[1] = "BI_FUNC_CALL" ->
           push_expr(<<"call", ByteAt(d, r.ptr)[2], Kid(r, 0).e[2]>>, hot \/ Kid(r, 0).hot,
                     Skip(1, PopN(1, Panic(Kid(r, 0).e[1] # "list", r))))
      [] op[1] = "CALL_VERB" ->
           push_expr(<<"verb", Kid(r, 2).e, Kid(r, 1).e, Kid(r, 0).e[2]>>,
                     hot \/ \E i \in 0 .. 2 : Kid(r, i).hot, PopN(3, Panic(Kid(r, 0).e[1] # "list", r)))
      [] op[1] = "IF_QUES" -> DecompileCond(d, hot, r)
      [] op[1] = "PUT_TEMP" -> [r EXCEPT !.asgn_hot = @ \/ hot]
      [] op[1] = "INDEXSET" ->
           SkipToTemp(d, push_expr(<<"asgn", <<"index", Kid(r, 2).e, Kid(r, 1).e>>, Kid(r, 0).e>>,
                                   hot \/ r.asgn_hot \/ \E i \in 0 .. 2 : Kid(r, i).hot, PopN(3, r)))
      [] op[1] = "PUT_PROP" ->
           push_expr(<<"asgn", <<"bin", "GET_PROP", Kid(r, 2).e, Kid(r, 1).e>>, Kid(r, 0).e>>,
                     hot \/ \E i \in 0 .. 2 : Kid(r, i).hot, PopN(3, r))
      [] op[1] = "MAP_CREATE" -> push_expr(<<"map", <<>>>>, hot, r)
      [] op[1] = "MAP_INSERT" ->
           push_expr(<<"map", Append(Kid(r, 2).e[2], <<Kid(r, 0).e, Kid(r, 1).e>>)>>,
                     MapInsertHot(hot, r), PopN(3, r))
      [] op[1] = "MAKE_EMPTY_LIST" -> push_expr(<<"list", <<>>>>, hot, r)
      [] op[1] \in {"MAKE_SINGLETON_LIST", "CHECK_LIST_FOR_SPLICE"} ->
           push_expr(<<"list", <<<<IF op[1] = "MAKE_SINGLETON_LIST" THEN "normal" ELSE "splice", Kid(r, 0).e>>>>>>,
                     hot \/ Kid(r, 0).hot, PopN(1, r))
      [] op[1] = "LIST_ADD_TAIL" -> AddArg("normal", hot, r)
      [] op[1] = "LIST_APPEND" -> AddArg("splice", hot, r)
      [] op[1] = "EXTENDED" ->
           DecompileExtended(d, ByteAt(d, r.ptr)[1], hot, Skip(1, r), end)
      [] OTHER -> Panic(TRUE, r)

decompile(d, r, end) ==
    IF r.done \/ ~r.ok THEN r
    ELSE IF r.ptr >= end THEN Panic(r.ptr # end, r)
    ELSE decompile(d, DecompileOp(d, ByteAt(d, r.ptr), IsHot(d, r.ptr), Skip(1, r), end), end)

program_to_tree(prog, vec, hotvec, hotpc) ==
    decompile([prog |-> prog, vec |-> vec, hotvec |-> hotvec, hotpc |-> hotpc],
              [ptr |-> 0, stk |-> <<>>, out |-> <<>>, arms |-> <<>>, start |-> 0,
               asgn_hot |-> FALSE, done |-> FALSE, ok |-> TRUE],
              VectorOf(prog, vec).size)

-----------------------------------------------------------------------------
\* The tree without its marks.
RECURSIVE Plain(_)
Plain(out) ==
    [i \in DOMAIN out |->
        LET s == out[i][2]
            armsOf(arms) == [j \in DOMAIN arms |->
                                [k \in 1 .. (Len(arms[j]) - 1) |->
                                    IF k = Len(arms[j]) - 1 THEN Plain(arms[j][k + 1]) ELSE arms[j][k + 1]]]
        IN  CASE s[1] = "if" -> <<"if", armsOf(s[2]), Plain(s[3])>>
              [] s[1] \in {"for", "forrange", "while", "fork"} -> [s EXCEPT ![Len(s)] = Plain(@)]
              [] s[1] = "except" -> <<"except", Plain(s[2]), armsOf(s[3])>>
              [] s[1] = "finally" -> <<"finally", Plain(s[2]), Plain(s[3])>>
              [] OTHER -> s]
decompile_program(prog, vec) == Plain(program_to_tree(prog, vec, -1, -1).out)

\* find_hot_node(): found, and the line of the hot node; or the line after the body
RECURSIVE find_hot_node(_, _)
HotArms(arms, l0) ==
    FoldLeft(LAMBDA acc, arm :
                IF acc.found THEN acc
                ELSE IF arm[1] = "TOP" THEN [found |-> TRUE, line |-> acc.line]
                ELSE LET b == find_hot_node(arm[Len(arm)], acc.line + 1)
                     IN  IF b.found THEN b
                         ELSE IF arm[1] = "BOTTOM" THEN [found |-> TRUE, line |-> b.line - 1]
                         ELSE b,
             [found |-> FALSE, line |-> l0], arms)
HotStmt(mark, s, l0) ==
    CASE s[1] = "if" ->
           LET arms == HotArms(s[2], l0)
           IN  IF arms.found \/ s[3] = <<>> THEN arms ELSE find_hot_node(s[3], arms.line + 1)
      [] s[1] \in {"for", "forrange", "while", "fork"} -> find_hot_node(s[Len(s)], l0 + 1)
      [] s[1] = "except" ->
           LET body == find_hot_node(s[2], l0 + 1)
           IN  IF body.found THEN body
               ELSE IF mark = "ENDBODY" THEN [found |-> TRUE, line |-> body.line - 1]
               ELSE HotArms(s[3], body.line)
      [] s[1] = "finally" ->
           LET body == find_hot_node(s[2], l0 + 1)
           IN  IF body.found \/ mark = "ENDBODY" THEN [body EXCEPT !.found = TRUE]
               ELSE find_hot_node(s[3], body.line + 1)
      [] OTHER -> [found |-> FALSE, line |-> l0]
find_hot_node(out, line) ==
    IF out = <<>> THEN [found |-> FALSE, line |-> line]
    ELSE IF out[1][1] = "TOP" THEN [found |-> TRUE, line |-> line]
    ELSE LET s == HotStmt(out[1][1], out[1][2], line)
         IN  IF s.found THEN s
             ELSE IF out[1][1] = "BOTTOM" THEN [found |-> TRUE, line |-> s.line]
             ELSE find_hot_node(Tail(out), s.line + 1)

find_line_number(prog, vec, pc) == find_hot_node(program_to_tree(prog, 0, vec, pc).out, 1).line
=============================================================================
