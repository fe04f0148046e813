------------------------------ MODULE CodeGen ------------------------------
(***************************************************************************)
(* code_gen.cc: from the syntax tree of a MOO program to its byte codes.   *)
(*                                                                         *)
(* Trees are tuples that start with their kind; a body is a sequence of    *)
(* statements; an absent part is None; an absent variable is -1:           *)
(*   <<"var", v>> <<"id", slot>> <<"and", l, r>> <<"or", l, r>>            *)
(*   <<"un", op, e>> <<"bin", op, l, r>> <<"index", l, i>>                 *)
(*   <<"range", b, f, t>> <<"first">> <<"last">> <<"map", <<<<k, v>>...>>>>*)
(*   <<"list", args>> <<"call", f, args>> <<"verb", o, v, args>>           *)
(*   <<"cond", c, a, b>> <<"asgn", l, r>> <<"catch", e, codes, except>>    *)
(*   <<"scatter", <<<<kind, slot, default>>...>>>>, only left of an asgn   *)
(*   args and codes: <<"normal", e>> or <<"splice", e>>                    *)
(* and for statements                                                      *)
(*   <<"if", <<<<c, body>>...>>, otherwise>> <<"for", id, index, e, body>> *)
(*   <<"forrange", id, f, t, body>> <<"while", id, c, body>>               *)
(*   <<"fork", id, e, body>> <<"expr", e>> <<"return", e>>                 *)
(*   <<"except", body, <<<<id, codes, body>>...>>>>                        *)
(*   <<"finally", body, handler>> <<"break", id>> <<"continue", id>>.      *)
(*                                                                         *)
(* A byte of a vector is <<op>>, <<op, n>> for the opcodes that hold a     *)
(* small number, or <<"b", n>> for an operand byte, n < Base.              *)
(***************************************************************************)
EXTENDS Values

CONSTANTS
    Base,        \* values of a byte: 256
    ReadyVars,   \* NUM_READY_VARS: slots below have opcodes of their own
    VRSlots,     \* the slots that a verb call passes on (NON_VR_VAR_MASK)
    OptimNums    \* the integers that are opcodes (IN_OPTIM_NUM_RANGE)

ASSUME CodeGenAssumption ==
    /\ Base \in Nat \ {0, 1} /\ ReadyVars \in Nat
    /\ VRSlots \subseteq 0 .. (ReadyVars - 1) /\ {0, 1} \subseteq OptimNums

ExtendedOps == {"EXP", "BITOR", "BITAND", "BITXOR", "BITSHL", "BITSHR", "COMPLEMENT"}
UnaryOps == {"NOT", "UNARY_MINUS", "COMPLEMENT"}

(***************************************************************************)
(* struct state and struct gstate.  b holds the bytes emitted so far; a    *)
(* byte that a fixup will replace is <<kind, value>>.  p is its pushmap    *)
(* entry and t its trymap entry; l is not in the code: the line of the     *)
(* program the byte comes from, for judging find_line_number(): 0 for the  *)
(* codes of an except, which are on a line that comes later, and negative  *)
(* for the stores of an assignment after its first.                        *)
(***************************************************************************)
init_gstate == [literals |-> <<>>, forks |-> <<>>, total_var_refs |-> 0]
init_state(g, line) ==
    [b |-> <<>>, try_depth |-> 0, cur |-> 0, max |-> 0, saved |-> -1, loops |-> <<>>, g |-> g,
     line |-> line]

\* emit_byte(), for each byte of cs; the last gets the pushmap entry p
EmitMapped(cs, p, st) ==
    [st EXCEPT !.b = @ \o [i \in DOMAIN cs |->
        [c |-> cs[i], p |-> IF i = Len(cs) THEN p ELSE "", t |-> st.try_depth,
         l |-> st.line]]]
emit_byte(cs, st) == EmitMapped(cs, "", st)
emit_extended_byte(op, st) == emit_byte(<<<<"EXTENDED">>, <<op>>>>, st)
emit_op(op, st) == IF op \in ExtendedOps THEN emit_extended_byte(op, st)
                                         ELSE emit_byte(<<<<op>>>>, st)

add_fixup(kind, value, st) == emit_byte(<<<<kind, value>>>>, st)
add_var_ref(slot, st) ==
    [add_fixup("VARREF", slot, st) EXCEPT !.g.total_var_refs = @ + 1]
\* the literal is interned: one entry for equal values
add_literal(v, st) ==
    LET known == {i \in DOMAIN st.g.literals : st.g.literals[i] = v}
        lits == IF known = {} THEN Append(st.g.literals, v) ELSE st.g.literals
        at == IF known = {} THEN Len(lits) ELSE CHOOSE i \in known : TRUE
    IN  add_fixup("LITERAL", at - 1, [st EXCEPT !.g.literals = lits])

\* A label is known by the place of its fixup; define_label() gives it, and the
\* labels linked to it, the current place as value.
add_label(st) == add_fixup("LABEL", -1, st)
LastLabel(st) == Len(st.b)
add_pseudo_label(value, st) == add_fixup("PSEUDO", value, st)
add_known_label(value, st) == add_fixup("LABEL", value, st)
capture_label(st) == Len(st.b)
define_label(labels, st) ==
    [st EXCEPT !.b = [i \in DOMAIN @ |->
        IF i \in labels THEN [@[i] EXCEPT !.c = <<"LABEL", Len(st.b)>>] ELSE @[i]]]

push_stack(n, st) ==
    [st EXCEPT !.cur = @ + n, !.max = IF st.cur + n > @ THEN st.cur + n ELSE @]
pop_stack(n, st) == [st EXCEPT !.cur = @ - n]
save_stack_top(st) == [st EXCEPT !.saved = st.cur - 1]
restore_stack_top(old, st) == [st EXCEPT !.saved = old]

enter_loop(id, index, top, top_stack, bottom, bottom_stack, st) ==
    [st EXCEPT !.loops = Append(@, [id |-> id, index |-> index, top |-> top,
        top_stack |-> top_stack, bottom |-> {bottom}, bottom_stack |-> bottom_stack])]
exit_loop(st) == [st EXCEPT !.loops = Front(@)]
LoopBottom(st) == Last(st.loops).bottom

emit_var_op(op, slot, st) ==
    IF slot >= ReadyVars THEN add_var_ref(slot,
                                emit_byte(<<<<IF op = "PUT" THEN "G_PUT" ELSE "G_PUSH">>>>, st))
                         ELSE EmitMapped(<<<<op, slot>>>>, op, st)
emit_num(n, st) == emit_byte(<<<<"NUM", n>>>>, st)

-----------------------------------------------------------------------------
RECURSIVE generate_expr(_, _), generate_args(_, _, _), generate_mappings(_, _),
          push_lvalue(_, _, _), StoreLvalue(_, _), ScatterDefaults(_, _, _)

generate_mappings(ms, st) ==
    IF ms = <<>> THEN st
    ELSE generate_mappings(Tail(ms),
           pop_stack(2, emit_byte(<<<<"MAP_INSERT">>>>,
             generate_expr(ms[1][1], generate_expr(ms[1][2], st)))))
generate_map_list(ms, st) ==
    generate_mappings(ms, push_stack(1, emit_byte(<<<<"MAP_CREATE">>>>, st)))

generate_args(args, first, st) ==
    IF args = <<>> THEN st
    ELSE LET op == IF args[1][1] = "normal"
                   THEN IF first THEN "MAKE_SINGLETON_LIST" ELSE "LIST_ADD_TAIL"
                   ELSE IF first THEN "CHECK_LIST_FOR_SPLICE" ELSE "LIST_APPEND"
         IN  generate_args(Tail(args), FALSE,
               pop_stack(IF first THEN 0 ELSE 1,
                 emit_byte(<<<<op>>>>, generate_expr(args[1][2], st))))
generate_arg_list(args, st) ==
    IF args = <<>> THEN push_stack(1, emit_byte(<<<<"MAKE_EMPTY_LIST">>>>, st))
                   ELSE generate_args(args, TRUE, st)
generate_codes(codes, st) ==
    IF codes = <<>> THEN push_stack(1, emit_num(0, st)) ELSE generate_arg_list(codes, st)

push_lvalue(e, indexed_above, st) ==
    CASE e[1] = "range" ->
           LET b == push_lvalue(e[2], TRUE, st)
           IN  restore_stack_top(b.saved,
                 generate_expr(e[4], generate_expr(e[3], save_stack_top(b))))
      [] e[1] = "index" ->
           LET b == push_lvalue(e[2], TRUE, st)
               i == restore_stack_top(b.saved, generate_expr(e[3], save_stack_top(b)))
           IN  IF indexed_above THEN push_stack(1, emit_byte(<<<<"PUSH_REF">>>>, i)) ELSE i
      [] e[1] = "id" ->
           IF indexed_above THEN push_stack(1, emit_var_op("PUSH", e[2], st)) ELSE st
      [] e[1] = "bin" ->                        \* EXPR_PROP
           LET p == generate_expr(e[4], generate_expr(e[3], st))
           IN  IF indexed_above THEN push_stack(1, emit_byte(<<<<"PUSH_GET_PROP">>>>, p)) ELSE p

Later(st) == [st EXCEPT !.line = IF @ > 0 THEN -@ ELSE @]
\* the loop of EXPR_ASGN that stores outwards, from the innermost index
StoreLvalue(e, st) ==
    CASE e[1] = "range" -> StoreLvalue(e[2], Later(pop_stack(3, emit_extended_byte("RANGESET", st))))
      [] e[1] = "index" -> StoreLvalue(e[2], Later(pop_stack(2, emit_byte(<<<<"INDEXSET">>>>, st))))
      [] e[1] = "id"    -> emit_var_op("PUT", e[2], st)
      [] e[1] = "bin"   -> pop_stack(2, emit_byte(<<<<"PUT_PROP">>>>, st))

generate_asgn(l, r, st) ==
    LET indexed == l[1] \in {"range", "index"}
        kept(rhs) == IF indexed THEN emit_byte(<<<<"PUT_TEMP">>>>, rhs) ELSE rhs
        stored(rhs) == [StoreLvalue(l, kept(rhs)) EXCEPT !.line = st.line]
        value(s) == IF indexed THEN emit_byte(<<<<"POP">>, <<"PUSH_TEMP">>>>, s) ELSE s
    IN  value(stored(generate_expr(r, push_lvalue(l, FALSE, st))))

\* scs[i] is optional with a default whose label is at at[i]
ScatterDefaults(scs, at, st) ==
    IF scs = <<>> THEN st
    ELSE ScatterDefaults(Tail(scs), Tail(at),
           IF scs[1][1] # "optional" \/ scs[1][3] = None THEN st
           ELSE pop_stack(1, emit_byte(<<<<"POP">>>>, emit_var_op("PUT", scs[1][2],
                  generate_expr(scs[1][3], define_label({at[1]}, st))))))

generate_scatter(scs, r, st) ==
    LET nargs == Len(scs)
        nreq == Cardinality({i \in 1 .. nargs : scs[i][1] = "required"})
        rests == {i \in 1 .. nargs : scs[i][1] = "rest"}
        rest == IF rests = {} THEN nargs + 1 ELSE CHOOSE i \in rests : TRUE
        head(s) == emit_byte(<<<<"b", nargs>>, <<"b", nreq>>, <<"b", rest>>>>, emit_extended_byte("SCATTER", s))
        operand(s, sc) ==
            LET v == add_var_ref(sc[2], s)
            IN  IF sc[1] # "optional" THEN add_pseudo_label(0, v)
                ELSE IF sc[3] = None THEN add_pseudo_label(1, v) ELSE add_label(v)
        defaults(at, s) == define_label({LastLabel(s)}, ScatterDefaults(scs, at, s))
        operands(s) == defaults([i \in 1 .. nargs |-> Len(s.b) + 2 * i], add_label(FoldLeft(operand, s, scs)))
    IN  operands(head(generate_expr(r, st)))

InTry(n, st) == [st EXCEPT !.try_depth = @ + n]
generate_catch(e, st) ==
    LET marked(s) == InTry(1, push_stack(1, emit_extended_byte("CATCH", s)))
        value(s) == IF e[4] # None THEN generate_expr(e[4], pop_stack(1, emit_byte(<<<<"POP">>>>, s)))
                    ELSE emit_byte(<<<<"REF">>>>, emit_num(1, s))
        handler(at, over) ==
            define_label({LastLabel(over)}, value(define_label({at}, pop_stack(3, over))))
        guarded(s) == handler(LastLabel(s), add_label(emit_extended_byte("END_CATCH",
                                                InTry(-1, generate_expr(e[2], marked(s))))))
    IN  guarded(push_stack(1, add_label(emit_extended_byte("PUSH_LABEL", generate_codes(e[3], st)))))

generate_expr(e, st) ==
    CASE e[1] = "var" ->
           push_stack(1, IF e[2][1] = "int" /\ e[2][2] \in OptimNums
                         THEN emit_num(e[2][2], st)
                         ELSE add_literal(e[2], emit_byte(<<<<"IMM">>>>, st)))
      [] e[1] = "id" -> push_stack(1, emit_var_op("PUSH", e[2], st))
      [] e[1] \in {"and", "or"} ->
           LET t == add_label(emit_byte(<<<<IF e[1] = "and" THEN "AND" ELSE "OR">>>>,
                                        generate_expr(e[2], st)))
           IN  define_label({LastLabel(t)}, generate_expr(e[3], pop_stack(1, t)))
      [] e[1] = "un" -> emit_op(e[2], generate_expr(e[3], st))
      [] e[1] = "bin" ->
           pop_stack(1, emit_op(e[2], generate_expr(e[4], generate_expr(e[3], st))))
      [] e[1] = "index" ->
           LET b == generate_expr(e[2], st)
           IN  pop_stack(1, emit_byte(<<<<"REF">>>>,
                 restore_stack_top(b.saved, generate_expr(e[3], save_stack_top(b)))))
      [] e[1] = "range" ->
           LET b == generate_expr(e[2], st)
           IN  pop_stack(2, emit_byte(<<<<"RANGE_REF">>>>, restore_stack_top(b.saved,
                 generate_expr(e[4], generate_expr(e[3], save_stack_top(b))))))
      [] e[1] \in {"first", "last"} ->
           push_stack(1, add_fixup("STACKREF", st.saved,
             emit_extended_byte(IF e[1] = "first" THEN "FIRST" ELSE "LAST", st)))
      [] e[1] = "map" -> generate_map_list(e[2], st)
      [] e[1] = "list" -> generate_arg_list(e[2], st)
      [] e[1] = "call" ->
           emit_byte(<<<<"BI_FUNC_CALL">>, <<"f", e[2]>>>>, generate_arg_list(e[3], st))
      [] e[1] = "verb" ->
           pop_stack(2, EmitMapped(<<<<"CALL_VERB">>>>, "CALL_VERB",
             generate_arg_list(e[4], generate_expr(e[3], generate_expr(e[2], st)))))
      [] e[1] = "cond" ->
           LET c == add_label(emit_byte(<<<<"IF_QUES">>>>, generate_expr(e[2], st)))
               a == add_label(emit_byte(<<<<"JUMP">>>>, generate_expr(e[3], pop_stack(1, c))))
           IN  define_label({LastLabel(a)},
                 generate_expr(e[4], define_label({LastLabel(c)}, pop_stack(1, a))))
      [] e[1] = "asgn" -> IF e[2][1] = "scatter" THEN generate_scatter(e[2][2], e[3], st)
                                                 ELSE generate_asgn(e[2], e[3], st)
      [] e[1] = "catch" -> generate_catch(e, st)

-----------------------------------------------------------------------------
\* a statement starts on a line of its own, and so do elseif, else, except, finally and end...
NextLine(st) == [st EXCEPT !.line = @ + 1]

RECURSIVE generate_stmt(_, _), generate_arms(_, _, _, _), PushArms(_, _, _), generate_excepts(_, _, _, _)

\* the arms of an if; ends collects the labels linked to its end
generate_arms(arms, op, ends, st) ==
    LET next(at, a) == generate_arms(Tail(arms), "EIF", ends \cup {LastLabel(a)}, define_label({at}, a))
        arm(c) == next(LastLabel(c), add_label(emit_byte(<<<<"JUMP">>>>, generate_stmt(arms[1][2], pop_stack(1, c)))))
    IN  IF arms = <<>> THEN [st |-> st, ends |-> ends]
        ELSE arm(add_label(emit_byte(<<<<op>>>>,
                   generate_expr(arms[1][1], IF op = "EIF" THEN NextLine(st) ELSE st))))

\* the end of each loop: jump to the top, and define the label of the bottom
CloseLoop(top, st) ==
    define_label(LoopBottom(st), add_known_label(top, emit_byte(<<<<"JUMP">>>>, exit_loop(st))))

generate_for(s, st) ==
    LET head(e) == IF s[3] > -1 THEN add_var_ref(s[3], add_var_ref(s[2], emit_extended_byte("FOR_LIST_2", e)))
                   ELSE add_var_ref(s[2], emit_extended_byte("FOR_LIST_1", e))
        body(top, test) == CloseLoop(top, generate_stmt(s[5],
                              enter_loop(s[2], s[3], top, test.cur, LastLabel(test), test.cur - 2, test)))
        loop(e) == pop_stack(2, body(capture_label(e), add_label(head(e))))
    IN  loop(push_stack(1, add_literal(None, emit_byte(<<<<"IMM">>>>, generate_expr(s[4], st)))))

generate_forrange(s, st) ==
    LET head(e) == add_var_ref(s[2], emit_byte(<<<<"FOR_RANGE">>>>, e))
        body(top, test) == CloseLoop(top, generate_stmt(s[5],
                              enter_loop(s[2], -1, top, test.cur, LastLabel(test), test.cur - 2, test)))
        loop(e) == pop_stack(2, body(capture_label(e), add_label(head(e))))
    IN  loop(generate_expr(s[4], generate_expr(s[3], st)))

generate_while(s, st) ==
    LET head(e) == IF s[2] = -1 THEN emit_byte(<<<<"WHILE">>>>, e)
                                ELSE add_var_ref(s[2], emit_extended_byte("WHILE_ID", e))
        body(top, test) == CloseLoop(top, generate_stmt(s[4],
                              enter_loop(s[2], -1, top, test.cur, LastLabel(test), test.cur, test)))
    IN  body(capture_label(st), pop_stack(1, add_label(head(generate_expr(s[3], st)))))

PushArms(arms, at, st) ==
    LET next(l) == PushArms(Tail(arms), Append(at, LastLabel(l)), push_stack(1, l))
    IN  IF arms = <<>> THEN [st |-> st, at |-> at]
        ELSE next(add_label(emit_extended_byte("PUSH_LABEL", generate_codes(arms[1][2], st))))

generate_excepts(arms, at, ends, st) ==
    LET caught(h) == IF arms[1][1] >= 0 THEN emit_var_op("PUT", arms[1][1], h) ELSE h
        next(j) == generate_excepts(Tail(arms), Tail(at), ends \cup {LastLabel(j)}, j)
        after(body) == IF Len(arms) > 1 THEN next(add_label(emit_byte(<<<<"JUMP">>>>, body)))
                                        ELSE define_label(ends, body)
    IN  IF arms = <<>> THEN define_label(ends, st)
        ELSE after(generate_stmt(arms[1][3], pop_stack(1, emit_byte(<<<<"POP">>>>,
                     caught(NextLine(push_stack(1, define_label({at[1]}, st))))))))

generate_except(s, st) ==
    LET n == Len(s[3])
        marked(a) == InTry(1, push_stack(1, emit_byte(<<<<"b", n>>>>,
                       emit_extended_byte("TRY_EXCEPT", [a EXCEPT !.line = st.line]))))
        handlers(at, over) == generate_excepts(s[3], at, {LastLabel(over)}, pop_stack(2 * n + 1, over))
        guarded(arms) == handlers(arms.at, add_label(emit_extended_byte("END_EXCEPT",
                                     InTry(-1, generate_stmt(s[2], marked(arms.st))))))
    IN  guarded(PushArms(s[3], <<>>, [st EXCEPT !.line = 0]))

generate_finally(s, st) ==
    LET handler(h) == generate_stmt(s[3], NextLine(push_stack(2, h)))
        guarded(at, m) == define_label({at}, pop_stack(1, emit_extended_byte("END_FINALLY",
                             InTry(-1, generate_stmt(s[2], InTry(1, m))))))
        marked(m) == guarded(LastLabel(m), m)
    IN  pop_stack(2, emit_extended_byte("CONTINUE",
          handler(marked(push_stack(1, add_label(emit_extended_byte("TRY_FINALLY", st)))))))

\* break and continue: the innermost loop, or the innermost one of that name
generate_exit(s, st) ==
    LET op == IF s[2] = -1 THEN emit_extended_byte("EXIT", st)
              ELSE add_var_ref(s[2], emit_extended_byte("EXIT_ID", st))
        named == {i \in DOMAIN st.loops : s[2] \in {-1, st.loops[i].id, st.loops[i].index}}
        at == IF s[2] = -1 THEN Len(st.loops)
              ELSE CHOOSE i \in named : \A j \in named : j <= i
        loop == st.loops[at]
        out == add_label(add_fixup("STACKREF", loop.bottom_stack, op))
    IN  IF s[1] = "continue"
        THEN add_known_label(loop.top, add_fixup("STACKREF", loop.top_stack, op))
        ELSE [out EXCEPT !.loops[at].bottom = @ \cup {LastLabel(out)}]

-----------------------------------------------------------------------------
ref_size(max) == IF max <= Base THEN 1 ELSE IF max <= Base * Base THEN 2 ELSE 4
IMax(a, b) == IF a > b THEN a ELSE b

\* BYTECODE_REDUCE_REF.  Backwards through each basic block (blocks end before a
\* label or a fork): a push of a variable in varbits, the variables that are not
\* needed any more, becomes the last one.
Delimiters(b) ==
    {0, Len(b)} \cup {i - 1 : i \in {j \in DOMAIN b : b[j].c[1] \in {"LABEL", "PSEUDO", "FORKREF"}}}
\* Mutant: does not see that an error in the block can lead to a handler.
varbits_in_try(x, bits) ==
    CASE x.p = "PUT" -> bits \cup {x.c[2]}
      [] x.p = "DONE" -> 0 .. (ReadyVars - 1)
      [] x.p = "CALL_VERB" -> bits \ VRSlots
      [] OTHER -> bits
varbits_before(x, bits) ==
    IF x.t > 0 THEN bits
    ELSE CASE x.p = "PUT" -> bits \cup {x.c[2]}
           [] x.p = "DONE" -> 0 .. (ReadyVars - 1)
           [] x.p = "CALL_VERB" -> bits \ VRSlots
           [] OTHER -> bits
reduce_refs(b) ==
    LET delims == Delimiters(b)
        scan[i \in 0 .. Len(b)] ==      \* the last i bytes, and varbits before them
            IF i = 0 THEN [b |-> <<>>, bits |-> {}]
            ELSE LET x == b[Len(b) - i + 1]
                     after == scan[i - 1]
                     bits == IF Len(b) - i + 1 \in delims THEN {} ELSE after.bits
                     last == x.p = "PUSH" /\ x.c[2] \in bits
                 IN  [b |-> <<IF last THEN [x EXCEPT !.c = <<"PUSH_CLEAR", x.c[2]>>] ELSE x>> \o after.b,
                      bits |-> IF last THEN bits \ {x.c[2]}
                               ELSE IF x.p = "PUSH" THEN bits ELSE varbits_before(x, bits)]
    IN  scan[Len(b)].b

CountOf(b, n, kinds) == Cardinality({i \in 1 .. n : b[i].c[1] \in kinds})
Labels == {"LABEL", "PSEUDO"}
BytesOf(v, n) == [i \in 1 .. n |-> <<"b", (v \div (Base ^ (n - i))) % Base>>]

\* The second half of stmt_to_code(): the sizes of the references, and the final
\* vector.  num_stacks is never counted, so stack references add nothing to size.
Assemble(b, max_stack, g) ==
    LET maxvar == {b[i].c[2] : i \in {j \in DOMAIN b : b[j].c[1] = "VARREF"}}
        nlit == ref_size(Len(g.literals))
        nfork == ref_size(Len(g.forks))
        nvar == ref_size(IMax(g.total_var_refs, CHOOSE m \in maxvar \cup {0} : \A v \in maxvar : v <= m))
        nstack == ref_size(max_stack)
        before(n) == CountOf(b, n, {"LITERAL"}) * (nlit - 1) + CountOf(b, n, {"FORKREF"}) * (nfork - 1)
                     + CountOf(b, n, {"VARREF"}) * (nvar - 1)
        short == Len(b) + before(Len(b))
        labels == CountOf(b, Len(b), Labels)
        nlabel == IF short <= Base THEN 1 ELSE IF short + labels <= Base * Base THEN 2 ELSE 4
        final(x) ==
            CASE x.c[1] = "LITERAL"  -> BytesOf(x.c[2], nlit)
              [] x.c[1] = "FORKREF"  -> BytesOf(x.c[2], nfork)
              [] x.c[1] = "VARREF"   -> BytesOf(x.c[2], nvar)
              [] x.c[1] = "STACKREF" -> BytesOf(x.c[2], nstack)
              [] x.c[1] = "PSEUDO"   -> BytesOf(x.c[2], nlabel)
              [] x.c[1] = "LABEL"    ->
                   BytesOf(x.c[2] + before(x.c[2]) + CountOf(b, x.c[2], Labels) * (nlabel - 1), nlabel)
              [] OTHER -> <<x.c>>
    IN  [vector |-> FlattenSeq([i \in DOMAIN b |-> final(b[i])]),
         lines |-> FlattenSeq([i \in DOMAIN b |-> [j \in DOMAIN final(b[i]) |-> b[i].l]]),
         size |-> short + labels * (nlabel - 1), max_stack |-> max_stack,
         numbytes |-> [literal |-> nlit, fork |-> nfork, var_name |-> nvar,
                       stack |-> nstack, label |-> nlabel]]

stmt_to_code(body, g, line) ==
    LET code(st) == [bc |-> Assemble(reduce_refs(st.b), st.max, st.g), g |-> st.g, left |-> st.cur, line |-> st.line]
    IN  code(EmitMapped(<<<<"DONE">>>>, "DONE", generate_stmt(body, init_state(g, line))))

generate_fork(s, st) ==
    LET forked(time, f) ==
            add_fixup("FORKREF", Len(f.g.forks),
              [time EXCEPT !.g = [f.g EXCEPT !.forks = Append(@, f.bc)], !.line = f.line])
        started(time) == forked(time, stmt_to_code(s[4], time.g, time.line))
        named(a) == IF s[2] >= 0 THEN add_var_ref(s[2], a) ELSE a
    IN  pop_stack(1, named(started(emit_byte(<<<<IF s[2] >= 0 THEN "FORK_WITH_ID" ELSE "FORK">>>>,
                                             generate_expr(s[3], st)))))

generate_if(s, st) ==
    LET otherwise(r) == define_label(r.ends, IF s[3] = <<>> THEN r.st ELSE generate_stmt(s[3], NextLine(r.st)))
    IN  otherwise(generate_arms(s[2], "IF", {}, st))

generate_one(s, st) ==
    CASE s[1] = "if" -> NextLine(generate_if(s, st))
      [] s[1] = "for" -> NextLine(generate_for(s, st))
      [] s[1] = "forrange" -> NextLine(generate_forrange(s, st))
      [] s[1] = "while" -> NextLine(generate_while(s, st))
      [] s[1] = "fork" -> NextLine(generate_fork(s, st))
      [] s[1] = "expr" -> pop_stack(1, emit_byte(<<<<"POP">>>>, generate_expr(s[2], st)))
      [] s[1] = "return" ->
           IF s[2] = None THEN EmitMapped(<<<<"RETURN0">>>>, "DONE", st)
           ELSE pop_stack(1, EmitMapped(<<<<"RETURN">>>>, "DONE", generate_expr(s[2], st)))
      [] s[1] = "except" -> NextLine(generate_except(s, st))
      [] s[1] = "finally" -> NextLine(generate_finally(s, st))
      [] s[1] \in {"break", "continue"} -> generate_exit(s, st)

generate_stmt(body, st) ==
    IF body = <<>> THEN st ELSE generate_stmt(Tail(body), generate_one(body[1], NextLine(st)))

generate_code(body) ==
    LET program(m) == [main |-> m.bc, literals |-> m.g.literals, forks |-> m.g.forks, left |-> m.left]
    IN  program(stmt_to_code(body, init_gstate, 0))
=============================================================================
