------------------------------ MODULE Meaning ------------------------------
(***************************************************************************)
(* What a MOO program means, said of its tree: the specification that      *)
(* compiler, interpreter and database format have to meet together.        *)
(*                                                                         *)
(* s is the state: f (the running frame: env, this, player, progr, recv,   *)
(* vloc, verb, debug), depth, log, props, forks.  Evaluating gives         *)
(* [s, k, v]: k is ok, raise, abort, or for statements also return, break  *)
(* and continue; v the value, the error list, or the name of the loop.     *)
(* answer is the value that a suspended task is resumed with.              *)
(***************************************************************************)
EXTENDS Opcodes

CONSTANT MaxRounds      \* a loop that goes on longer is taken to go on forever

Ok(s, v) == [s |-> s, k |-> "ok", v |-> v]
ErrorList(code, value) == ListV(<<code, Empty, value, ListV(<<>>)>>)
Error(s, code, value) == IF s.f.debug THEN [s |-> s, k |-> "raise", v |-> ErrorList(code, value)] ELSE Ok(s, code)
Fail(s, e) == Error(s, ErrV(e), zero)
Then(r, F(_, _)) == IF r.k # "ok" THEN r ELSE F(r.s, r.v)
Sized(s, v) == IF Len(v[2]) <= MaxLen THEN Ok(s, v)
               ELSE IF Catchable THEN Fail(s, "E_QUOTA") ELSE [s |-> s, k |-> "abort", v |-> zero]
OrFail(s, v) == IF v[1] = "err" THEN Fail(s, v[2]) ELSE Ok(s, v)
Assign(s, slot, v) == [s EXCEPT !.f.env[slot] = v]
Wizard(s) == HasFlag(s, s.f.progr, NameOf("BP_WIZARD"))

Lookup(s, l, i) ==
    IF BadIndex(l, i) THEN Fail(s, "E_TYPE")
    ELSE IF OutOfRange(l, i) \/ (l[1] = "map" /\ KeyAt(l, i) = 0) THEN Fail(s, "E_RANGE") ELSE Ok(s, Element(l, i))
Update(s, l, i, v) ==
    IF BadIndex(l, i) \/ (l[1] = "str" /\ v[1] # "str") THEN Fail(s, "E_TYPE")
    ELSE IF OutOfRange(l, i) THEN Fail(s, "E_RANGE")
    ELSE CASE l[1] = "str" /\ Len(v[2]) # 1 -> Fail(s, "E_INVARG")
           [] l[1] = "list" -> Sized(s, listset(l, v, i[2]))
           [] l[1] = "map" -> Sized(s, mapinsert(l, i, v))
           [] OTHER -> Ok(s, <<"str", [l[2] EXCEPT ![i[2]] = v[2][1]]>>)
\* the machine that the operators of Execute about properties look at
AsMachine(s) == [stk |-> <<s.f>>, props |-> s.props]
GetProp(s, o, n) ==
    LET checked(e) == IF e # "E_NONE" THEN Fail(s, e) ELSE Ok(s, s.props[<<o[2], n>>].v)
    IN  checked(ReadError(AsMachine(s), o, n))
PutProp(s, o, n, v) ==
    LET norm == IF PropKind(n) \in {"BP_PROGRAMMER", "BP_WIZARD", "BP_R", "BP_W", "BP_F", "BP_A"} THEN Bool(is_true(v)) ELSE v
        checked(e) == IF e # "E_NONE" THEN Fail(s, e) ELSE Ok([s EXCEPT !.props[<<o[2], n>>].v = norm], v)
    IN  checked(WriteError(AsMachine(s), o, n, v))

RECURSIVE E(_, _, _), Args(_, _, _, _), Pairs(_, _, _, _), Body(_, _, _), Place(_, _, _), Store(_, _, _, _),
          Defaults(_, _, _), Arms(_, _, _), Codes(_, _, _, _), Loop(_, _, _, _)

Codelist(codes, s, at) == IF codes = <<>> THEN Ok(s, zero) ELSE Args(codes, s, at, <<>>)

\* the first argument makes a list, which may have any length; the others extend it
Grown(s, done, more) == IF done = <<>> THEN Ok(s, ListV(more)) ELSE Sized(s, ListV(done \o more))
\* $ and ^ are about the value being indexed: at
Args(args, s, at, done) ==
    IF args = <<>> THEN Ok(s, ListV(done))
    ELSE Then(E(args[1][2], s, at), LAMBDA t, v :
           IF args[1][1] = "splice" /\ v[1] # "list" THEN Fail(t, "E_TYPE")
           ELSE Then(Grown(t, done, IF args[1][1] = "normal" THEN <<v>> ELSE v[2]), LAMBDA u, l :
                  Args(Tail(args), u, at, l[2])))
Pairs(ms, s, at, map) ==
    IF ms = <<>> THEN Ok(s, map)
    ELSE Then(E(ms[1][2], s, at), LAMBDA t, v : Then(E(ms[1][1], t, at), LAMBDA u, k :
           IF is_collection(k) THEN Fail(u, "E_TYPE")
           ELSE Then(Sized(u, mapinsert(map, k, v)), LAMBDA w, n : Pairs(Tail(ms), w, at, n))))

\* The place that is assigned to: the value there now, and the values it was reached by
Place(e, s, at) ==
    CASE e[1] = "id" -> IF s.f.env[e[2]] = None THEN Fail(s, "E_VARNF") ELSE Ok(s, [cur |-> s.f.env[e[2]], by |-> <<>>])
      [] e[1] = "bin" -> Then(E(e[3], s, at), LAMBDA t, o : Then(E(e[4], t, at), LAMBDA u, n :
           Then(GetProp(u, o, n), LAMBDA w, v : Ok(w, [cur |-> v, by |-> <<o, n>>]))))
      [] e[1] = "index" -> Then(Place(e[2], s, at), LAMBDA t, p : Then(E(e[3], t, p.cur), LAMBDA u, i :
           IF p.cur[1] = "str" THEN Fail(u, "E_TYPE")
           ELSE Then(Lookup(u, p.cur, i), LAMBDA w, v : Ok(w, [cur |-> v, by |-> Append(p.by, <<p.cur, i>>)]))))
\* store v at e, which was reached by by
Store(e, s, by, v) ==
    CASE e[1] = "id" -> Ok(Assign(s, e[2], v), v)
      [] e[1] = "bin" -> PutProp(s, by[1], by[2], v)
      [] e[1] = "index" -> Then(Update(s, Last(by)[1], Last(by)[2], v), LAMBDA t, w : Store(e[2], t, Front(by), w))
Assignment(l, r, s, at) ==
    CASE l[1] = "id" -> Then(E(r, s, at), LAMBDA t, v : Ok(Assign(t, l[2], v), v))
      [] l[1] = "bin" -> Then(E(l[3], s, at), LAMBDA t, o : Then(E(l[4], t, at), LAMBDA u, n :
           Then(E(r, u, at), LAMBDA w, v : PutProp(w, o, n, v))))
      [] l[1] = "index" -> Then(Place(l[2], s, at), LAMBDA t, p : Then(E(l[3], t, p.cur), LAMBDA u, i :
           Then(E(r, u, at), LAMBDA w, v : Then(Update(w, p.cur, i, v), LAMBDA x, n :
             Then(Store(l[2], x, p.by, n), LAMBDA y, ignored : Ok(y, v))))))
      [] l[1] = "range" -> Then(Place(l[2], s, at), LAMBDA t, p : Then(E(l[3], t, p.cur), LAMBDA u, from :
           Then(E(l[4], u, p.cur), LAMBDA w, to : Then(E(r, w, at), LAMBDA x, v :
             IF BadRange(p.cur, from, to) \/ p.cur[1] # v[1] THEN Fail(x, "E_TYPE")
             ELSE IF p.cur[1] = "map" \/ from[2] > Len(p.cur[2]) + 1 \/ to[2] < 0 THEN Fail(x, "E_RANGE")
             ELSE Then(Sized(x, listrangeset(p.cur, from[2], to[2], v)), LAMBDA y, n :
               Then(Store(l[2], y, p.by, n), LAMBDA z, ignored : Ok(z, v)))))))

\* A scatter: the required targets take their share first, then the optional ones from
\* the left, then the rest; defaults are evaluated after that, in order
Defaults(scs, s, at) ==
    IF scs = <<>> THEN Ok(s, zero)
    ELSE Then(E(scs[1][3], s, at), LAMBDA t, v : Defaults(Tail(scs), Assign(t, scs[1][2], v), at))
Scatter(scs, list, s, at) ==
    LET kinds(k) == {i \in DOMAIN scs : scs[i][1] = k}
        nreq == Cardinality(kinds("required"))
        spare == Len(list[2]) - nreq
        given == {i \in kinds("optional") : Cardinality({j \in kinds("optional") : j < i}) < spare}
        nrest == IF kinds("rest") = {} \/ spare < Cardinality(kinds("optional")) THEN 0
                 ELSE spare - Cardinality(kinds("optional"))
        width(i) == IF scs[i][1] = "rest" THEN nrest ELSE IF i \in kinds("required") \cup given THEN 1 ELSE 0
        from(i) == 1 + FoldSet(LAMBDA j, acc : acc + width(j), 0, {j \in DOMAIN scs : j < i})
        take(acc, i) == CASE scs[i][1] = "rest" ->
                               Assign(acc, scs[i][2], ListV(SubSeq(list[2], from(i), from(i) + nrest - 1)))
                          [] scs[i][1] # "rest" /\ width(i) = 1 -> Assign(acc, scs[i][2], list[2][from(i)])
                          [] OTHER -> acc
        missing == SelectSeq([i \in DOMAIN scs |-> i],
                             LAMBDA i : i \in kinds("optional") \ given /\ scs[i][3] # None)
    IN  IF list[1] # "list" THEN Fail(s, "E_TYPE")
        ELSE IF spare < 0 \/ (kinds("rest") = {} /\ Len(list[2]) > Len(scs)) THEN Fail(s, "E_ARGS")
        ELSE Then(Defaults([i \in DOMAIN missing |-> scs[missing[i]]],
                           FoldLeft(take, s, [i \in DOMAIN scs |-> i]), at),
                  LAMBDA t, ignored : Ok(t, list))

\* A verb runs in a frame of its own, and its frame goes whichever way it ends
Returned(s, t) == [t EXCEPT !.f = s.f, !.depth = s.depth]
Call(s, where, recv, vname, this, args) ==
    LET verb == Verbs[<<where, vname>>]
        given == s.f.env[SLOT_PLAYER]
        player == IF Wizard(s) /\ given[1] = "obj" THEN given ELSE Obj(s.f.player)
        env == [NewEnv EXCEPT ![SLOT_THIS] = this, ![SLOT_CALLER] = s.f.this, ![SLOT_DOBJ] = s.f.env[SLOT_DOBJ],
                              ![SLOT_PLAYER] = player, ![SLOT_VERB] = vname, ![SLOT_ARGS] = args]
        frame == [env |-> env, this |-> this, player |-> player[2], progr |-> verb.owner, recv |-> recv,
                  vloc |-> Obj(where), verb |-> vname, debug |-> verb.debug]
        after(r) == CASE r.k = "ok" -> Ok(Returned(s, r.s), zero)
                      [] r.k = "return" -> Ok(Returned(s, r.s), r.v)
                      [] r.k \in {"raise", "abort"} -> [r EXCEPT !.s = Returned(s, @)]
    IN  after(Body(verb.body, [s EXCEPT !.f = frame, !.depth = @ + 1], 0))
Invoke(s, obj, vname, args) ==
    LET recv == ProtoOf(AsMachine(s), obj)
        where == find_callable_verbdef(<<recv>>, vname)
    IN  IF args[1] # "list" \/ vname[1] # "str" THEN Fail(s, "E_TYPE")
        ELSE IF is_object(obj) /\ ~is_valid(obj) THEN Fail(s, "E_INVIND")
        ELSE IF ~is_object(obj) /\ recv = NOTHING THEN Fail(s, "E_TYPE")
        ELSE IF where = NOTHING THEN Fail(s, "E_VERBNF")
        ELSE IF s.depth >= MaxDepth THEN Fail(s, "E_MAXREC") ELSE Call(s, where, recv, vname, obj, args)
Pass(s, args) ==
    LET orphan == ~is_valid(s.f.vloc) \/ Parents[s.f.vloc[2]] = <<>>
        where == PassedTo(Parents[s.f.vloc[2]], s.f.verb)
    IN  IF orphan THEN Fail(s, "E_INVIND") ELSE IF where = NOTHING THEN Fail(s, "E_VERBNF")
        ELSE IF s.depth >= MaxDepth THEN Fail(s, "E_MAXREC")
        ELSE Call(s, where, s.f.recv, s.f.verb, s.f.this, args)
Eval(s, text) ==
    LET env == [NewEnv EXCEPT ![SLOT_THIS] = Obj(NOTHING), ![SLOT_CALLER] = s.f.this, ![SLOT_DOBJ] = Obj(NOTHING),
                              ![SLOT_PLAYER] = Obj(s.f.player), ![SLOT_VERB] = Empty, ![SLOT_ARGS] = ListV(<<>>)]
        frame == [env |-> env, this |-> Obj(NOTHING), player |-> s.f.player, progr |-> s.f.progr, recv |-> NOTHING,
                  vloc |-> Obj(NOTHING), verb |-> Empty, debug |-> TRUE]
        after(r) == IF r.k \in {"raise", "abort"} THEN [r EXCEPT !.s = Returned(s, @)]
                    ELSE Ok(Returned(s, r.s), ListV(<<IntV(1), IF r.k = "return" THEN r.v ELSE zero>>))
    IN  IF text \notin DOMAIN Texts THEN Ok(s, ListV(<<zero, ListV(<<>>)>>))
        ELSE IF s.depth >= MaxDepth THEN Fail(s, "E_MAXREC")
        ELSE after(Body(Texts[text], [s EXCEPT !.f = frame, !.depth = @ + 1], 0))
RECURSIVE Func(_, _, _)
Func(s, f, args) ==
    LET a == args[2]
        named == {g \in DOMAIN FuncTable : FuncStr(g) = a[1]}
        protected == f \in ProtectedFuncs /\ s.f.this # Obj(0)
        stand_in == find_callable_verbdef(<<0>>, BfStr(f))
    IN  IF protected /\ stand_in # NOTHING
        THEN IF s.depth >= MaxDepth THEN Fail(s, "E_MAXREC") ELSE Call(s, stand_in, 0, BfStr(f), Obj(0), args)
        ELSE IF protected /\ ~Wizard(s) THEN Fail(s, "E_PERM")
        ELSE IF ArgsFit(f, a) # "E_NONE" THEN Fail(s, ArgsFit(f, a))
        ELSE CASE f = "notify" -> Ok([s EXCEPT !.log = Append(@, a[1])], zero)
               [] f = "raise" -> Error(s, a[1], IF Len(a) >= 3 THEN a[3] ELSE zero)
               [] f = "suspend" ->
                    IF a # <<>> /\ a[1][2] < 0 THEN Fail(s, "E_INVARG")
                    ELSE IF s.f.progr \in NoQuota THEN Fail(s, "E_QUOTA")
                    ELSE IF s.answer[1] = "err" THEN Error(s, s.answer, zero) ELSE Ok(s, s.answer)
               [] f = "pass" -> Pass(s, args)
               [] f = "eval" -> IF ~HasFlag(s, s.f.progr, NameOf("BP_PROGRAMMER")) THEN Fail(s, "E_PERM") ELSE Eval(s, a[1])
               [] f = "task_perms" -> Ok(s, Obj(s.f.progr))
               [] f = "set_task_perms" -> IF s.f.progr # a[1][2] /\ ~Wizard(s) THEN Fail(s, "E_PERM")
                                          ELSE Ok([s EXCEPT !.f.progr = a[1][2]], zero)
               [] f = "call_function" -> IF named = {} THEN Error(s, ErrV("E_INVARG"), a[1])
                                         ELSE Func(s, CHOOSE g \in named : TRUE, ListV(Tail(a)))
               [] f = "kill_task" -> [s |-> s, k |-> "abort", v |-> zero]
               [] OTHER -> Ok(s, zero)

\* the value of an expression; at is the innermost value being indexed
E(e, s, at) ==
    CASE e[1] = "var" -> Ok(s, e[2])
      [] e[1] = "id" -> IF s.f.env[e[2]] = None THEN Fail(s, "E_VARNF") ELSE Ok(s, s.f.env[e[2]])
      [] e[1] \in {"and", "or"} -> Then(E(e[2], s, at), LAMBDA t, v :
           IF is_true(v) = (e[1] = "or") THEN Ok(t, v) ELSE E(e[3], t, at))
      [] e[1] = "un" -> Then(E(e[3], s, at), LAMBDA t, v :
           CASE e[2] = "NOT" -> Ok(t, Bool(~is_true(v)))
             [] v[1] = "int" -> Ok(t, IntV(Wrap(IF e[2] = "UNARY_MINUS" THEN -v[2] ELSE -v[2] - 1)))
             [] OTHER -> Fail(t, "E_TYPE"))
      [] e[1] = "bin" -> Then(E(e[3], s, at), LAMBDA t, l : Then(E(e[4], t, at), LAMBDA u, r :
           CASE e[2] \in {"EQ", "NE"} -> Ok(u, Bool(equality(l, r, FALSE) = (e[2] = "EQ")))
             [] e[2] \in {"LT", "LE", "GT", "GE"} -> OrFail(u, Comparison(e[2], l, r))
             [] e[2] = "IN" -> IF r[1] \notin {"list", "map"} THEN Fail(u, "E_TYPE") ELSE Ok(u, IntV(ismember(l, r, FALSE)))
             [] e[2] = "GET_PROP" -> GetProp(u, l, r)
             [] e[2] = "ADD" /\ l[1] = "str" /\ r[1] = "str" -> Sized(u, <<"str", l[2] \o r[2]>>)
             [] e[2] \in {"BITOR", "BITAND", "BITXOR", "BITSHL", "BITSHR"} -> OrFail(u, BitOperation(e[2], l, r))
             [] OTHER -> OrFail(u, Arithmetic(e[2], l, r))))
      [] e[1] = "index" -> Then(E(e[2], s, at), LAMBDA t, l : Then(E(e[3], t, l), LAMBDA u, i : Lookup(u, l, i)))
      [] e[1] = "range" -> Then(E(e[2], s, at), LAMBDA t, b : Then(E(e[3], t, b), LAMBDA u, f :
           Then(E(e[4], u, b), LAMBDA w, to :
             IF BadRange(b, f, to) THEN Fail(w, "E_TYPE")
             ELSE IF b[1] # "map" /\ f[2] <= to[2] /\ ~({f[2], to[2]} \subseteq 1 .. Len(b[2])) THEN Fail(w, "E_RANGE")
             ELSE Ok(w, sublist(b, f[2], to[2])))))
      [] e[1] = "last" -> IF at[1] \in {"str", "list"} THEN Ok(s, IntV(Len(at[2])))
                          ELSE IF at[1] = "map" THEN Ok(s, IF at[2] = <<>> THEN None ELSE Last(at[2])[1])
                          ELSE Fail(s, "E_TYPE")
      [] e[1] = "first" -> IF at[1] \in {"str", "list"} THEN Ok(s, Bool(at[2] # <<>>))
                           ELSE IF at[1] = "map" THEN Ok(s, IF at[2] = <<>> THEN None ELSE at[2][1][1])
                           ELSE Fail(s, "E_TYPE")
      [] e[1] = "map" -> Pairs(e[2], s, at, MapV(<<>>))
      [] e[1] = "list" -> Args(e[2], s, at, <<>>)
      [] e[1] = "call" -> Then(Args(e[3], s, at, <<>>), LAMBDA t, args : Func(t, e[2], args))
      [] e[1] = "verb" -> Then(E(e[2], s, at), LAMBDA t, o : Then(E(e[3], t, at), LAMBDA u, n :
           Then(Args(e[4], u, at, <<>>), LAMBDA w, args : Invoke(w, o, n, args))))
      [] e[1] = "cond" -> Then(E(e[2], s, at), LAMBDA t, c : E(IF is_true(c) THEN e[3] ELSE e[4], t, at))
      [] e[1] = "asgn" /\ e[2][1] = "scatter" -> Then(E(e[3], s, at), LAMBDA t, v : Scatter(e[2][2], v, t, at))
      [] e[1] = "asgn" /\ e[2][1] # "scatter" -> Assignment(e[2], e[3], s, at)
      [] e[1] = "catch" -> Then(Codelist(e[3], s, at), LAMBDA t, codes :
           LET after(r) == IF r.k = "raise" /\ Handles(codes, r.v[2][1])
                           THEN IF e[4] = None THEN Ok(r.s, r.v[2][1]) ELSE E(e[4], r.s, at)
                           ELSE r
           IN  after(E(e[2], t, at)))

-----------------------------------------------------------------------------
\* The n-th round of the loop x over b, the values that its head gave: whether there is one
Round(x, b, n, s) ==
    CASE x[1] = "while" ->
           Then(E(x[3], s, 0), LAMBDA u, c : Ok(IF x[2] = -1 THEN u ELSE Assign(u, x[2], c), is_true(c)))
      [] x[1] = "forrange" -> IF n > b[2][2] - b[1][2] + 1 THEN Ok(s, FALSE)
                              ELSE Ok(Assign(s, x[2], <<b[1][1], b[1][2] + n - 1>>), TRUE)
      [] x[1] = "for" ->
           LET map == b[1] = "map"
           IN  IF n > Len(b[2]) THEN Ok(s, FALSE)
               ELSE LET t == Assign(s, x[2], IF map THEN b[2][n][2] ELSE Element(b, IntV(n)))
                    IN  Ok(IF x[3] = -1 THEN t ELSE Assign(t, x[3], IF map THEN b[2][n][1] ELSE IntV(n)), TRUE)
Mine(x, r) == r.v = -1 \/ r.v = x[2] \/ (x[1] = "for" /\ r.v = x[3])
Loop(x, b, n, s) ==
    Then(Round(x, b, n, s), LAMBDA t, more :
      IF ~more THEN Ok(t, zero)
      ELSE IF n > MaxRounds THEN [s |-> t, k |-> "abort", v |-> zero]
      ELSE LET after(r) == IF r.k = "break" /\ Mine(x, r) THEN Ok(r.s, zero)
                           ELSE IF r.k = "ok" \/ (r.k = "continue" /\ Mine(x, r)) THEN Loop(x, b, n + 1, r.s) ELSE r
           IN  after(Body(Last(x), t, 0)))

\* the codes of all arms are evaluated before the body
Codes(arms, s, done, at) ==
    IF arms = <<>> THEN Ok(s, done)
    ELSE Then(Codelist(arms[1][2], s, at), LAMBDA t, c : Codes(Tail(arms), t, Append(done, c), at))

Arms(arms, s, otherwise) ==
    IF arms = <<>> THEN Body(otherwise, s, 0)
    ELSE Then(E(arms[1][1], s, 0), LAMBDA t, c :
           IF is_true(c) THEN Body(arms[1][2], t, 0) ELSE Arms(Tail(arms), t, otherwise))

Stmt(x, s) ==
    CASE x[1] = "expr" -> Then(E(x[2], s, 0), LAMBDA t, v : Ok(t, zero))
      [] x[1] = "return" -> IF x[2] = None THEN [s |-> s, k |-> "return", v |-> zero]
                            ELSE Then(E(x[2], s, 0), LAMBDA t, v : [s |-> t, k |-> "return", v |-> v])
      [] x[1] \in {"break", "continue"} -> [s |-> s, k |-> x[1], v |-> x[2]]
      [] x[1] = "if" -> Arms(x[2], s, x[3])
      [] x[1] = "while" -> Loop(x, zero, 1, s)
      [] x[1] = "forrange" -> Then(E(x[3], s, 0), LAMBDA t, from : Then(E(x[4], t, 0), LAMBDA u, to :
           IF to[1] \in {"int", "obj"} /\ to[1] = from[1] THEN Loop(x, <<from, to>>, 1, u)
           ELSE IF u.f.debug THEN Fail(u, "E_TYPE") ELSE Ok(u, zero)))
      [] x[1] = "for" -> Then(E(x[4], s, 0), LAMBDA t, b :
           IF b[1] \in IndexTypes THEN Loop(x, b, 1, t)
           ELSE IF t.f.debug THEN Fail(t, "E_TYPE") ELSE Ok(t, zero))
      [] x[1] = "fork" -> Then(E(x[3], s, 0), LAMBDA t, d :
           LET named == IF x[2] < 0 THEN t ELSE Assign(t, x[2], IntV(Len(t.forks) + 1))
               Stop(e) == IF t.f.debug THEN Fail(t, e) ELSE Ok(t, zero)
           IN  IF d[1] # "int" THEN Stop("E_TYPE") ELSE IF d[2] < 0 THEN Stop("E_INVARG")
               ELSE IF t.f.progr \in NoQuota THEN Stop("E_QUOTA")
               ELSE Ok([named EXCEPT !.forks = Append(@, [f |-> named.f, body |-> x[4]])], zero))
      [] x[1] = "except" -> Then(Codes(x[3], s, <<>>, 0), LAMBDA t, codes :
           LET fits(r) == {i \in DOMAIN codes : Handles(codes[i], r.v[2][1])}
               handler(arm, r) == Body(arm[3], IF arm[1] >= 0 THEN Assign(r.s, arm[1], r.v) ELSE r.s, 0)
               after(r) == IF r.k = "raise" /\ fits(r) # {}
                           THEN handler(x[3][CHOOSE i \in fits(r) : \A j \in fits(r) : i <= j], r) ELSE r
           IN  after(Body(x[2], t, 0)))
      [] x[1] = "finally" ->
           LET ended(r, h) == IF h.k # "ok" THEN h ELSE [r EXCEPT !.s = h.s]
               after(r) == IF r.k = "abort" THEN r ELSE ended(r, Body(x[3], r.s, 0))
           IN  after(Body(x[2], s, 0))

Body(body, s, n) ==
    IF body = <<>> THEN Ok(s, zero) ELSE Then(Stmt(body[1], s), LAMBDA t, v : Body(Tail(body), t, n))

\* What a task tells its player, and how it ends; then the tasks it forked, in turn
RECURSIVE Tasks(_, _, _, _)
TaskMeaning(r) ==
    [log |-> r.s.log, k |-> r.k, v |-> IF r.k = "raise" THEN r.v[2][1] ELSE IF r.k = "return" THEN r.v ELSE zero]
Tasks(todo, props, answer, done) ==
    LET next(r) == Tasks(Tail(todo) \o r.s.forks, r.s.props, answer, Append(done, TaskMeaning(r)))
    IN  IF todo = <<>> THEN done
        ELSE next(Body(todo[1].body, [f |-> todo[1].f, depth |-> 1, log |-> <<>>, props |-> props, forks |-> <<>>,
                                      answer |-> answer], 0))
=============================================================================
