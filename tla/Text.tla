-------------------------------- MODULE Text --------------------------------
(***************************************************************************)
(* unparse.cc and parser.y: the text of a program.  Verbs are listed, and  *)
(* the database and its tasks are written, by unparsing the decompiled     *)
(* tree; set_verb_code() and the next start of the server parse the text.  *)
(*                                                                         *)
(* A text is a sequence of tokens, each a tuple that starts with its kind; *)
(* <<" ">> is a space where the lexer could join what it separates.  Lines *)
(* and indentation are left out.  An identifier token holds the slot of    *)
(* the variable, the function or the name it stands for, and says which:   *)
(* names and slots correspond one to one, and the order in which find_id() *)
(* gives slots is left out.  A character above 127 stands for a word.      *)
(***************************************************************************)
EXTENDS Decompile

CONSTANT Keywords       \* the words that find_keyword() knows, as strings

-----------------------------------------------------------------------------
(* unparse.cc                                                              *)

\* Trees of one kind have one precedence; a map has none and comes last.
prec_table == <<
    {"asgn"}, {"cond"}, {"or", "and"}, {"EQ", "NE", "LT", "LE", "GT", "GE", "IN"},
    {"BITOR", "BITAND", "BITXOR"}, {"BITSHL", "BITSHR"}, {"ADD", "MINUS"}, {"MULT", "DIV", "MOD"}, {"EXP"},
    {"UNARY_MINUS", "COMPLEMENT", "NOT"}, {"GET_PROP", "verb", "index", "range"},
    {"var", "id", "list", "call", "first", "last", "catch"}>>
Kind(e) == IF e[1] \in {"bin", "un"} THEN e[2] ELSE e[1]
LevelIn(table, k) == IF \E i \in DOMAIN table : k \in table[i] THEN CHOOSE i \in DOMAIN table : k \in table[i] ELSE 0
expr_prec(k) == LevelIn(prec_table, k)

Tok(t) == <<<<t>>>>
Space == Tok(" ")
Ident(kind, x) == <<<<"tID", kind, x>>>>
\* binop_table, and the unary operators
binop_string(op) == CASE op = "MINUS" -> "-" [] op = "EXP" -> "^" [] OTHER -> op
unop_string(op) == CASE op = "UNARY_MINUS" -> "-" [] op = "NOT" -> "!" [] op = "COMPLEMENT" -> "~"

isalpha(c) == c \in 65 .. 90 \/ c \in 97 .. 122 \/ c > 127
ok_identifier(s) ==
    /\ s # <<>> /\ (isalpha(s[1]) \/ s[1] = 95)
    /\ \A i \in DOMAIN s : isalpha(s[i]) \/ s[i] = 95 \/ s[i] \in 48 .. 57
    /\ s \notin Keywords
IsName(e) == e[1] = "var" /\ e[2][1] = "str" /\ ok_identifier(e[2][2])
System(e) == e = <<"var", <<"obj", 0>>>>

Number(t, n) == IF n < 0 THEN Tok("-") \o <<<<t, -n>>>> ELSE <<<<t, n>>>>
unparse_value(v) ==
    CASE v[1] = "int" -> Number("tINTEGER", v[2])
      [] v[1] = "float" -> Number("tFLOAT", v[2])
      [] v[1] = "obj" -> <<<<"tOBJECT", v[2]>>>>
      [] v[1] = "str" -> <<<<"tSTRING", v[2]>>>>
      [] v[1] = "err" -> <<<<"tERROR", v[2]>>>>

\* the parts of a list, with commas between them
Listed(parts) ==
    FlattenSeq([i \in DOMAIN parts |-> IF i = 1 THEN parts[i] ELSE Tok(",") \o parts[i]])

RECURSIVE unparse_expr(_, _)
Brackets(full, e) == Tok("(") \o unparse_expr(full, e) \o Tok(")")
FullBrackets(full, e) == full /\ expr_prec(Kind(e)) < expr_prec("GET_PROP")
bracket_lt(full, parent, e) ==
    IF FullBrackets(full, e) \/ expr_prec(parent) > expr_prec(Kind(e)) THEN Brackets(full, e) ELSE unparse_expr(full, e)
\* Mutant: both sides of an operator get brackets like the side it associates to.
bracket_le_as_lt(full, parent, e) == bracket_lt(full, parent, e)
bracket_le(full, parent, e) ==
    IF FullBrackets(full, e) \/ expr_prec(parent) >= expr_prec(Kind(e)) THEN Brackets(full, e) ELSE unparse_expr(full, e)

unparse_name_expr(full, e) == IF IsName(e) THEN Ident("name", e[2][2]) ELSE Brackets(full, e)
unparse_arglist(full, args) ==
    Listed([i \in DOMAIN args |->
        (IF args[i][1] = "splice" THEN Tok("@") ELSE <<>>) \o unparse_expr(full, args[i][2])])
unparse_codes(full, codes) == IF codes = <<>> THEN Tok("tANY") ELSE unparse_arglist(full, codes)
unparse_maplist(full, ms) ==
    Listed([i \in DOMAIN ms |-> unparse_expr(full, ms[i][1]) \o Tok("tMAP") \o unparse_expr(full, ms[i][2])])
unparse_scatter(full, scs) ==
    Listed([i \in DOMAIN scs |->
        LET id == Ident("slot", scs[i][2])
        IN  CASE scs[i][1] = "rest" -> Tok("@") \o id
              [] scs[i][1] = "required" -> id
              [] scs[i][1] = "optional" ->
                   Tok("?") \o id \o IF scs[i][3] = None THEN <<>> ELSE Tok("=") \o unparse_expr(full, scs[i][3])])

unparse_prop(full, e) ==
    IF System(e[3]) /\ IsName(e[4]) THEN Tok("$") \o Ident("name", e[4][2][2])
    ELSE bracket_lt(full, "GET_PROP", e[3]) \o (IF e[3][1] = "var" /\ e[3][2][1] = "int" THEN Space ELSE <<>>)
         \o Tok(".") \o unparse_name_expr(full, e[4])
unparse_verb(full, e) ==
    (IF System(e[2]) /\ IsName(e[3]) THEN Tok("$") \o Ident("name", e[3][2][2])
     ELSE bracket_lt(full, "verb", e[2]) \o Tok(":") \o unparse_name_expr(full, e[3]))
    \o Tok("(") \o unparse_arglist(full, e[4]) \o Tok(")")
unparse_binary(full, k, l, r) ==
    (IF k = "EXP" THEN bracket_le(full, k, l) ELSE bracket_lt(full, k, l))
    \o Space \o Tok(binop_string(k)) \o Space
    \o (IF k = "EXP" THEN bracket_lt(full, k, r) ELSE bracket_le(full, k, r))
unparse_catch(full, e) ==
    Tok("backquote") \o unparse_expr(full, e[2]) \o Tok("!") \o unparse_codes(full, e[3])
    \o (IF e[4] = None THEN <<>> ELSE Tok("tARROW") \o unparse_expr(full, e[4])) \o Tok("quote")

unparse_expr(full, e) ==
    CASE Kind(e) = "GET_PROP" -> unparse_prop(full, e)
      [] e[1] = "verb" -> unparse_verb(full, e)
      [] e[1] = "index" ->
           bracket_lt(full, "index", e[2]) \o Tok("[") \o unparse_expr(full, e[3]) \o Tok("]")
      [] e[1] = "range" ->
           bracket_lt(full, "range", e[2]) \o Tok("[") \o unparse_expr(full, e[3]) \o Tok("tTO")
           \o unparse_expr(full, e[4]) \o Tok("]")
      [] e[1] = "bin" /\ e[2] # "GET_PROP" -> unparse_binary(full, e[2], e[3], e[4])
      [] e[1] \in {"and", "or"} -> unparse_binary(full, e[1], e[2], e[3])
      [] e[1] = "cond" ->
           bracket_le(full, "cond", e[2]) \o Tok("?") \o unparse_expr(full, e[3]) \o Tok("|")
           \o bracket_le(full, "cond", e[4])
      [] e[1] = "un" -> Tok(unop_string(e[2])) \o bracket_lt(full, e[2], e[3])
      [] e[1] = "var" -> unparse_value(e[2])
      [] e[1] = "asgn" -> unparse_expr(full, e[2]) \o Tok("=") \o unparse_expr(full, e[3])
      [] e[1] = "call" -> Ident("function", e[2]) \o Tok("(") \o unparse_arglist(full, e[3]) \o Tok(")")
      [] e[1] = "id" -> Ident("slot", e[2])
      [] e[1] = "list" -> Tok("{") \o unparse_arglist(full, e[2]) \o Tok("}")
      [] e[1] = "map" -> Tok("[") \o unparse_maplist(full, e[2]) \o Tok("]")
      [] e[1] = "scatter" -> Tok("{") \o unparse_scatter(full, e[2]) \o Tok("}")
      [] e[1] = "catch" -> unparse_catch(full, e)
      [] e[1] = "first" -> Tok("^")
      [] e[1] = "last" -> Tok("$")

RECURSIVE unparse_stmt(_, _)
OptId(id) == IF id = -1 THEN <<>> ELSE Ident("slot", id)
unparse_stmt_cond(full, s) ==
    FlattenSeq([i \in DOMAIN s[2] |->
        Tok(IF i = 1 THEN "tIF" ELSE "tELSEIF") \o Brackets(full, s[2][i][1]) \o unparse_stmt(full, s[2][i][2])])
    \o (IF s[3] = <<>> THEN <<>> ELSE Tok("tELSE") \o unparse_stmt(full, s[3])) \o Tok("tENDIF")
unparse_stmt_list(full, s) ==
    Tok("tFOR") \o OptId(s[2]) \o (IF s[3] > -1 THEN Tok(",") \o OptId(s[3]) ELSE <<>>) \o Tok("IN")
    \o Brackets(full, s[4]) \o unparse_stmt(full, s[5]) \o Tok("tENDFOR")
unparse_stmt_range(full, s) ==
    Tok("tFOR") \o OptId(s[2]) \o Tok("IN") \o Tok("[") \o unparse_expr(full, s[3]) \o Tok("tTO")
    \o unparse_expr(full, s[4]) \o Tok("]") \o unparse_stmt(full, s[5]) \o Tok("tENDFOR")
unparse_stmt_catch(full, s) ==
    Tok("tTRY") \o unparse_stmt(full, s[2])
    \o FlattenSeq([i \in DOMAIN s[3] |->
           Tok("tEXCEPT") \o OptId(s[3][i][1]) \o Tok("(") \o unparse_codes(full, s[3][i][2]) \o Tok(")")
           \o unparse_stmt(full, s[3][i][3])])
    \o Tok("tENDTRY")
UnparseOne(full, s) ==
    CASE s[1] = "if" -> unparse_stmt_cond(full, s)
      [] s[1] = "for" -> unparse_stmt_list(full, s)
      [] s[1] = "forrange" -> unparse_stmt_range(full, s)
      [] s[1] = "fork" -> Tok("tFORK") \o OptId(s[2]) \o Brackets(full, s[3]) \o unparse_stmt(full, s[4]) \o Tok("tENDFORK")
      [] s[1] = "while" -> Tok("tWHILE") \o OptId(s[2]) \o Brackets(full, s[3]) \o unparse_stmt(full, s[4]) \o Tok("tENDWHILE")
      [] s[1] = "expr" -> unparse_expr(full, s[2]) \o Tok(";")
      [] s[1] = "return" -> Tok("tRETURN") \o (IF s[2] = None THEN <<>> ELSE unparse_expr(full, s[2])) \o Tok(";")
      [] s[1] = "except" -> unparse_stmt_catch(full, s)
      [] s[1] = "finally" ->
           Tok("tTRY") \o unparse_stmt(full, s[2]) \o Tok("tFINALLY") \o unparse_stmt(full, s[3]) \o Tok("tENDTRY")
      [] s[1] = "break" -> Tok("tBREAK") \o OptId(s[2]) \o Tok(";")
      [] s[1] = "continue" -> Tok("tCONTINUE") \o OptId(s[2]) \o Tok(";")
unparse_stmt(full, body) == FlattenSeq([i \in DOMAIN body |-> UnparseOne(full, body[i])])

unparse_program(prog, full, vec) == unparse_stmt(full, decompile_program(prog, vec))

-----------------------------------------------------------------------------
(***************************************************************************)
(* parser.y.  z is the state of the parser: the tokens t, the place p of   *)
(* the next one, ok until an error, dollars_ok, loop_stack (the names of   *)
(* the loops around, -1 for one without a name, -2 for a barrier), and v,  *)
(* the value of what was parsed last.                                      *)
(***************************************************************************)

\* yylex(): a dot right after ^ makes the operator ^. of it, and one right after an
\* integer makes it a float.
yylex(text) ==
    FoldLeft(LAMBDA acc, x :
                IF x = <<" ">> THEN [acc EXCEPT !.glued = FALSE]
                ELSE LET last == IF acc.glued THEN Last(acc.t) ELSE <<"">>
                         joined == CASE last[1] = "^" -> <<"BITXOR">>
                                     [] last[1] = "tINTEGER" -> <<"tFLOAT", 2 * last[2]>>
                                     [] OTHER -> <<"">>
                     IN  [glued |-> TRUE,
                          t |-> IF x = <<".">> /\ joined # <<"">> THEN Append(Front(acc.t), joined) ELSE Append(acc.t, x)],
             [t |-> <<>>, glued |-> FALSE], text).t

At(tok, z) == z.t[z.p][1] = tok
yyerror(z) == [z EXCEPT !.ok = FALSE]
Require(c, z) == IF c THEN z ELSE yyerror(z)
Take(tok, z) == IF At(tok, z) THEN [z EXCEPT !.p = @ + 1] ELSE yyerror(z)
Value(v, z) == [z EXCEPT !.v = v]
\* tID, and opt_id
TakeId(z) == Value(IF At("tID", z) THEN z.t[z.p][3] ELSE -1, Take("tID", z))
TakeOptId(z) == IF At("tID", z) THEN TakeId(z) ELSE Value(-1, z)

\* %right, %nonassoc and %left
precedences == <<
    {"="}, {"?", "|"}, {"or", "and"}, {"EQ", "NE", "LT", "LE", "GT", "GE", "IN"},
    {"BITOR", "BITAND", "BITXOR"}, {"BITSHL", "BITSHR"}, {"ADD", "-"}, {"MULT", "DIV", "MOD"}, {"^"}, {"!", "~"}>>
RightAssociative == {"=", "^"}
Unary == LevelIn(precedences, "!")

\* The left side of an assignment
scatter_from_arglist(args) ==
    [i \in DOMAIN args |-> IF args[i][1] = "optional" THEN args[i]
                           ELSE <<IF args[i][1] = "normal" THEN "required" ELSE "rest", args[i][2][2], None>>]
AllIds(args) == \A i \in DOMAIN args : args[i][1] = "optional" \/ args[i][2][1] = "id"
vet_scatter(args) == Cardinality({i \in DOMAIN args : args[i][1] = "splice"}) <= 1 /\ Len(args) <= 255
IsScatter(args) == args # <<>> /\ AllIds(args) /\ vet_scatter(args)
RECURSIVE IndexBase(_)
IndexBase(e) == IF e[1] = "index" THEN IndexBase(e[2]) ELSE e
IsLvalue(e) == Kind(IndexBase(IF e[1] = "range" THEN e[2] ELSE e)) \in {"id", "GET_PROP"}
Assigned(l, z) ==
    IF l[1] = "list" THEN Require(IsScatter(l[2]),
                            Value(<<"asgn", <<"scatter", IF IsScatter(l[2]) THEN scatter_from_arglist(l[2]) ELSE <<>>>>, z.v>>, z))
    ELSE Require(IsLvalue(l), Value(<<"asgn", l, z.v>>, z))

RECURSIVE parse_expr(_, _), Operators(_, _), Selectors(_), Factor(_), ne_arglist(_), maplist(_)
Whole(z) == parse_expr(1, z)        \* an expression that anything but an operator ends
InBrackets(z) == Take(")", Whole(Take("(", z)))

\* an argument, or an item of a scattering assignment
Item(z) ==
    LET splice(e) == Value(<<"splice", e.v>>, e)
        optional(id, e) == Value(<<"optional", id, e.v>>, e)
        default(id) == optional(id.v, IF At("=", id) THEN Whole(Take("=", id)) ELSE Value(None, id))
        normal(e) == Value(<<"normal", e.v>>, e)
    IN  CASE At("@", z) -> splice(Whole(Take("@", z)))
          [] At("?", z) -> default(TakeId(Take("?", z)))
          [] OTHER -> normal(Whole(z))
\* one more in front of what is parsed next
Before(v, z) == Value(<<v>> \o z.v, z)
ne_arglist(z) ==
    LET more(a) == Before(a.v, IF a.ok /\ At(",", a) THEN ne_arglist(Take(",", a)) ELSE Value(<<>>, a))
    IN  more(Item(z))
NoScatter(z) == Require(\A i \in DOMAIN z.v : z.v[i][1] # "optional", z)
arglist(close, z) ==
    IF At(close, z) THEN Value(<<>>, Take(close, z)) ELSE NoScatter(Take(close, ne_arglist(z)))
codes(z) == IF At("tANY", z) THEN Value(<<>>, Take("tANY", z)) ELSE NoScatter(ne_arglist(z))
maplist(z) ==
    LET more(k, v) == Before(<<k, v.v>>, IF v.ok /\ At(",", v) THEN maplist(Take(",", v)) ELSE Value(<<>>, v))
        value(k) == more(k.v, Whole(Take("tMAP", k)))
    IN  value(Whole(z))

\* foo.bar and foo.(bar): the name after a dot or a colon
ParseName(z) ==
    LET named(id) == Value(<<"var", <<"str", id.v>>>>, id) IN IF At("tID", z) THEN named(TakeId(z)) ELSE InBrackets(z)

Negated(z) ==
    Value(IF z.v[1] = "var" /\ z.v[2][1] \in {"int", "float"} THEN <<"var", <<z.v[2][1], Wrap(-z.v[2][2])>>>>
          ELSE <<"un", "UNARY_MINUS", z.v>>, z)
Braces(z) ==
    LET closed(list, end) ==
            IF \A i \in DOMAIN list : list[i][1] # "optional" THEN Value(<<"list", list>>, end)
            ELSE Assigned(<<"list", list>>, Whole(Take("=", end)))
        after(list) == closed(list.v, Take("}", list))
    IN  after(IF At("}", z) THEN Value(<<>>, z) ELSE ne_arglist(z))
Dollar(z) ==
    LET call(name, args) == Value(<<"verb", <<"var", <<"obj", 0>>>>, name, args.v>>, args)
        of_system(name, id) == IF At("(", id) THEN call(name, arglist(")", Take("(", id)))
                               ELSE Value(<<"bin", "GET_PROP", <<"var", <<"obj", 0>>>>, name>>, id)
        named(id) == of_system(<<"var", <<"str", id.v>>>>, id)
    IN  IF At("tID", z) THEN named(TakeId(z)) ELSE Require(z.dollars > 0, Value(<<"last">>, z))
Catch(z) ==
    LET closed(e, cs, except) == Value(<<"catch", e, cs, except.v>>, Take("quote", except))
        default(e, cs) == closed(e, cs.v, IF At("tARROW", cs) THEN Whole(Take("tARROW", cs)) ELSE Value(None, cs))
        tried(e) == default(e.v, codes(Take("!", e)))
    IN  tried(Whole(z))
LiteralOf(tok) ==
    CASE tok[1] = "tINTEGER" -> <<"int", Wrap(tok[2])>> [] tok[1] = "tFLOAT" -> <<"float", tok[2]>>
      [] tok[1] = "tOBJECT" -> <<"obj", tok[2]>> [] tok[1] = "tSTRING" -> <<"str", tok[2]>>
      [] tok[1] = "tERROR" -> <<"err", tok[2]>>
Literals == {"tINTEGER", "tFLOAT", "tOBJECT", "tSTRING", "tERROR"}
CallOf(f, args) == Value(<<"call", f, args.v>>, args)
UnaryOf(op, e) == Value(<<"un", op, e.v>>, e)
MapOf(ms) == Value(<<"map", ms.v>>, Take("]", ms))
FactorOf(tok, z, q) ==
    CASE tok[1] \in Literals -> Value(<<"var", LiteralOf(tok)>>, q)
      [] tok[1] = "tID" -> IF At("(", q) THEN CallOf(tok[3], arglist(")", Take("(", q))) ELSE Value(<<"id", tok[3]>>, q)
      [] tok[1] = "$" -> Dollar(q)
      [] tok[1] = "^" -> Require(z.dollars > 0, Value(<<"first">>, q))
      [] tok[1] = "-" -> Negated(parse_expr(Unary, q))
      [] tok[1] = "!" -> UnaryOf("NOT", parse_expr(Unary, q))
      [] tok[1] = "~" -> UnaryOf("COMPLEMENT", parse_expr(Unary, q))
      [] tok[1] = "(" -> InBrackets(z)
      [] tok[1] = "{" -> Braces(q)
      [] tok[1] = "[" -> MapOf(IF At("]", q) THEN Value(<<>>, q) ELSE maplist(q))
      [] tok[1] = "backquote" -> Catch(q)
      [] OTHER -> yyerror(z)
Factor(z) == FactorOf(z.t[z.p], z, [z EXCEPT !.p = @ + 1])

\* what binds tightest: . : [
Index(z) ==
    LET closed(v, end) == Value(v, [Take("]", end) EXCEPT !.dollars = @ - 1])
        range(from, to) == closed(<<"range", z.v, from, to.v>>, to)
        after(from) == IF At("tTO", from) THEN range(from.v, Whole(Take("tTO", from)))
                       ELSE closed(<<"index", z.v, from.v>>, from)
    IN  after(Whole([Take("[", z) EXCEPT !.dollars = @ + 1]))
Selectors(z) ==
    LET prop(name) == Value(<<"bin", "GET_PROP", z.v, name.v>>, name)
        call(name, args) == Value(<<"verb", z.v, name, args.v>>, args)
        verb(name) == call(name.v, arglist(")", Take("(", name)))
    IN  CASE z.ok /\ At(".", z) -> Selectors(prop(ParseName(Take(".", z))))
          [] z.ok /\ At(":", z) -> Selectors(verb(ParseName(Take(":", z))))
          [] z.ok /\ At("[", z) -> Selectors(Index(z))
          [] OTHER -> z

Combined(op, l, r) ==
    CASE op \in {"and", "or"} -> <<op, l, r>>
      [] op = "-" -> <<"bin", "MINUS", l, r>>
      [] op = "^" -> <<"bin", "EXP", l, r>>
      [] OTHER -> <<"bin", op, l, r>>
\* z.v is followed by operators of at least level min.  ? is not associative.
Conditional(z) ==
    LET closed(a, b) == Require(~At("?", b), Value(<<"cond", z.v, a, b.v>>, b))
        otherwise(a) == closed(a.v, parse_expr(LevelIn(precedences, "?") + 1, Take("|", a)))
    IN  otherwise(Whole(Take("?", z)))
Binary(op, z) ==
    LET level == LevelIn(precedences, op)
        joined(r) == IF op # "=" THEN Value(Combined(op, z.v, r.v), r) ELSE IF r.ok THEN Assigned(z.v, r) ELSE r
    IN  IF op = "?" THEN Conditional(z)
        ELSE joined(parse_expr(IF op \in RightAssociative THEN level ELSE level + 1, Take(op, z)))
IsOperator(op, min) == op \notin {"|", "!", "~"} /\ LevelIn(precedences, op) >= min
Operators(min, z) == IF z.ok /\ IsOperator(z.t[z.p][1], min) THEN Operators(min, Binary(z.t[z.p][1], z)) ELSE z

parse_expr(min, z) == IF z.ok THEN Operators(min, Selectors(Factor(z))) ELSE z

-----------------------------------------------------------------------------
(* Statements.                                                             *)
suspend_loop_scope(z) == [z EXCEPT !.loops = Append(@, -2)]
pop_loop_names(n, z) == [z EXCEPT !.loops = SubSeq(@, 1, Len(@) - n)]
\* the loops inside the innermost barrier
check_loop_name(id, z) ==
    LET seen == {i \in DOMAIN z.loops : \A j \in i .. Len(z.loops) : z.loops[j] # -2}
    IN  Require(IF id = -1 THEN seen # {} ELSE \E i \in seen : z.loops[i] = id, z)

RECURSIVE statements(_), elseifs(_), excepts(_)
\* the body of a loop that has pushed its names
LoopBody(names, end, z) == pop_loop_names(Len(names), Take(end, statements([z EXCEPT !.loops = @ \o names])))
For(z) ==
    LET names(id, index) == IF index = -1 THEN <<id>> ELSE <<id, index>>
        list(id, index, e, body) == Value(<<"for", id, index, e, body.v>>, body)
        over(id, index, e) == list(id, index, e.v, LoopBody(names(id, index), "tENDFOR", e))
        range(id, from, to, body) == Value(<<"forrange", id, from, to, body.v>>, body)
        upto(id, from, to) == range(id, from, to.v, LoopBody(<<id>>, "tENDFOR", Take("]", to)))
        from(id, e) == upto(id, e.v, Whole(Take("tTO", e)))
        of(id, index, in) == IF index = -1 /\ At("[", in) THEN from(id, Whole(Take("[", in)))
                             ELSE over(id, index, InBrackets(in))
        indexed(id, index) == of(id, index.v, Take("IN", index))
        named(id) == indexed(id.v, IF At(",", id) THEN TakeId(Take(",", id)) ELSE Value(-1, id))
    IN  named(TakeId(z))
While(z) ==
    LET closed(id, c, body) == Value(<<"while", id, c, body.v>>, body)
        loop(id, c) == closed(id, c.v, LoopBody(<<id>>, "tENDWHILE", c))
        named(id) == loop(id.v, InBrackets(id))
    IN  named(TakeOptId(z))
Fork(z) ==
    LET closed(id, time, body) == Value(<<"fork", id, time, body.v>>, body)
        barred(id, time) == closed(id, time.v, pop_loop_names(1, Take("tENDFORK", statements(suspend_loop_scope(time)))))
        named(id) == barred(id.v, InBrackets(id))
    IN  named(TakeOptId(z))
\* the arms from an if or elseif on
elseifs(z) ==
    LET more(c, body) == Before(<<c, body.v>>, IF body.ok /\ At("tELSEIF", body) THEN elseifs(Take("tELSEIF", body))
                                               ELSE Value(<<>>, body))
        arm(c) == more(c.v, statements(c))
    IN  arm(InBrackets(z))
If(z) ==
    LET closed(arms, otherwise) == Value(<<"if", arms, otherwise.v>>, Take("tENDIF", otherwise))
        else(arms) == closed(arms.v, IF At("tELSE", arms) THEN statements(Take("tELSE", arms)) ELSE Value(<<>>, arms))
    IN  else(elseifs(z))
excepts(z) ==
    LET reached(cs, rest) == Require(cs # <<>> \/ Len(rest.v) = 1, rest)       \* `Unreachable EXCEPT clause'
        more(id, cs, body) ==
            reached(cs, Before(<<id, cs, body.v>>, IF body.ok /\ At("tEXCEPT", body) THEN excepts(Take("tEXCEPT", body))
                                                   ELSE Value(<<>>, body)))
        arm(id, cs) == more(id, cs.v, statements(Take(")", cs)))
        named(id) == arm(id.v, codes(Take("(", id)))
    IN  named(TakeOptId(z))
Try(z) ==
    LET except(body, arms) == Value(<<"except", body, arms.v>>, Take("tENDTRY", Require(Len(arms.v) <= 256, arms)))
        finally(body, h) == Value(<<"finally", body, h.v>>, Take("tENDTRY", h))
        after(body) == IF At("tEXCEPT", body) THEN except(body.v, excepts(Take("tEXCEPT", body)))
                       ELSE finally(body.v, statements(Take("tFINALLY", body)))
    IN  after(statements(z))
Exit(kind, z) ==
    LET named(id) == Value(<<kind, id.v>>, Take(";", check_loop_name(id.v, id))) IN named(TakeOptId(z))
Return(z) ==
    LET closed(e) == Value(<<"return", e.v>>, Take(";", e)) IN closed(IF At(";", z) THEN Value(None, z) ELSE Whole(z))
Expression(z) == LET closed(e) == Value(<<"expr", e.v>>, Take(";", e)) IN closed(Whole(z))
statement(z) ==
    CASE At("tIF", z) -> If(Take("tIF", z))
      [] At("tFOR", z) -> For(Take("tFOR", z))
      [] At("tWHILE", z) -> While(Take("tWHILE", z))
      [] At("tFORK", z) -> Fork(Take("tFORK", z))
      [] At("tTRY", z) -> Try(Take("tTRY", z))
      [] At("tBREAK", z) -> Exit("break", Take("tBREAK", z))
      [] At("tCONTINUE", z) -> Exit("continue", Take("tCONTINUE", z))
      [] At("tRETURN", z) -> Return(Take("tRETURN", z))
      [] OTHER -> Expression(z)
Closers == {"EOF", "tENDIF", "tELSE", "tELSEIF", "tENDFOR", "tENDWHILE", "tENDFORK", "tEXCEPT", "tFINALLY", "tENDTRY"}
statements(z) ==
    LET more(s) == Before(s.v, statements(s))
    IN  IF ~z.ok \/ z.t[z.p][1] \in Closers THEN Value(<<>>, z)
        ELSE IF At(";", z) THEN statements(Take(";", z)) ELSE more(statement(z))

\* the tree, unless there was an error
parse_program(text) ==
    LET parsed(z) == [ok |-> z.ok /\ At("EOF", z), body |-> z.v]
    IN  parsed(statements([t |-> Append(yylex(text), <<"EOF">>), p |-> 1, ok |-> TRUE, dollars |-> 0,
                           loops |-> <<>>, v |-> None]))
=============================================================================
