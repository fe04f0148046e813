--------------------------- MODULE MCInterpreter ---------------------------
\* Programs for Interpreter: every way out of two nested try statements in a loop, and
\* one program for each other corner of the language.
EXTENDS Interpreter

X == <<"id", 7>>
Y == <<"id", 8>>
Z == <<"id", 9>>
ArgsId == <<"id", SLOT_ARGS>>
ThisId == <<"id", SLOT_THIS>>
DobjId == <<"id", SLOT_DOBJ>>
I(n) == <<"var", IntV(n)>>
Err(e) == <<"var", ErrV(e)>>
Str(n) == <<"str", <<n>>>>
S(n) == <<"var", Str(n)>>
O(n) == <<"var", Obj(n)>>
Do(e) == <<"expr", e>>
Set(l, r) == Do(<<"asgn", l, r>>)
Ret(e) == <<"return", e>>
One(e) == <<<<"normal", e>>>>
Two(e, f) == <<<<"normal", e>>, <<"normal", f>>>>
Fn(f, args) == <<"call", f, args>>
Log(e) == Do(Fn("notify", One(e)))
List2(e, f) == <<"list", Two(e, f)>>
Ix(l, i) == <<"index", l, i>>
Bin(op, l, r) == <<"bin", op, l, r>>
Prop(o, n) == Bin("GET_PROP", o, n)
VerbCall(o, n, args) == <<"verb", o, S(n), args>>
Div0 == Bin("DIV", I(1), I(0))
AnyCatch(e) == <<"catch", e, <<>>, None>>

V_A == 4001
V_E == 4011
V_B == 4002
V_C == 4003
V_D == 4004
P_P == 4005
P_Q == 4012
P_WIZ == 4006
P_PROG == 4007
P_OWNER == 4008
P_NAME == 4009
T_1 == 4010

MCObjects == {0, 1, 2}
MCParents == (0 :> <<>>) @@ (1 :> <<2>>) @@ (2 :> <<>>)
Verb(body, owner, debug) == [body |-> body, owner |-> owner, debug |-> debug]
MCVerbs ==
    (<<1, Str(V_A)>> :> Verb(<<Log(DobjId), Ret(Fn("pass", <<<<"splice", ArgsId>>>>))>>, 1, TRUE)) @@
    (<<2, Str(V_A)>> :> Verb(<<Log(Ix(ArgsId, I(1))), Ret(Fn("task_perms", <<>>))>>, 2, TRUE)) @@
    (<<2, Str(V_B)>> :> Verb(<<Ret(<<"verb", ThisId, <<"id", SLOT_VERB>>, <<>>>>)>>, 1, TRUE)) @@
    (<<2, Str(V_C)>> :> Verb(<<Log(Div0), <<"for", 7, -1, I(3), <<Log(X)>>>>, Ret(Fn("raise", One(Err("E_PERM"))))>>, 1, FALSE)) @@
    (<<2, Str(V_D)>> :> Verb(<<<<"finally", <<Log(Fn("suspend", <<>>)), Ret(Div0)>>, <<Log(I(5))>>>>>>, 1, TRUE)) @@
    (<<2, Str(V_E)>> :> Verb(<<<<"if", <<<<Ix(ArgsId, I(1)), <<Do(Fn("suspend", <<>>))>>>>>>, <<<<"fork", -1, I(0), <<>>>>>>>>>>, 3, TRUE)) @@
    (<<0, HandlerStr("handle_uncaught_error")>> :> Verb(<<Ret(Bin("EQ", Ix(ArgsId, I(1)), Err("E_DIV")))>>, 2, TRUE)) @@
    (<<0, BfStr("task_perms")>> :> Verb(<<Ret(O(0))>>, 2, TRUE))
MCTexts == (Str(T_1) :> <<Log(I(6)), Set(X, Fn("suspend", <<>>)), Log(ThisId), Ret(Bin("ADD", X, I(1)))>>)
PropOf(v, owner, r, w) == [v |-> v, owner |-> owner, r |-> r, w |-> w]
MCProps == (<<1, Str(P_P)>> :> PropOf(ListV(<<IntV(1), IntV(2)>>), 1, FALSE, FALSE)) @@
           (<<1, Str(P_Q)>> :> PropOf(ListV(<<IntV(1)>>), 2, TRUE, FALSE)) @@
           (<<2, Str(P_P)>> :> PropOf(IntV(3), 2, FALSE, FALSE)) @@
           (<<1, Str(P_WIZ)>> :> PropOf(IntV(0), 1, FALSE, FALSE)) @@
           (<<2, Str(P_WIZ)>> :> PropOf(IntV(1), 1, FALSE, FALSE)) @@
           (<<1, Str(P_PROG)>> :> PropOf(IntV(1), 1, FALSE, FALSE)) @@
           (<<1, Str(P_NAME)>> :> PropOf(Str(1), 1, FALSE, FALSE)) @@
           (<<1, Str(P_OWNER)>> :> PropOf(Obj(1), 1, FALSE, FALSE)) @@
           (<<2, Str(P_OWNER)>> :> PropOf(Obj(2), 1, FALSE, FALSE))
MCBuiltIns == (Str(P_WIZ) :> "BP_WIZARD") @@ (Str(P_PROG) :> "BP_PROGRAMMER") @@ (Str(P_OWNER) :> "BP_OWNER") @@
              (Str(P_NAME) :> "BP_NAME")

\* the ways out of a statement, and the statements that see them
Leaves == {Log(I(1)), Do(Div0), Ret(I(2)), <<"break", -1>>, <<"continue", -1>>, Log(Fn("suspend", <<>>))}
Handlers == {Log(I(5)), <<"break", -1>>, Ret(I(3)), Do(Fn("raise", One(Err("E_PERM"))))}
Guarded(b) == {<<"finally", <<b, Log(I(4))>>, <<h>>>> : h \in Handlers}
              \cup {<<"except", <<b, Log(I(4))>>, <<<<8, One(Err("E_DIV")), <<h>>>>>>>> : h \in {Log(I(6)), Do(Div0)}}
Nested == UNION {Guarded(g) : g \in UNION {Guarded(l) : l \in Leaves}}
Systematic == {<<<<"for", 7, -1, List2(I(1), I(2)), <<g, Log(X)>>>>, Log(I(7))>> : g \in Nested}

Corners == {
    \* indexed assignment, out to a property, through a map and with $
    <<Set(Ix(Prop(O(1), S(P_P)), <<"last">>), I(4)), Log(Prop(O(1), S(P_P))), Log(AnyCatch(Prop(O(2), S(P_P))))>>,
    <<Set(X, <<"map", <<<<I(2), List2(I(1), I(2))>>, <<I(1), S(2)>>>>>>), Set(Ix(Ix(X, I(2)), <<"last">>), I(5)), Log(X),
      Log(AnyCatch(<<"asgn", Ix(Ix(X, I(3)), I(1)), I(5)>>)), Log(X)>>,
    <<Set(X, <<"list", Two(I(1), I(2)) \o One(I(3))>>), Set(<<"range", X, I(2), <<"last">>>>, List2(I(5), X)), Log(X),
      Log(<<"range", X, I(2), I(3)>>), Log(AnyCatch(<<"range", X, I(0), I(1)>>))>>,
    \* scatter
    <<Set(X, I(1)), Do(<<"asgn", <<"scatter", <<<<"optional", 8, Bin("ADD", X, I(1))>>, <<"required", 7, None>>,
                                                <<"optional", 9, Fn("suspend", <<>>)>>, <<"rest", 10, None>>>>>>, List2(I(3), I(4))>>),
      Log(List2(X, Y)), Log(Z), Log(<<"id", 10>>)>>,
    <<Log(AnyCatch(<<"asgn", <<"scatter", <<<<"required", 7, None>>, <<"required", 8, None>>>>>>, <<"list", One(I(3))>>>>)), Log(X)>>,
    \* a map that changes, and is suspended, while it is being walked
    <<Set(X, <<"map", <<<<I(2), I(1)>>, <<I(1), I(3)>>>>>>),
      <<"for", 9, 10, X, <<Set(Ix(X, I(3)), Z), Do(Fn("suspend", <<>>)), Log(List2(Z, <<"id", 10>>)), <<"continue", 10>>>>>>, Log(X)>>,
    <<<<"for", 9, -1, <<"var", Str(1)>>, <<Do(Fn("suspend", <<One(I(0))[1]>>)), Log(Z)>>>>>>,
    \* ranges at both ends of the integers
    <<<<"forrange", 9, I(6), I(7), <<Log(Z), <<"continue", 9>>>>>>, <<"forrange", 7, I(2), I(1), <<>>>>,
      Log(AnyCatch(Bin("MINUS", I(-7), I(3))))>>,
    \* verbs: pass, permissions, depth, no debug flag, a suspended callee
    <<Log(VerbCall(ThisId, V_A, One(I(3))))>>,
    <<Set(X, I(2)), Log(AnyCatch(VerbCall(ThisId, V_B, <<>>))), Log(AnyCatch(VerbCall(O(5), V_B, <<>>))), Log(X)>>,
    <<Log(VerbCall(ThisId, V_C, <<>>))>>,
    <<<<"except", <<Do(VerbCall(O(2), V_D, <<>>))>>, <<<<9, <<>>, <<Log(Ix(Z, I(1)))>>>>>>>>>>,
    <<Do(VerbCall(O(2), V_D, <<>>))>>,
    \* functions that call back: eval, alone and called by name
    <<Log(Fn("eval", One(S(T_1)))), Log(Fn("eval", One(S(V_A))))>>,
    <<Log(Fn("call_function", Two(<<"var", FuncStr("eval")>>, S(T_1)))),
      Log(AnyCatch(Fn("call_function", One(S(9)))))>>,
    <<Log(Fn("task_perms", <<>>)), Log(AnyCatch(Fn("set_task_perms", One(O(2))))), Log(AnyCatch(<<"asgn", Prop(O(1), S(P_WIZ)), I(1)>>))>>,
    \* forks, in a loop and in each other
    <<<<"forrange", 7, I(1), I(2), <<<<"fork", 9, I(0), <<Log(List2(X, Fn("suspend", <<>>)))>>>>>>>>, Log(I(1))>>,
    <<<<"fork", -1, I(0), <<<<"finally", <<<<"fork", -1, X, <<>>>>>>, <<Log(I(2))>>>>>>>>, Log(AnyCatch(Bin("ADD", Z, I(1))))>>,
    \* conditions
    <<Set(X, I(0)), <<"if", <<<<X, <<Log(I(1))>>>>, <<<<"or", X, <<"and", I(2), I(3)>>>>, <<Log(<<"cond", X, I(1), Bin("IN", I(3), List2(I(2), I(3)))>>)>>>>>>, <<Log(I(3))>>>>>>,
    \* named loops left from inside others
    <<<<"while", 9, I(1), <<<<"forrange", 7, I(1), I(3), <<<<"finally", <<<<"break", 9>>>>, <<Log(X)>>>>>>>>>>>>, Log(Z)>>,
    <<<<"for", 9, 10, List2(I(4), I(5)), <<<<"while", -1, I(1), <<<<"finally", <<<<"continue", 10>>>>, <<Log(Z)>>>>>>>>>>>>>>,
    \* the last use of a variable, with and without a way back to it
    <<Set(X, I(1)), <<"except", <<Set(X, Bin("DIV", X, I(0)))>>, <<<<-1, <<>>, <<Log(X)>>>>>>>>, Set(X, Bin("ADD", X, X)), Log(X)>>,
    <<Set(X, I(2)), <<"forrange", 9, I(1), I(2), <<Set(Y, X), Set(X, Bin("MULT", X, Y))>>>>, Log(X), Set(Y, AnyCatch(Bin("DIV", Y, I(0)))), Log(Y)>>,
    \* strings, bits and the ends of things
    <<Set(X, <<"var", <<"str", <<65, 66>>>>>>), Set(Ix(X, <<"first">>), S(67)), Log(X), Log(Bin("EQ", X, <<"var", <<"str", <<99, 98>>>>>>)),
      Log(Bin("ADD", Ix(X, <<"last">>), X)), Log(Bin("LT", X, S(70)))>>,
    <<Log(Bin("BITOR", I(5), I(2))), Log(AnyCatch(Bin("BITSHL", I(1), I(5)))), Log(Bin("EXP", I(2), I(5))), Log(<<"un", "COMPLEMENT", I(5)>>),
      Log(Bin("MOD", <<"un", "UNARY_MINUS", AnyCatch(I(7))>>, I(4))), Log(<<"un", "NOT", Bin("BITXOR", I(6), I(6))>>)>>,
    \* a verb whose owner may have no task in the background
    <<Log(AnyCatch(VerbCall(O(2), V_E, One(I(0))))), Log(AnyCatch(VerbCall(O(2), V_E, One(I(1)))))>>,
    \* too much of something
    <<<<"while", -1, I(1), <<>>>>>>,
    <<Set(X, <<"list", <<>>>>), <<"while", -1, I(1), <<Set(X, <<"list", <<<<"splice", X>>, <<"normal", I(1)>>>>>>)>>>>>>,
    <<<<"finally", <<Do(Fn("kill_task", <<>>))>>, <<Log(I(1))>>>>>>
}
\* named loops in which nothing looks at the ticks; the second ends its task by itself
LoopSources == {<<<<"while", 9, I(1), <<>>>>>>,
                <<Set(X, I(2)), <<"while", 9, AnyCatch(X), <<<<"finally", <<<<"break", 9>>>>, <<>>>>>>>>>>,
                <<<<"while", 9, I(1), <<<<"finally", <<>>, <<<<"continue", 9>>>>>>>>>>, Log(Z)>>}
MCSources == Systematic \cup Corners \cup LoopSources
\* an indexed assignment that is not permitted
StoreSources == {<<Set(X, I(1)), Set(Ix(Prop(O(1), S(P_Q)), I(1)), I(4)), Log(I(1))>>}

\* One tree of each kind around a, b and c, and all pairs of them, one inside the other.
Binaries == {"EQ", "IN", "BITOR", "BITXOR", "BITSHL", "ADD", "MINUS", "MULT", "MOD", "EXP"}
Around(a, b, c) ==
    {Bin(op, a, b) : op \in Binaries} \cup {<<op, a, b>> : op \in {"and", "or"}} \cup {<<"un", op, a>> : op \in {"NOT", "COMPLEMENT"}}
    \cup (IF a[1] = "var" THEN {} ELSE {<<"un", "UNARY_MINUS", a>>})
    \cup {<<"cond", a, b, c>>, <<"asgn", X, a>>, <<"asgn", Ix(Prop(a, b), c), a>>,
          <<"asgn", <<"scatter", <<<<"optional", 8, a>>, <<"required", 7, None>>>>>>, b>>,
          <<"asgn", <<"scatter", <<<<"required", 8, None>>, <<"rest", 7, None>>>>>>, a>>,
          Prop(a, b), Prop(a, S(P_P)), Prop(a, <<"var", <<"str", <<49>>>>>>), <<"verb", a, b, <<<<"splice", c>>>>>>, VerbCall(a, V_A, <<>>),
          Ix(a, b), <<"range", a, b, c>>, Ix(X, Bin("ADD", a, <<"last">>)), <<"range", X, <<"first">>, Ix(a, <<"last">>)>>,
          <<"map", <<<<a, b>>>>>>, <<"list", <<<<"splice", a>>, <<"normal", b>>>>>>, Fn("notify", Two(a, b)),
          <<"catch", a, One(b), c>>, <<"catch", a, <<>>, None>>}
Atoms == {X, I(5), S(P_P), O(0), Err("E_DIV")}
Inner == Around(X, Y, Z) \cup Atoms
MCStored == {<<Do(e)>> : e \in UNION {Around(a, Y, Z) \cup Around(X, a, Z) \cup Around(X, Y, a) : a \in Inner}}
            \cup Corners
MCKeywords == {<<P_Q>>}
MCTaken == {ErrV("E_DIV")}
MCAnswers == {IntV(3), ErrV("E_DIV")}
=============================================================================
