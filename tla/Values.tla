------------------------------- MODULE Values -------------------------------
(***************************************************************************)
(* The values of MOO programs and what the opcodes and the built-in        *)
(* functions compute from them: structures.h, utils.cc, numbers.cc,        *)
(* list.cc, collection.cc, and map.cc seen from outside (Maps has its      *)
(* trees).  A value is a tuple that starts with its type:                  *)
(*   <<"int", n>> <<"obj", n>> <<"err", e>> <<"float", n>> (n halves)      *)
(*   <<"str", characters>> <<"list", values>> <<"map", sorted pairs>>      *)
(*   <<"none">> <<"clear">> <<"anon", o>>, and on the stacks of the        *)
(*   interpreter <<"catch", n>> <<"finally", pc>> <<"iter", n>>.           *)
(* A character is its ASCII code.                                          *)
(***************************************************************************)
EXTENDS Integers, Sequences, FiniteSets, SequencesExt

CONSTANT MaxInt     \* MAXINT: 2^31 - 1

ASSUME ValuesAssumption == MaxInt \in Nat \ {0}

MinInt == -MaxInt - 1
Wrap(n) == ((n - MinInt) % (2 * (MaxInt + 1))) + MinInt     \* the arithmetic of a Num

None == <<"none">>
Clear == <<"clear">>
IntV(n) == <<"int", n>>
ErrV(e) == <<"err", e>>
ListV(s) == <<"list", s>>
MapV(ps) == <<"map", ps>>
zero == IntV(0)
Bool(b) == IntV(IF b THEN 1 ELSE 0)

Errors == <<"E_NONE", "E_TYPE", "E_DIV", "E_PERM", "E_PROPNF", "E_VERBNF", "E_VARNF", "E_INVIND",
            "E_RECMOVE", "E_MAXREC", "E_RANGE", "E_ARGS", "E_NACC", "E_INVARG", "E_QUOTA", "E_FLOAT",
            "E_FILE", "E_EXEC", "E_INTRPT">>
\* var_type, in the order of its numbers; the complex types come last
Types == <<"int", "obj", "err", "clear", "none", "catch", "finally", "str", "list", "float",
           "map", "iter", "anon">>
RankIn(s, x) == CHOOSE i \in DOMAIN s : s[i] = x

is_collection(v) == v[1] \in {"list", "map", "anon"}
is_object(v) == v[1] \in {"obj", "anon"}
is_true(v) ==
    CASE v[1] \in {"int", "float"} -> v[2] # 0
      [] v[1] \in {"str", "list", "map"} -> v[2] # <<>>
      [] OTHER -> FALSE

cmap(c) == IF c \in 65 .. 90 THEN c + 32 ELSE c
Folded(s) == [i \in DOMAIN s |-> cmap(s[i])]
CharAt(s, i) == IF i \in DOMAIN s THEN s[i] ELSE 0
\* the difference of the first two characters that differ; 0 ends a string
strcmp(s, t) ==
    LET differ == {i \in 1 .. (Len(s) + Len(t) + 1) : CharAt(s, i) # CharAt(t, i)}
        first == CHOOSE i \in differ : \A j \in differ : i <= j
    IN  IF differ = {} THEN 0 ELSE CharAt(s, first) - CharAt(t, first)
mystrcasecmp(s, t) == strcmp(Folded(s), Folded(t))

Quot(a, b) == IF (a < 0) = (b < 0) THEN (IF a < 0 THEN -a ELSE a) \div (IF b < 0 THEN -b ELSE b)
              ELSE -((IF a < 0 THEN -a ELSE a) \div (IF b < 0 THEN -b ELSE b))

\* compare(): the order of map keys.  The difference of two integers wraps
\* around, that of two floats loses its fraction.
compare(a, b, case_matters) ==
    IF a[1] # b[1] THEN RankIn(Types, a[1]) - RankIn(Types, b[1])
    ELSE CASE a[1] \in {"int", "obj"} -> Wrap(a[2] - b[2])
           [] a[1] = "err" -> RankIn(Errors, a[2]) - RankIn(Errors, b[2])
           [] a[1] = "float" -> Quot(a[2] - b[2], 2)
           [] a[1] = "str" -> IF case_matters THEN strcmp(a[2], b[2]) ELSE mystrcasecmp(a[2], b[2])

RECURSIVE equality(_, _, _)
equality(a, b, case_matters) ==
    IF a[1] # b[1] THEN FALSE
    ELSE CASE a[1] = "str" -> a[2] = b[2] \/ (~case_matters /\ Folded(a[2]) = Folded(b[2]))
           [] a[1] = "list" -> /\ Len(a[2]) = Len(b[2])
                               /\ \A i \in DOMAIN a[2] : equality(a[2][i], b[2][i], case_matters)
           [] a[1] = "map" -> /\ Len(a[2]) = Len(b[2])
                              /\ \A i \in DOMAIN a[2] : \A k \in 1 .. 2 :
                                    equality(a[2][i][k], b[2][i][k], case_matters)
           [] OTHER -> a = b

FirstIn(places) == IF places = {} THEN 0 ELSE Min(places)
ismember(v, in, case_matters) ==
    CASE in[1] = "list" -> FirstIn({i \in DOMAIN in[2] : equality(v, in[2][i], case_matters)})
      [] in[1] = "map" -> FirstIn({i \in DOMAIN in[2] : equality(v, in[2][i][2], case_matters)})
      [] OTHER -> 0

-----------------------------------------------------------------------------
\* list.cc.  The callers have checked the types and the positions.
listappend(l, v) == ListV(Append(l[2], v))
listset(l, v, pos) == ListV([l[2] EXCEPT ![pos] = v])
listconcat(l, m) == ListV(l[2] \o m[2])
listdelete(l, pos) == ListV(RemoveAt(l[2], pos))
setadd(l, v) == IF ismember(v, l, FALSE) > 0 THEN l ELSE listappend(l, v)
setremove(l, v) == IF ismember(v, l, FALSE) > 0 THEN listdelete(l, ismember(v, l, FALSE)) ELSE l
\* sublist() and substr(); listrangeset() and strrangeset()
sublist(l, from, to) == <<l[1], IF from > to THEN <<>> ELSE SubSeq(l[2], from, to)>>
listrangeset(base, from, to, value) ==
    <<base[1], (IF from > 1 THEN SubSeq(base[2], 1, from - 1) ELSE <<>>) \o value[2]
               \o (IF Len(base[2]) > to THEN SubSeq(base[2], to + 1, Len(base[2])) ELSE <<>>)>>
strget(s, i) == <<"str", <<s[2][i]>>>>

\* map.cc: the pairs in the order of compare()
KeyAt(m, key) == FirstIn({i \in DOMAIN m[2] : compare(m[2][i][1], key, FALSE) = 0})
mapinsert(m, key, value) ==
    LET placed(ps, at) == MapV(IF at = 0 THEN Append(ps, <<key, value>>) ELSE InsertAt(ps, at, <<key, value>>))
        added(ps) == placed(ps, FirstIn({i \in DOMAIN ps : compare(key, ps[i][1], FALSE) < 0}))
        replaced(at) == added(IF at = 0 THEN m[2] ELSE RemoveAt(m[2], at))
    IN  replaced(KeyAt(m, key))
maprange(m, from, to) == MapV(SubSeq(m[2], from, to))
\* inserted one by one: value, then what follows to, which may be what precedes from
MapInsertAll(m, pairs) == FoldLeft(LAMBDA acc, p : mapinsert(acc, p[1], p[2]), m, pairs)
maprangeset(m, from, to, value) ==
    MapInsertAll(MapInsertAll(MapV(SubSeq(m[2], 1, from - 1)), value[2]), SubSeq(m[2], to + 1, Len(m[2])))

-----------------------------------------------------------------------------
\* numbers.cc, for integers and, where they only compare, for floats
compare_integers(a, b) == IF a < b THEN -1 ELSE IF a = b THEN 0 ELSE 1
do_modulus(a, b) == IF b = 0 THEN ErrV("E_DIV")
                    ELSE IF a = MinInt /\ b = -1 THEN IntV(0) ELSE IntV(a - b * Quot(a, b))
do_divide(a, b) == IF b = 0 THEN ErrV("E_DIV")
                   ELSE IF a = MinInt /\ b = -1 THEN IntV(MinInt) ELSE IntV(Quot(a, b))
\* the loop of do_power(): r * a^b, by squaring
RECURSIVE PowerLoop(_, _, _)
PowerLoop(r, a, b) ==
    IF b = 0 THEN r
    ELSE PowerLoop(IF b % 2 # 0 THEN Wrap(r * a) ELSE r, Wrap(a * a), b \div 2)
do_power(a, b) ==
    IF b >= 0 THEN IntV(PowerLoop(1, a, b))
    ELSE CASE a = -1 -> IntV(IF b % 2 = 0 THEN 1 ELSE -1)
           [] a = 0 -> ErrV("E_DIV")
           [] a = 1 -> IntV(1)
           [] OTHER -> IntV(0)

\* of the floats only sums and differences, which stay halves
Arithmetic(op, a, b) ==
    IF a[1] \notin {"int", "float"} \/ b[1] # a[1] THEN ErrV("E_TYPE")
    ELSE IF a[1] = "float" THEN <<"float", CASE op = "ADD" -> a[2] + b[2] [] op = "MINUS" -> a[2] - b[2]>>
    ELSE CASE op = "ADD" -> IntV(Wrap(a[2] + b[2]))
           [] op = "MINUS" -> IntV(Wrap(a[2] - b[2]))
           [] op = "MULT" -> IntV(Wrap(a[2] * b[2]))
           [] op = "DIV" -> do_divide(a[2], b[2])
           [] op = "MOD" -> do_modulus(a[2], b[2])
           [] op = "EXP" -> do_power(a[2], b[2])

\* OP_LT and its like
Comparison(op, a, b) ==
    LET rel == IF a[1] = "str" THEN mystrcasecmp(a[2], b[2])
               ELSE IF a[1] = "err" THEN RankIn(Errors, a[2]) - RankIn(Errors, b[2])
               ELSE compare_integers(a[2], b[2])
    IN  IF a[1] # b[1] \/ a[1] \in {"list", "map"} THEN ErrV("E_TYPE")
        ELSE Bool(CASE op = "LT" -> rel < 0 [] op = "LE" -> rel <= 0
                    [] op = "GT" -> rel > 0 [] op = "GE" -> rel >= 0)

\* EOP_BITOR and its like, on a word of as many bits as MaxInt + 1 has
Bits == CHOOSE w \in 1 .. 64 : 2 ^ (w - 1) = MaxInt + 1
Unsigned(n) == IF n < 0 THEN n + 2 * (MaxInt + 1) ELSE n
Bit(n, i) == (Unsigned(n) \div 2 ^ i) % 2
FromBits(b) == Wrap(FoldSet(LAMBDA i, acc : acc + b[i] * 2 ^ i, 0, DOMAIN b))
Bitwise2(op, a, b) ==
    LET both(i) == <<Bit(a, i), Bit(b, i)>>
    IN  FromBits([i \in 0 .. (Bits - 1) |->
            IF \/ op = "BITAND" /\ both(i) = <<1, 1>>
               \/ op = "BITOR" /\ both(i) # <<0, 0>>
               \/ op = "BITXOR" /\ both(i)[1] # both(i)[2] THEN 1 ELSE 0])
BitOperation(op, a, b) ==
    CASE a[1] # "int" \/ b[1] # "int" -> ErrV("E_TYPE")
      [] op \in {"BITAND", "BITOR", "BITXOR"} -> IntV(Bitwise2(op, a[2], b[2]))
      [] b[2] < 0 \/ b[2] > Bits -> ErrV("E_INVARG")
      [] b[2] = Bits -> IntV(0)
      [] op = "BITSHL" -> IntV(Wrap(a[2] * 2 ^ b[2]))
      [] OTHER -> IntV(Wrap(Unsigned(a[2]) \div 2 ^ b[2]))
=============================================================================
