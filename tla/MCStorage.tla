----------------------------- MODULE MCStorage -----------------------------
EXTENDS Storage

Lists(S, n) == UNION {[1..k -> S] : k \in 0..n}
Alone == [typed |-> TRUE, single |-> TRUE, parents |-> <<NOTHING>>, children |-> <<>>,
          location |-> <<NOTHING>>, contents |-> <<>>]
WithParents(ps, cs) ==
  {[Alone EXCEPT !.single = FALSE, !.parents = p, !.children = c] : p \in ps, c \in cs}
WithParent(S, cs) ==
  {[Alone EXCEPT !.parents = <<p>>, !.children = c] : p \in S \cup {NOTHING}, c \in cs}
Placed(S, cs) ==
  {[Alone EXCEPT !.location = <<l>>, !.contents = c] : l \in S \cup {NOTHING}, c \in cs}

\* 5 is a number that no object has.
MCFiles ==
  LET S == {0, 1, 5}
  IN  [0..1 -> WithParents(Lists(S, 2), Lists(S, 1)) \cup WithParent(S, Lists(S, 1))]
        \cup [0..1 -> Placed(S, Lists(S, 2))]
        \cup [0..2 -> WithParent({0, 1}, Lists({1, 2}, 1))]
        \cup [0..0 -> {[Alone EXCEPT !.typed = FALSE]}]

Alone4 == [parent |-> NOTHING, child |-> NOTHING, sibling |-> NOTHING,
           location |-> NOTHING, contents |-> NOTHING, next |-> NOTHING]
Links == {NOTHING, 0, 1, 2}
Inherits4(ps) ==
  {[Alone4 EXCEPT !.parent = p, !.child = c, !.sibling = s] : p \in ps, c, s \in Links}
Placed4 ==
  {[Alone4 EXCEPT !.location = l, !.contents = c, !.next = n] : l, c, n \in Links}

\* Object 2 is recycled, or all three are there.
MCFiles4 ==
  {[db |-> d, size |-> 3] : d \in [0..1 -> Inherits4(Links)] \cup [0..1 -> Placed4]
                                   \cup [0..2 -> Inherits4({NOTHING, 0})]}

MCModeString == {<<"r", "-", "t", "n">>, <<"r", "+", "b", "f">>, <<"w", "+", "b", "n">>,
                 <<"w", "-", "t", "f">>, <<"a", "+", "t", "n">>, <<"x", "-", "t", "n">>}
MCWritten == {<<"x">>, <<"x", "~00">>, <<"~0A", "x">>, <<"~">>, <<>>}
MCDisk == {[p |-> [kind |-> "reg", bytes |-> <<"x", "nl", "nul">>, perm |-> 420], q |-> Absent]}

MCLineSpan == {<<0, 1>>, <<1, 1>>, <<1, 3>>, <<2, 2>>, <<3, 3>>}
MCRecordLength == {-1, 1, 3, 4}
MCSeek == {<<1, "SEEK_SET">>, <<-1, "SEEK_CUR">>, <<-1, "SEEK_END">>, <<0, "SEEK">>}
MCChmod == {<<4, 4, 4>>, <<0, 0, 0>>, <<8, 0, 0>>}

MCPairs == {<<k, 1>> : k \in 1..6} \cup {<<1, 2>>}
=============================================================================
