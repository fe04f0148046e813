------------------------------- MODULE Maps --------------------------------
(* map.cc: a map is a red-black tree whose nodes are changed in place, top  *)
(* down, by rbinsert and rberase.  t.node is the memory of one tree: an     *)
(* address has a key, a value, a colour and two links.  Addresses mean      *)
(* nothing between two operations, so a node is then at the address of its  *)
(* key (Settled).  head is the false root that both functions keep on the   *)
(* stack.  The functions walk down in loops, which are recursive here, and  *)
(* so no theorem can be about them.                                         *)
EXTENDS Integers, Sequences, FiniteSets, SequencesExt, TLC

NULL == 0
head == -1
Node(key, value) == [key |-> key, value |-> value, red |-> TRUE,
                     link |-> [dir \in 0..1 |-> NULL]]
rbnew == [node |-> <<>>, root |-> NULL, size |-> 0]

is_red(n, x) == x # NULL /\ n[x].red
Dir(test) == IF test THEN 1 ELSE 0

rbsingle(n, root, dir) ==
  LET save == n[root].link[1 - dir]
  IN  [top |-> save,
       n |-> [n EXCEPT ![root].link[1 - dir] = n[save].link[dir],
                       ![save].link[dir] = root,
                       ![root].red = TRUE, ![save].red = FALSE]]

rbdouble(n, root, dir) ==
  LET lower == rbsingle(n, n[root].link[1 - dir], 1 - dir)
  IN  rbsingle([lower.n EXCEPT ![root].link[1 - dir] = lower.top], root, dir)

WithHead(t) ==
  (head :> [Node(0, 0) EXCEPT !.red = FALSE, !.link[1] = t.root]) @@ t.node

\* The root may be another one, and is made black.
Rooted(n, size) ==
  LET root == n[head].link[1]
      node == [x \in DOMAIN n \ {head} |-> n[x]]
  IN  [root |-> root, size |-> size,
       node |-> IF root = NULL THEN node ELSE [node EXCEPT ![root].red = FALSE]]

-----------------------------------------------------------------------------
\* The loop of rbinsert: t, g and p are above q, which p->link[dir] leads to.
RECURSIVE InsertLoop(_, _, _)
InsertLoop(s, key, value) ==
  LET q == IF s.q = NULL THEN key ELSE s.q
      n1 == IF s.q = NULL
            THEN [(q :> Node(key, value)) @@ s.n EXCEPT ![s.p].link[s.dir] = q]
            ELSE IF is_red(s.n, s.n[q].link[0]) /\ is_red(s.n, s.n[q].link[1])
            THEN [s.n EXCEPT ![q].red = TRUE, ![s.n[q].link[0]].red = FALSE,
                             ![s.n[q].link[1]].red = FALSE]
            ELSE s.n
      dir2 == Dir(n1[s.t].link[1] = s.g)
      turned == IF q = n1[s.p].link[s.last] THEN rbsingle(n1, s.g, 1 - s.last)
                ELSE rbdouble(n1, s.g, 1 - s.last)
      n2 == IF is_red(n1, q) /\ is_red(n1, s.p)
            THEN [turned.n EXCEPT ![s.t].link[dir2] = turned.top] ELSE n1
      dir == Dir(n2[q].key < key)
  IN  IF n2[q].key = key THEN n2
      ELSE InsertLoop([n |-> n2, t |-> IF s.g # NULL THEN s.g ELSE s.t, g |-> s.p,
                       p |-> q, q |-> n2[q].link[dir], dir |-> dir, last |-> s.dir],
                      key, value)

rbinsert(t, key, value) ==
  IF t.root = NULL
  THEN [node |-> key :> [Node(key, value) EXCEPT !.red = FALSE], root |-> key,
        size |-> t.size + 1]
  ELSE Rooted(InsertLoop([n |-> WithHead(t), t |-> head, g |-> NULL, p |-> NULL,
                          q |-> t.root, dir |-> 0, last |-> 0], key, value),
              t.size + 1)

-----------------------------------------------------------------------------
\* rberase pushes a red node down the way to the key, and on to a leaf.
ColourFlip(n, p, s, q) ==
  [n EXCEPT ![p].red = FALSE, ![s].red = TRUE, ![q].red = TRUE]

RotateSibling(n, g, p, s, q, last) ==
  LET dir2 == Dir(n[g].link[1] = p)
      turned == IF is_red(n, n[s].link[last]) THEN rbdouble(n, p, last)
                ELSE rbsingle(n, p, last)
      top == turned.top
  IN  [turned.n EXCEPT ![g].link[dir2] = top, ![q].red = TRUE, ![top].red = TRUE,
                       ![turned.n[top].link[0]].red = FALSE,
                       ![turned.n[top].link[1]].red = FALSE]

RECURSIVE EraseLoop(_, _)
EraseLoop(s, key) ==
  IF s.n[s.q].link[s.dir] = NULL THEN s
  ELSE LET n == s.n
           last == s.dir
           p == s.q
           q == n[p].link[last]
           dir == Dir(n[q].key < key)
           down == [s EXCEPT !.g = s.p, !.p = p, !.q = q, !.dir = dir,
                             !.f = IF n[q].key = key THEN q ELSE @]
           turned == rbsingle(n, q, dir)
           sib == n[p].link[1 - last]
       IN  EraseLoop(
             IF is_red(n, q) \/ is_red(n, n[q].link[dir]) THEN down
             ELSE IF is_red(n, n[q].link[1 - dir])
             THEN [down EXCEPT !.n = [turned.n EXCEPT ![p].link[last] = turned.top],
                               !.p = turned.top]
             ELSE IF sib = NULL THEN down
             ELSE IF ~is_red(n, n[sib].link[0]) /\ ~is_red(n, n[sib].link[1])
             THEN [down EXCEPT !.n = ColourFlip(n, p, sib, q)]
             ELSE [down EXCEPT !.n = RotateSibling(n, s.p, p, sib, q, last)], key)

\* Mutant: the key of the leaf is moved, not its value.
ReplaceKey(s) ==
  LET leaf == s.n[s.q]
      n == [s.n EXCEPT ![s.f].key = leaf.key,
                       ![s.p].link[Dir(s.n[s.p].link[1] = s.q)] =
                          leaf.link[Dir(leaf.link[0] = NULL)]]
  IN  [x \in DOMAIN n \ {s.q} |-> n[x]]
\* The found node takes the data of the leaf, which is taken out.
ReplaceFound(s) ==
  LET leaf == s.n[s.q]
      n == [s.n EXCEPT ![s.f].key = leaf.key, ![s.f].value = leaf.value,
                       ![s.p].link[Dir(s.n[s.p].link[1] = s.q)] =
                          leaf.link[Dir(leaf.link[0] = NULL)]]
  IN  [x \in DOMAIN n \ {s.q} |-> n[x]]

Settled(t) ==
  LET at(x) == IF x = NULL THEN NULL ELSE t.node[x].key
      of(k) == CHOOSE x \in DOMAIN t.node : t.node[x].key = k
  IN  [t EXCEPT !.root = at(t.root),
                !.node = [k \in {at(x) : x \in DOMAIN t.node} |->
                            [t.node[of(k)] EXCEPT
                               !.link = [dir \in 0..1 |-> at(@[dir])]]]]

\* found is what rberase returns.
rberase(t, key) ==
  IF t.root = NULL THEN [found |-> FALSE, t |-> t]
  ELSE LET s == EraseLoop([n |-> WithHead(t), g |-> NULL, p |-> NULL, q |-> head,
                           f |-> NULL, dir |-> 1], key)
       IN  IF s.f = NULL THEN [found |-> FALSE, t |-> Rooted(s.n, t.size)]
           ELSE [found |-> TRUE, t |-> Settled(Rooted(ReplaceFound(s), t.size - 1))]

-----------------------------------------------------------------------------
\* Traversal: it is the node, path the nodes above it on the way.
RECURSIVE SlideTo(_, _, _)
SlideTo(n, trav, dir) ==
  IF n[trav.it].link[dir] = NULL THEN trav
  ELSE SlideTo(n, [path |-> Append(trav.path, trav.it), it |-> n[trav.it].link[dir]], dir)

rbstart(t, dir) ==
  IF t.root = NULL THEN [path |-> <<>>, it |-> NULL]
  ELSE SlideTo(t.node, [path |-> <<>>, it |-> t.root], dir)

RECURSIVE ClimbFrom(_, _, _)
ClimbFrom(n, trav, dir) ==
  IF trav.path = <<>> THEN [trav EXCEPT !.it = NULL]
  ELSE LET up == Last(trav.path)
           there == [path |-> Front(trav.path), it |-> up]
       IN  IF trav.it = n[up].link[dir] THEN ClimbFrom(n, there, dir) ELSE there

rbmove(t, trav, dir) ==
  IF t.node[trav.it].link[dir] # NULL
  THEN SlideTo(t.node, [path |-> Append(trav.path, trav.it),
                        it |-> t.node[trav.it].link[dir]], 1 - dir)
  ELSE ClimbFrom(t.node, trav, dir)

RECURSIVE SeekFrom(_, _, _)
SeekFrom(n, trav, key) ==
  IF trav.it = NULL \/ n[trav.it].key = key THEN trav
  ELSE SeekFrom(n, [path |-> Append(trav.path, trav.it),
                    it |-> n[trav.it].link[Dir(n[trav.it].key < key)]], key)

rbseek(t, key) == SeekFrom(t.node, [path |-> <<>>, it |-> t.root], key)

RECURSIVE PairsFrom(_, _, _)
PairsFrom(t, trav, to) ==
  IF trav.it = NULL THEN <<>>
  ELSE <<[key |-> t.node[trav.it].key, value |-> t.node[trav.it].value]>>
         \o (IF trav.it = to THEN <<>> ELSE PairsFrom(t, rbmove(t, trav, 1), to))

-----------------------------------------------------------------------------
\* What the rest of the server uses.
mapforeach(t) == PairsFrom(t, rbstart(t, 0), NULL)

maplookup(t, key) ==
  LET it == rbseek(t, key).it IN IF it = NULL THEN NULL ELSE t.node[it].value

mapinsert(t, key, value) == rbinsert(rberase(t, key).t, key, value)
AllInserted(t, pairs) ==
  FoldLeft(LAMBDA u, pair : mapinsert(u, pair.key, pair.value), t, pairs)

mapfirst(t) == rbstart(t, 0).it
maplast(t) == rbstart(t, 1).it

\* map_dup and maprange insert, in order, into an empty map.
map_dup(t) ==
  FoldLeft(LAMBDA u, pair : rbinsert(u, pair.key, pair.value), rbnew, mapforeach(t))

maprange(t, from, to) ==
  FoldLeft(LAMBDA u, pair : rbinsert(u, pair.key, pair.value), rbnew,
           PairsFrom(t, rbseek(t, from), to))

\* The pairs before from, those of the new map, and those after to.
maprangeset(t, from, to, with) ==
  LET all == mapforeach(t)
      before == SelectSeq(all, LAMBDA pair : pair.key < from)
      after == IF rbmove(t, rbseek(t, to), 1).it = NULL THEN <<>>
               ELSE PairsFrom(t, rbmove(t, rbseek(t, to), 1), NULL)
      kept == FoldLeft(LAMBDA u, pair : rbinsert(u, pair.key, pair.value), rbnew, before)
  IN  AllInserted(AllInserted(kept, mapforeach(with)), after)

\* dbio_write_var and dbio_read_var of a map.
ReadMap(file) ==
  AllInserted(rbnew, SubSeq(file.pairs, 1, file.length))
WriteMap(t) == [length |-> t.size, pairs |-> mapforeach(t)]

\* rbdelete turns the left links away and frees the nodes along the right.
RECURSIVE rbdelete(_, _, _)
rbdelete(n, it, freed) ==
  IF it = NULL THEN freed
  ELSE LET left == n[it].link[0]
       IN  IF left = NULL THEN rbdelete(n, n[it].link[1], Append(freed, it))
           ELSE rbdelete([n EXCEPT ![it].link[0] = n[left].link[1], ![left].link[1] = it],
                         left, freed)

-----------------------------------------------------------------------------
\* No red node has a red child, and every way down meets as many black nodes.
RECURSIVE BlackHeight(_, _)
BlackHeight(n, x) ==
  IF x = NULL THEN 1
  ELSE LET left == BlackHeight(n, n[x].link[0])
           right == BlackHeight(n, n[x].link[1])
           clash == n[x].red /\ (is_red(n, n[x].link[0]) \/ is_red(n, n[x].link[1]))
       IN  IF left # right \/ left = 0 \/ clash THEN 0
           ELSE left + Dir(~n[x].red)

Balanced(t) == BlackHeight(t.node, t.root) # 0 /\ ~is_red(t.node, t.root)
=============================================================================
