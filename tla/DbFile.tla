------------------------------- MODULE DbFile -------------------------------
(* db_file.cc, db_io.cc and the anonymous objects of db_objects.cc: what a   *)
(* dump writes of the heap and how a load builds it again; and how a load    *)
(* validates the two hierarchies of permanent objects, in a file of version  *)
(* 4 (chains of numbers) or a later one (lists).                             *)
(* A value in the file is [is, n, els]: "none"; "anon" with the number that  *)
(* db_write_anonymous gave it, NOTHING if it was not valid; or "list".       *)
EXTENDS Garbage

NOTHING == -1
None == [is |-> "none", n |-> 0, els |-> <<>>]

-----------------------------------------------------------------------------
(* Writing.  w.order holds the anonymous objects that have a number, in the  *)
(* order of their numbers; w.out what has been written.                      *)

RECURSIVE Position(_, _, _)
Position(order, v, i) ==
  IF i > Len(order) THEN 0 ELSE IF order[i] = v THEN i ELSE Position(order, v, i + 1)

\* Mutant: objects that are not valid are written too.
write_any_anonymous(h, w, v) ==
  LET known == Position(w.order, v, 1)
      order == IF known # 0 THEN w.order ELSE Append(w.order, v)
  IN  [order |-> order,
       out |-> Append(w.out, [is |-> "anon", n |-> Position(order, v, 1), els |-> <<>>])]
db_write_anonymous(h, w, v) ==
  LET known == Position(w.order, v, 1)
      put(order, n) == [order |-> order,
                        out |-> Append(w.out, [is |-> "anon", n |-> n, els |-> <<>>])]
  IN  IF ~is_valid(h, v) THEN put(w.order, NOTHING)
      ELSE IF known # 0 THEN put(w.order, known)
      ELSE put(Append(w.order, v), Len(w.order) + 1)

RECURSIVE dbio_write_var(_, _, _)
dbio_write_var(h, w, v) ==
  IF v = 0 THEN [w EXCEPT !.out = Append(@, None)]
  ELSE IF h.node[v].type = "anon" THEN db_write_anonymous(h, w, v)
  ELSE LET els == FoldLeft(LAMBDA u, k : dbio_write_var(h, u, k),
                           [w EXCEPT !.out = <<>>], h.node[v].kids)
       IN  [els EXCEPT !.out = Append(w.out, [is |-> "list", n |-> 0, els |-> els.out])]

AllWritten(h, order, values) ==
  FoldLeft(LAMBDA u, v : dbio_write_var(h, u, v), [order |-> order, out |-> <<>>], values)

\* ng_write_object for the numbers after max, as long as there are new ones.
RECURSIVE WriteObjects(_, _, _)
WriteObjects(h, order, objects) ==
  LET max == Len(objects)
      round == FoldLeft(LAMBDA u, v :
                          LET kids == AllWritten(h, u.order, h.node[v].kids)
                          IN  [order |-> kids.order,
                               objects |-> Append(u.objects,
                                             [flags |-> h.node[v].flags, kids |-> kids.out])],
                        [order |-> order, objects |-> objects],
                        SubSeq(order, max + 1, Len(order)))
  IN  IF max = Len(order) THEN objects
      ELSE WriteObjects(h, round.order, round.objects)

\* write_db_file: the values pending finalization, those of the tasks and of
\* the permanent objects, and the anonymous objects in rounds.
write_db_file(h, values) ==
  LET pending == AllWritten(h, <<>>, h.pending)
      others == AllWritten(h, pending.order, values)
  IN  [pending |-> pending.out, values |-> others.out,
       objects |-> WriteObjects(h, others.order, <<>>)]

-----------------------------------------------------------------------------
(* Reading.  The object with number n is put at address n, when it is first  *)
(* met; lists go to the addresses after those of the objects.                *)

db_read_anonymous(r, n) ==
  IF n = NOTHING THEN [r EXCEPT !.out = Append(@, 0)]
  ELSE [r EXCEPT !.out = Append(@, n),
                 !.h = IF @.node[n].type = "free" THEN mymalloc(@, n, "anon", <<>>)
                       ELSE addref(@, n)]

RECURSIVE dbio_read_var(_, _)
dbio_read_var(r, val) ==
  CASE val.is = "none" -> [r EXCEPT !.out = Append(@, 0)]
    [] val.is = "anon" -> db_read_anonymous(r, val.n)
    [] val.is = "list" ->
         LET els == FoldLeft(dbio_read_var, [r EXCEPT !.out = <<>>], val.els)
         IN  [h |-> mymalloc(els.h, els.next, "list", els.out), next |-> els.next + 1,
              out |-> Append(r.out, els.next)]

AllRead(r, values) == FoldLeft(dbio_read_var, [r EXCEPT !.out = <<>>], values)

\* ng_read_object(1): the object is there already.
ReadObject(r, n, object) ==
  LET kids == AllRead(r, object.kids)
  IN  [kids EXCEPT !.h = [@ EXCEPT !.node[n].kids = kids.out,
                                   !.node[n].flags = object.flags]]

\* main_loop queues the values pending finalization, with a var_ref of its own,
\* and frees the list they were read into.
QueuePending(h, pending) ==
  LET objects == SelectSeq(pending, LAMBDA v : v # 0)
      queued == FoldLeft(LAMBDA g, v : IF g.aborted THEN g
                                       ELSE queue_anonymous_object(var_ref(g, v), v),
                         h, objects)
  IN  IF queued.aborted THEN queued ELSE FoldLeft(free_var, queued, objects)

read_db_file(file) ==
  LET pending == AllRead([h |-> NoHeap, next |-> Len(file.objects) + 1, out |-> <<>>],
                         file.pending)
      values == AllRead(pending, file.values)
      objects == FoldLeft(LAMBDA r, n : ReadObject(r, n, file.objects[n]), values,
                          [n \in 1..Len(file.objects) |-> n])
  IN  [h |-> QueuePending(objects.h, pending.out), values |-> values.out]

\* Bound: the addresses that a load needs.
RECURSIVE ListsIn(_)
ListsIn(values) ==
  FoldLeft(LAMBDA c, val : IF val.is = "list" THEN c + 1 + ListsIn(val.els) ELSE c,
           0, values)
Needs(file) ==
  Len(file.objects) + ListsIn(file.values) + ListsIn(file.pending)
    + FoldLeft(LAMBDA c, o : c + ListsIn(o.kids), 0, file.objects)

-----------------------------------------------------------------------------
(* ng_validate_hierarchies.  db[o] is a permanent object: parents is one     *)
(* number or a list, children and contents are lists, location is a number;  *)
(* typed says that they are that.  Everything is kept as a list of numbers.  *)

Exists(db, o) == o \in DOMAIN db
IsInvalid(db, o) == o # NOTHING /\ ~Exists(db, o)

\* setremove while FOR_EACH goes on with the old length: the number after a
\* removed one is skipped, and the last index is read past the end.
RECURSIVE Sift(_, _, _, _)
Sift(db, list, i, count) ==
  IF i > count \/ i > Len(list) THEN list
  ELSE IF IsInvalid(db, list[i])
       THEN Sift(db, Remove(list, list[i]), i + 1, count)
       ELSE Sift(db, list, i + 1, count)

Checked(db, list, one) ==
  IF one THEN [i \in 1..1 |-> IF IsInvalid(db, list[1]) THEN NOTHING ELSE list[1]]
  ELSE Sift(db, list, 1, Len(list))

Fixed(db) ==
  [o \in DOMAIN db |->
     [db[o] EXCEPT !.parents = Checked(db, @, db[o].single),
                   !.children = Checked(db, @, FALSE),
                   !.location = Checked(db, @, TRUE),
                   !.contents = Checked(db, @, FALSE)]]

\* db_ancestors and db_all_locations.
RECURSIVE Above(_, _, _, _)
Above(db, field, from, seen) ==
  LET next == {x \in UNION {ToSet(db[o][field]) : o \in from} : Exists(db, x)} \ seen
  IN  IF next = {} THEN seen ELSE Above(db, field, next, seen \cup next)

Cyclic(db, field) == \E o \in DOMAIN db : o \in Above(db, field, {o}, {})

\* The first number of a list that is not matched ends the check of the list;
\* one that does not exist is dereferenced.
FirstBad(db, o, up, down) ==
  LET bad == {i \in DOMAIN db[o][up] :
                LET x == db[o][up][i]
                IN  x # NOTHING /\ (Exists(db, x) => o \notin ToSet(db[x][down]))}
  IN  IF bad = {} THEN NOTHING
      ELSE db[o][up][CHOOSE i \in bad : \A j \in bad : i <= j]
Bad(db) ==
  {FirstBad(db, o, c[1], c[2]) : o \in DOMAIN db,
     c \in {<<"location", "contents">>, <<"contents", "location">>,
            <<"parents", "children">>, <<"children", "parents">>}} \ {NOTHING}

ng_validate_hierarchies(db) ==
  LET fixed == Fixed(db)
      result(how) == [how |-> how, db |-> fixed]
  IN  IF \E o \in DOMAIN db : ~db[o].typed THEN result("refused")
      ELSE IF Cyclic(fixed, "parents") \/ Cyclic(fixed, "location") THEN result("refused")
      ELSE IF \E x \in Bad(fixed) : ~Exists(fixed, x) THEN result("undefined")
      ELSE IF Bad(fixed) # {} THEN result("refused")
      ELSE result("loaded")

-----------------------------------------------------------------------------
(* v4_validate_hierarchies and v4_upgrade_objects.  Each object has the six  *)
(* numbers of Object4.                                                       *)

V4Fixed(db) ==
  [o \in DOMAIN db |->
     LET nexts == IF db[o].location = NOTHING THEN [db[o] EXCEPT !.next = NOTHING] ELSE db[o]
     IN  [f \in DOMAIN nexts |-> IF IsInvalid(db, nexts[f]) THEN NOTHING ELSE nexts[f]]]

\* The chain from start along field, at most size + 1 long.
RECURSIVE Chain(_, _, _, _)
Chain(db, start, field, size) ==
  IF start = NOTHING \/ size < 0 THEN <<>>
  ELSE <<start>> \o Chain(db, db[start][field], field, size - 1)

V4Cyclic(db, size) ==
  \E o \in DOMAIN db : \E c \in {<<"parent", "parent">>, <<"child", "sibling">>,
                                 <<"location", "location">>, <<"contents", "next">>} :
    Len(Chain(db, db[o][c[1]], c[2], size)) > size

\* Mutant: only the way up is followed.
BrokenUp(db, size, up, down, across) ==
  \E o \in DOMAIN db :
    db[o][up] # NOTHING /\ o \notin ToSet(Chain(db, db[db[o][up]][down], across, size))
V4Broken(db, size, up, down, across) ==
  \E o \in DOMAIN db :
    LET below(x) == Chain(db, db[x][down], across, size)
    IN  \/ db[o][up] # NOTHING /\ o \notin ToSet(below(db[o][up]))
        \/ \E x \in ToSet(below(o)) : db[x][up] # o

v4_upgrade_objects(db, size) ==
  [o \in DOMAIN db |->
     [single |-> TRUE, typed |-> TRUE, parents |-> <<db[o].parent>>,
      children |-> Chain(db, db[o].child, "sibling", size),
      location |-> <<db[o].location>>,
      contents |-> Chain(db, db[o].contents, "next", size)]]

\* size counts the recycled objects too.
v4_validate_hierarchies(db, size) ==
  LET fixed == V4Fixed(db)
  IN  IF \/ V4Cyclic(fixed, size)
         \/ V4Broken(fixed, size, "parent", "child", "sibling")
         \/ V4Broken(fixed, size, "location", "contents", "next")
      THEN [how |-> "refused", db |-> <<>>]
      ELSE [how |-> "loaded", db |-> v4_upgrade_objects(fixed, size)]
=============================================================================
