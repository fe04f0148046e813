---------------------------- MODULE Properties ----------------------------
(***************************************************************************)
(* The objects in memory, their ancestors and the values of their          *)
(* properties (db_objects.cc, db_properties.cc), as operators on a         *)
(* database d.  An object's own properties are named in propdefs; propval  *)
(* holds a value for each of them, followed by those for the properties    *)
(* of its ancestors, in the order of db_ancestors().                       *)
(* There is one anonymous object, Anon.  Its nonce is compared only with   *)
(* those of its parents: d.newer holds the objects whose nonce is greater. *)
(* Left out: built-in properties other than the owner, and the permissions *)
(* r and w.  Of a value only whether it is clear is kept.                  *)
(***************************************************************************)
EXTENDS Integers, Sequences, FiniteSets

CONSTANT MaxObj  \* the numbers of permanent objects are below this bound

Anon == MaxObj
Permanent == 0..(MaxObj - 1)
Id == 0..MaxObj
NOTHING == -1

RangeOf(s) == {s[i] : i \in 1..Len(s)}
RemoveAt(s, i) == SubSeq(s, 1, i - 1) \o SubSeq(s, i + 1, Len(s))
InsertAt(s, i, e) == SubSeq(s, 1, i - 1) \o <<e>> \o SubSeq(s, i, Len(s))
Position(s, e) == CHOOSE i \in 1..Len(s) : s[i] = e
setadd(s, e) == IF e \in RangeOf(s) THEN s ELSE Append(s, e)
setremove(s, e) == IF e \in RangeOf(s) THEN RemoveAt(s, Position(s, e)) ELSE s

\* db_init_object
NoObject == [parents |-> <<>>, children |-> <<>>, owner |-> NOTHING,
             propdefs |-> <<>>, propval |-> <<>>, verbdefs |-> <<>>]

Pval(isclear, owner, chown) == [clear |-> isclear, owner |-> owner, chown |-> chown]

valid(d, o) == o \in d.live /\ o # Anon

\* All the parents are there.  In the place of parents_ok it is a mutant, which
\* does not look at their nonces.
parents_exist(d, o) == \A p \in RangeOf(d.obj[o].parents) : valid(d, p)

parents_ok(d, o) ==
  \A p \in RangeOf(d.obj[o].parents) : valid(d, p) /\ p \notin d.newer

\* A false answer of parents_ok sticks (FLAG_INVALID): d.invalid.
is_valid(d, o) ==
  o \in d.live /\ (o = Anon => ~d.invalid /\ parents_ok(d, o))

dbpriv_assign_nonce(d, o) ==
  [d EXCEPT !.newer = IF o = Anon THEN {} ELSE d.newer \cup {o}]

\* db2_add_ancestors and db2_add_descendants: depth first, without repetition.
RECURSIVE add_members(_, _, _, _)
add_members(d, field, todo, list) ==
  IF todo = <<>> THEN list
  ELSE LET o == Head(todo)
           more == IF valid(d, o) /\ o \notin RangeOf(list)
                   THEN add_members(d, field, d.obj[o][field], Append(list, o))
                   ELSE list
       IN  add_members(d, field, Tail(todo), more)

db_ancestors(d, o) == add_members(d, "parents", d.obj[o].parents, <<o>>)
db_descendants(d, o) == add_members(d, "children", d.obj[o].children, <<o>>)

\* The properties that the objects of a list define, in its order.
RECURSIVE PropsOf(_, _)
PropsOf(d, list) ==
  IF list = <<>> THEN <<>> ELSE d.obj[Head(list)].propdefs \o PropsOf(d, Tail(list))

OffsetIn(d, list, target) ==
  Len(PropsOf(d, SubSeq(list, 1, Position(list, target) - 1)))

\* Where the properties of target begin in the values of this; -1 if nowhere.
properties_offset(d, target, this) ==
  LET ancestors == db_ancestors(d, this)
  IN  IF target \in RangeOf(ancestors) THEN OffsetIn(d, ancestors, target) ELSE -1

property_defined_at(d, name, o) == name \in RangeOf(d.obj[o].propdefs)

property_defined_at_or_below(d, name, o) ==
  \E x \in RangeOf(db_descendants(d, o)) : property_defined_at(d, name, x)

-----------------------------------------------------------------------------
(* Looking a property up.                                                  *)

NoHandle == [definer |-> NOTHING, i |-> 0, n |-> 0]

\* db_find_property without a value: its definer, its place among the
\* properties of the definer, and its place among the values of o.
db_find_property(d, o, name) ==
  LET defined == {a \in RangeOf(db_ancestors(d, o)) : property_defined_at(d, name, a)}
      n == Position(PropsOf(d, db_ancestors(d, o)), name)
      first == CHOOSE a \in defined : \A b \in defined :
                 properties_offset(d, a, o) <= properties_offset(d, b, o)
  IN  IF defined = {} THEN NoHandle
      ELSE [definer |-> first, i |-> n - properties_offset(d, first, o), n |-> n]

\* The parent whose value a clear one stands for.
NextUp(d, o, definer) ==
  LET up == d.obj[o].parents
      has == {k \in 1..Len(up) : properties_offset(d, definer, up[k]) > -1}
  IN  IF has = {} THEN NOTHING ELSE up[CHOOSE k \in has : \A j \in has : k <= j]

\* db_find_property with a value: the object that holds it; NOTHING if the
\* loop finds no parent to go on with.
RECURSIVE HolderOf(_, _, _, _)
HolderOf(d, o, definer, i) ==
  LET n == properties_offset(d, definer, o) + i
  IN  IF ~d.obj[o].propval[n].clear THEN o
      ELSE IF NextUp(d, o, definer) = NOTHING THEN NOTHING
      ELSE HolderOf(d, NextUp(d, o, definer), definer, i)

-----------------------------------------------------------------------------
(* Adding, removing and renaming a property.                               *)

insert_prop(d, o, pos, pv) ==
  LET owned == IF pv.chown THEN [pv EXCEPT !.owner = d.obj[o].owner] ELSE pv
  IN  dbpriv_assign_nonce(
        [d EXCEPT !.obj[o].propval = InsertAt(@, pos, owned)], o)

remove_prop(d, o, pos) ==
  dbpriv_assign_nonce([d EXCEPT !.obj[o].propval = RemoveAt(@, pos)], o)

RECURSIVE InsertBelow(_, _, _, _, _)
InsertBelow(d, root, pos, pv, below) ==
  IF below = <<>> THEN d
  ELSE LET o == Head(below)
       IN  InsertBelow(insert_prop(d, o, properties_offset(d, root, o) + pos, pv),
                       root, pos, pv, Tail(below))

insert_prop_recursively(d, root, pos, pv) ==
  InsertBelow(insert_prop(d, root, pos, pv), root, pos,
              [pv EXCEPT !.clear = TRUE], Tail(db_descendants(d, root)))

RECURSIVE RemoveBelow(_, _, _, _)
RemoveBelow(d, root, pos, below) ==
  IF below = <<>> THEN d
  ELSE LET o == Head(below)
       IN  RemoveBelow(remove_prop(d, o, properties_offset(d, root, o) + pos),
                       root, pos, Tail(below))

remove_prop_recursively(d, root, pos) ==
  RemoveBelow(remove_prop(d, root, pos), root, pos, Tail(db_descendants(d, root)))

\* What keeps db_add_propdef and db_rename_propdef from using a name.
NameTaken(d, o, name) ==
  \/ db_find_property(d, o, name) # NoHandle
  \/ property_defined_at_or_below(d, name, o)

db_add_propdef(d, o, name, pv) ==
  LET named == [d EXCEPT !.obj[o].propdefs = Append(@, name)]
  IN  insert_prop_recursively(named, o, Len(named.obj[o].propdefs), pv)

db_delete_propdef(d, o, name) ==
  LET i == Position(d.obj[o].propdefs, name)
  IN  remove_prop_recursively([d EXCEPT !.obj[o].propdefs = RemoveAt(@, i)], o, i)

db_rename_propdef(d, o, old, new) ==
  [d EXCEPT !.obj[o].propdefs[Position(d.obj[o].propdefs, old)] = new]

-----------------------------------------------------------------------------
(* A change of parents.                                                    *)

\* No property of the new ancestors is defined by o, below it or by its
\* anonymous children, and no two of them define the same.
dbpriv_check_properties_for_chparent(d, o, parents, anon_kids) ==
  LET ancestors == RangeOf(add_members(d, "parents", parents, <<>>))
  IN  \A a \in ancestors : \A name \in RangeOf(d.obj[a].propdefs) :
        /\ ~property_defined_at_or_below(d, name, o)
        /\ \A kid \in anon_kids : ~property_defined_at(d, name, kid)
        /\ \A b \in ancestors \ {a} : ~property_defined_at(d, name, b)

\* Mutant: the values are taken from where they will be.
ValuesAt(d, me, a, old_ancestors) ==
  LET from == properties_offset(d, a, me)
      len == Len(d.obj[a].propdefs)
  IN  IF a \in RangeOf(old_ancestors) /\ from + len <= Len(d.obj[me].propval)
      THEN SubSeq(d.obj[me].propval, from + 1, from + len)
      ELSE [x \in 1..len |-> Pval(TRUE, d.obj[me].owner, FALSE)]

\* The values of me for the properties of ancestor a: those it had, or clear
\* ones with the permissions that a parent has.
ValuesFor(d, me, a, old_ancestors) ==
  LET len == Len(d.obj[a].propdefs)
      from == OffsetIn(d, old_ancestors, a)
      parent == NextUp(d, me, a)
      theirs(x) == d.obj[parent].propval[properties_offset(d, a, parent) + x]
  IN  IF a \in RangeOf(old_ancestors)
      THEN SubSeq(d.obj[me].propval, from + 1, from + len)
      ELSE [x \in 1..len |->
              Pval(TRUE, IF theirs(x).chown THEN d.obj[me].owner ELSE theirs(x).owner,
                   theirs(x).chown)]

RECURSIVE NewValues(_, _, _, _)
NewValues(d, me, todo, old_ancestors) ==
  IF todo = <<>> THEN <<>>
  ELSE ValuesFor(d, me, Head(todo), old_ancestors)
         \o NewValues(d, me, Tail(todo), old_ancestors)

RECURSIVE setadd_all(_, _)
setadd_all(s, more) == IF more = <<>> THEN s ELSE setadd_all(setadd(s, Head(more)), Tail(more))

\* The ancestors of a child, put together from those of its parents; those of
\* the parent o are given.
RECURSIVE AncestorsBy(_, _, _, _, _)
AncestorsBy(d, list, parents, o, ancestors) ==
  IF parents = <<>> THEN list
  ELSE LET p == Head(parents)
       IN  AncestorsBy(d, setadd_all(list, IF p = o THEN ancestors ELSE db_ancestors(d, p)),
                       Tail(parents), o, ancestors)

\* dbpriv_fix_properties_after_chparent of o, and after it of its children.
\* assert(old_count == me->nval) ends the server; so does a child with a parent
\* that is gone, which only an anonymous one can have: it is a null pointer.
RECURSIVE fix_properties(_, _, _, _, _)
RECURSIVE fix_children(_, _, _, _, _)
fix_properties(d, o, old, new, anon_kids) ==
  IF d.aborted \/ Len(PropsOf(d, old)) # Len(d.obj[o].propval)
  THEN [d EXCEPT !.aborted = TRUE]
  ELSE LET fixed == dbpriv_assign_nonce(
                      [d EXCEPT !.obj[o].propval = NewValues(d, o, new, old)], o)
       IN  fix_children(fixed, o, old, new, d.obj[o].children \o anon_kids)

fix_children(d, o, old, new, children) ==
  IF children = <<>> THEN d
  ELSE LET child == Head(children)
           parents == d.obj[child].parents
           was == AncestorsBy(d, <<child>>, parents, o, old)
           is == AncestorsBy(d, <<child>>, parents, o, new)
       IN  IF ~parents_exist(d, child) THEN [d EXCEPT !.aborted = TRUE]
           ELSE fix_children(fix_properties(d, child, was, is, <<>>), o, old, new, Tail(children))
=============================================================================
