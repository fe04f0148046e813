------------------------------ MODULE Database ------------------------------
(***************************************************************************)
(* The built-in functions that change the properties and verbs of objects, *)
(* and the inheritance that decides what an object gets of those of others *)
(* (objects.cc, property.cc, verbs.cc).  A call that fails changes         *)
(* nothing and is no step.  The verbs that create() and recycle() call are *)
(* steps of their own.  A wizard calls: whoever else may call can do no    *)
(* more.  Numbers are taken as they come (Objects has their rules).        *)
(***************************************************************************)
EXTENDS Verbs

CONSTANTS
  Owner,      \* who owns objects and properties
  PropName, VerbName,
  MaxParents, \* bound on the length of a list of parents
  MaxProps,   \* bound on the properties that are defined
  MaxVerbs,   \* bound on the verbs
  MaxCalls,   \* bound on the calls of a behaviour
  Workloads,  \* sets of calls; a behaviour makes the calls of one of them
  Shapes      \* the parents of the objects in the databases that are loaded

ASSUME DatabaseAssumption ==
  /\ MaxObj \in Nat \ {0} /\ MaxParents \in Nat /\ MaxProps \in Nat /\ MaxVerbs \in Nat
  /\ MaxCalls \in Nat
  /\ Owner \subseteq Permanent /\ 0 \in Owner

VARIABLES
  d,     \* the database
  calls, \* the workload
  left   \* how many calls are to come

vars == <<d, calls, left>>

Total(field) == Cardinality(UNION {{o} \X (1..Len(d.obj[o][field])) : o \in d.live})

-----------------------------------------------------------------------------
(* db_change_parents                                                       *)

CanChangeParents(db, o, parents, anon_kids) ==
  dbpriv_check_properties_for_chparent(db, o, parents, RangeOf(anon_kids))

db_change_parents(db, o, parents, anon_kids) ==
  LET clean == IF NotSearched(db, o, anon_kids) THEN db ELSE ClearCache(db)
      old == RangeOf(db.obj[o].parents)
      kids(p) == LET rest == IF p \in old THEN setremove(db.obj[p].children, o)
                             ELSE db.obj[p].children
                 IN  IF p \in RangeOf(parents) THEN setadd(rest, o) ELSE rest
      linked == [clean EXCEPT !.obj =
                   [x \in Id |-> IF x = o THEN [db.obj[x] EXCEPT !.parents = parents]
                                 ELSE IF o = Anon THEN db.obj[x]
                                 ELSE [db.obj[x] EXCEPT !.children = kids(x)]]]
  IN  fix_properties(linked, o, db_ancestors(db, o), db_ancestors(linked, o), anon_kids)

-----------------------------------------------------------------------------
(* objects.cc                                                              *)

Fresh(owner) == [NoObject EXCEPT !.owner = owner]

\* bf_create of a permanent object.
bf_create(owner, parents) ==
  /\ "create" \in calls
  /\ \E o \in Permanent \ d.live :
       /\ \A n \in Permanent : n < o => n \in d.live
       /\ \A p \in RangeOf(parents) : valid(d, p)
       /\ LET made == [d EXCEPT !.live = @ \cup {o}, !.obj[o] = Fresh(owner)]
          IN  d' = IF CanChangeParents(made, o, parents, <<>>)
                   THEN db_change_parents(made, o, parents, <<>>)
                   ELSE ClearCache(d)

\* bf_create of an anonymous one: db_make_anonymous takes it out of the
\* children of its parents, and keeps its values and its nonce.
bf_create_anonymous(owner, parents) ==
  /\ "anonymous" \in calls /\ Anon \notin d.live
  /\ \A p \in RangeOf(parents) : valid(d, p)
  /\ LET made == [d EXCEPT !.live = @ \cup {Anon}, !.obj[Anon] = Fresh(owner),
                           !.invalid = FALSE]
     IN  d' = IF CanChangeParents(made, Anon, parents, <<>>)
              THEN db_change_parents(made, Anon, parents, <<>>)
              ELSE ClearCache(d)

\* bf_chparent_chparents.  A wizard may name anonymous children of o, which
\* are then changed too; nothing asks whether they are valid.
bf_chparents(o, parents, anon_kids) ==
  /\ "chparents" \in calls
  /\ is_valid(d, o)
  /\ \A p \in RangeOf(parents) : valid(d, p)
  /\ RangeOf(parents) \cap RangeOf(db_descendants(d, o)) = {}
  /\ \A k \in RangeOf(anon_kids) : k \in d.live /\ o \in RangeOf(d.obj[k].parents)
  /\ CanChangeParents(d, o, parents, anon_kids)
  /\ d' = db_change_parents(d, o, parents, anon_kids)

\* The parents a child gets in the place of o.
inherited_parents(db, o, c) ==
  LET cp == db.obj[c].parents
      i == Position(cp, o)
  IN  setadd_all(<<>>, SubSeq(cp, 1, i - 1) \o db.obj[o].parents \o SubSeq(cp, i + 1, Len(cp)))

\* The loop over the children: it does not end if a change is refused.
RECURSIVE reparent_children(_, _)
reparent_children(db, o) ==
  IF db.obj[o].children = <<>> \/ db.aborted THEN db
  ELSE LET c == Head(db.obj[o].children)
           new == inherited_parents(db, o, c)
       IN  IF CanChangeParents(db, c, new, <<>>)
           THEN reparent_children(db_change_parents(db, c, new, <<>>), o)
           ELSE [db EXCEPT !.aborted = TRUE]

\* bf_recycle, of a permanent object that nothing is in and that is nowhere.
bf_recycle(o) ==
  /\ "recycle" \in calls /\ valid(d, o)
  /\ LET orphaned == reparent_children(d, o)
         barren == db_change_parents(orphaned, o, <<>>, <<>>)
     IN  d' = IF orphaned.aborted THEN orphaned
              ELSE IF barren.aborted THEN barren
              ELSE ClearCache([barren EXCEPT !.live = @ \ {o}, !.obj[o] = NoObject,
                                             !.newer = @ \ {o}])

\* bf_recycle of the anonymous object, or its last reference goes: its memory
\* is used again.  The cache is not cleared.
DestroyAnonymous ==
  /\ "anonymous" \in calls /\ Anon \in d.live
  /\ d' = [d EXCEPT !.live = @ \ {Anon}, !.obj[Anon] = NoObject, !.newer = {}]

\* Something asks whether the anonymous object is valid, and it is not.
TestAnonymous ==
  /\ Anon \in d.live /\ ~is_valid(d, Anon) /\ ~d.invalid
  /\ d' = [d EXCEPT !.invalid = TRUE]

-----------------------------------------------------------------------------
(* property.cc, and the assignment to a property.                          *)

bf_add_prop(o, name, chown) ==
  /\ "properties" \in calls /\ Total("propdefs") < MaxProps
  /\ is_valid(d, o) /\ ~NameTaken(d, o, name)
  /\ d' = db_add_propdef(d, o, name, Pval(FALSE, 0, chown))

bf_delete_prop(o, name) ==
  /\ "properties" \in calls
  /\ is_valid(d, o) /\ property_defined_at(d, name, o)
  /\ d' = db_delete_propdef(d, o, name)

\* The property o.name, and where its value is.
Prop(o, name) == db_find_property(d, o, name)
HasProp(o, name) == is_valid(d, o) /\ Prop(o, name) # NoHandle

\* set_prop_info, which gives it a name, an owner and permissions.
bf_set_prop_info(o, name, new_name, owner, chown) ==
  /\ "properties" \in calls
  /\ HasProp(o, name) /\ valid(d, owner)
  /\ new_name # name => property_defined_at(d, name, o) /\ ~NameTaken(d, o, new_name)
  /\ LET renamed == IF new_name = name THEN d ELSE db_rename_propdef(d, o, name, new_name)
         n == db_find_property(renamed, o, new_name).n
     IN  d' = [renamed EXCEPT !.obj[o].propval[n] = Pval(@.clear, owner, chown)]

bf_clear_prop(o, name) ==
  /\ "properties" \in calls
  /\ HasProp(o, name) /\ Prop(o, name).definer # o
  /\ d' = [d EXCEPT !.obj[o].propval[Prop(o, name).n].clear = TRUE]

\* o.name = value: OP_PUT_PROP
put_prop(o, name) ==
  /\ "properties" \in calls
  /\ HasProp(o, name)
  /\ d' = [d EXCEPT !.obj[o].propval[Prop(o, name).n].clear = FALSE]

-----------------------------------------------------------------------------
(* verbs.cc                                                                *)

Verb(names, exec, owner) == [names |-> names, exec |-> exec, owner |-> owner]

bf_add_verb(o, names, exec) ==
  /\ "verbs" \in calls /\ Total("verbdefs") < MaxVerbs
  /\ is_valid(d, o)
  /\ d' = db_add_verb(d, o, Verb(names, exec, 0))

bf_delete_verb(o, i) ==
  /\ "verbs" \in calls /\ is_valid(d, o)
  /\ d' = db_delete_verb(d, o, i)

bf_set_verb_info(o, i, names, exec) ==
  /\ "verbs" \in calls /\ is_valid(d, o)
  /\ d' = db_set_verb(d, o, i, Verb(names, exec, d.obj[o].verbdefs[i].owner))

\* bf_set_verb_args
bf_set_verb_args(o, i) ==
  /\ "verbs" \in calls /\ is_valid(d, o)
  /\ d' = ClearCache(d)

\* bf_respond_to, or any call of the verb.
Lookup(o, verb) ==
  /\ "verbs" \in calls /\ is_valid(d, o)
  /\ d' = [d EXCEPT !.cache = db_find_callable_verb(d, <<o>>, verb).cache]

-----------------------------------------------------------------------------
Lists == {s \in UNION {[1..n -> Permanent] : n \in 0..MaxParents} :
            Cardinality(RangeOf(s)) = Len(s)}

ChildrenIn(shape, o) ==
  SelectSeq([n \in 1..Cardinality(DOMAIN shape) |-> n - 1], LAMBDA c : o \in RangeOf(shape[c]))

Bare(shape) ==
  [live |-> DOMAIN shape, newer |-> {}, invalid |-> FALSE, aborted |-> FALSE, cache |-> {},
   obj |-> [o \in Id |->
              IF o \notin DOMAIN shape THEN NoObject
              ELSE [NoObject EXCEPT !.owner = 0, !.parents = shape[o],
                                    !.children = ChildrenIn(shape, o)]]]

\* A database in which #0 has a property and a verb.
Loaded(shape) ==
  LET name == CHOOSE p \in PropName : TRUE
      with == db_add_propdef(Bare(shape), 0, name, Pval(FALSE, 0, FALSE))
  IN  [db_add_verb(with, 0, Verb(VerbName, TRUE, 0)) EXCEPT !.newer = {}]

Init ==
  /\ calls \in Workloads /\ left = MaxCalls
  /\ \E shape \in Shapes : d = Loaded(shape)

Next ==
  /\ ~d.aborted /\ left > 0 /\ left' = left - 1 /\ UNCHANGED calls
  /\ \/ \E owner \in Owner, list \in Lists :
          bf_create(owner, list) \/ bf_create_anonymous(owner, list)
     \/ \E o \in Permanent : bf_recycle(o)
     \/ \E o \in Id, list \in Lists, kids \in {<<>>, <<Anon>>} : bf_chparents(o, list, kids)
     \/ \E o \in Id, name \in PropName :
          \/ \E chown \in BOOLEAN : bf_add_prop(o, name, chown)
          \/ bf_delete_prop(o, name) \/ bf_clear_prop(o, name) \/ put_prop(o, name)
          \/ \E new \in PropName \ {name} : bf_set_prop_info(o, name, new, 0, FALSE)
          \/ \E owner \in Owner, chown \in BOOLEAN :
               bf_set_prop_info(o, name, name, owner, chown)
     \/ \E o \in Id, names \in SUBSET VerbName \ {{}}, exec \in BOOLEAN :
          \/ bf_add_verb(o, names, exec)
          \/ \E i \in 1..Len(d.obj[o].verbdefs) : bf_set_verb_info(o, i, names, exec)
     \/ \E o \in Id : \E i \in 1..Len(d.obj[o].verbdefs) :
          bf_delete_verb(o, i) \/ bf_set_verb_args(o, i)
     \/ DestroyAnonymous \/ TestAnonymous
     \/ \E o \in Id, verb \in VerbName : Lookup(o, verb)

Spec == Init /\ [][Next]_vars

-----------------------------------------------------------------------------
(* Properties.                                                             *)

Usable == {o \in d.live : is_valid(d, o)}

\* "Property values are laid corresponding to the order of ancestors": every
\* object that can be used, the anonymous one too, has one value for each
\* property of its ancestors (all access by offset relies on it); and looking up
\* the value of a property ends at an object that has one: no clear value is
\* without a parent to take it from, and none is at its definer.
ValuesSound ==
  \A o \in Usable :
    /\ Len(d.obj[o].propval) = Len(PropsOf(d, db_ancestors(d, o)))
    /\ \A name \in PropName :
         LET h == db_find_property(d, o, name)
         IN  h # NoHandle => HolderOf(d, o, h.definer, h.i) # NOTHING

\* With or without what the cache holds, a call finds the first executable
\* verb of that name in the order of the ancestors.
VerbFound ==
  \A o \in Usable, verb \in VerbName :
    LET ancestors == db_ancestors(d, o)
        with == {k \in 1..Len(ancestors) : find_verbdef_by_name(d, ancestors[k], verb) # 0}
        k == CHOOSE j \in with : \A l \in with : j <= l
    IN  db_find_callable_verb(d, <<o>>, verb).h =
          IF with = {} THEN NoVerb
          ELSE Handle(ancestors[k], find_verbdef_by_name(d, ancestors[k], verb))

\* The value that o has for each property of an ancestor.
ValuesOf(db, o) ==
  LET ancestors == db_ancestors(db, o)
  IN  [a \in RangeOf(ancestors) |->
         SubSeq(db.obj[o].propval, OffsetIn(db, ancestors, a) + 1,
                OffsetIn(db, ancestors, a) + Len(db.obj[a].propdefs))]

\* A change of parents, of o or of anything above it, preserves "properties
\* whose definition is present in both" old and new ancestors, and what it adds
\* is clear.
ValuesKept ==
  [][(d.obj # d'.obj /\ ~d'.aborted /\ \E x \in Id : d.obj[x].parents # d'.obj[x].parents)
     => \A o \in d.live \cap d'.live :
          (is_valid(d, o) /\ is_valid(d', o)) =>
            \A a \in DOMAIN ValuesOf(d', o) :
              IF a \in DOMAIN ValuesOf(d, o) THEN ValuesOf(d', o)[a] = ValuesOf(d, o)[a]
              ELSE \A pv \in RangeOf(ValuesOf(d', o)[a]) : pv.clear]_vars

\* assert(old_count == me->nval).  It does not hold: see "Disagreements" in the
\* README.
ServerStays == ~d.aborted
=============================================================================
