------------------------------ MODULE Objects ------------------------------
(***************************************************************************)
(* The permanent objects of the database and their two hierarchies         *)
(* (db_objects.cc), and the built-in functions that change them            *)
(* (objects.cc, server.cc).  recycle() and move() call verbs, so that      *)
(* other tasks change the database before they go on: such a call is kept  *)
(* in pend.  The verb may or may not exist; its task may be killed.        *)
(* Left out: owners, names, flags other than FLAG_RECYCLED, properties and *)
(* verbs, permissions (a wizard calls), and the order of parents.          *)
(***************************************************************************)
EXTENDS Integers, Sequences, FiniteSets, FiniteSetsExt

CONSTANTS
  MaxObj,     \* bound on object numbers
  MaxParents, \* bound on the length of a list of parents
  Task,       \* tasks inside recycle() or move() at a time
  Workloads   \* the built-ins that are called, and a lower bound on numbers, together

ASSUME ObjectsAssumption ==
  /\ MaxObj \in Nat /\ MaxParents \in Nat
  /\ \A w \in Workloads : w.last \in 0..MaxObj

VARIABLES
  live,        \* the numbers o with objects[o] != 0
  parents,     \* the parents of each object
  twice,       \* those that its list of parents names more than once
  children, location, contents,
  num_objects, \* one more than max_object()
  recycled,    \* objects with FLAG_RECYCLED
  pend,        \* the calls of recycle() and move() that wait for a verb
  used,        \* every number that was given to an object
  damaged,     \* renumber() has left a stale number, or written past a list
  does         \* the workload of this behaviour

vars == <<live, parents, twice, children, location, contents, num_objects,
          recycled, pend, used, damaged, does>>
health == <<damaged, does>>
inheritance == <<parents, twice, children>>
places == <<location, contents>>

Obj == 0..MaxObj
NOTHING == -1
Idle == [call |-> "none", what |-> NOTHING, where |-> NOTHING]
Pending(call, what, where) == [call |-> call, what |-> what, where |-> where]

Init ==
  /\ live = {0} /\ num_objects = 1 /\ used = {0}
  /\ parents = [o \in Obj |-> {}] /\ twice = [o \in Obj |-> {}]
  /\ children = [o \in Obj |-> {}]
  /\ location = [o \in Obj |-> NOTHING]
  /\ contents = [o \in Obj |-> {}]
  /\ recycled = {}
  /\ pend = [t \in Task |-> Idle]
  /\ damaged = FALSE /\ does \in Workloads

\* Whatever reads a stale number finds objects[old] = 0, and what lies behind a
\* list is not known: what a damaged server does is not followed.
Calls(builtin) == ~damaged /\ builtin \in does.calls
Waits(t, call) == ~damaged /\ pend[t].call = call

-----------------------------------------------------------------------------
(* Inheritance.                                                            *)

\* db_descendants(o, true): what follows from o by children.
Descendants(o) ==
  LET closed == {S \in SUBSET live : o \in S /\ \A y \in S : children[y] \subseteq S}
  IN  {x \in live : \A S \in closed : x \in S}

RangeOf(list) == {list[i] : i \in 1..Len(list)}
Repeated(list) ==
  {list[i] : i \in {j \in 1..Len(list) : \E k \in 1..(j - 1) : list[k] = list[j]}}

\* True unless an element equals a later one, from position i + i on.
check_for_duplicates(list) ==
  ~ \E i \in 1..Len(list) : \E j \in (i + i)..Len(list) : list[i] = list[j]

\* The lists of parents that pass this check, and the check that they exist.
ParentLists ==
  {list \in UNION {[1..n -> Obj] : n \in 0..MaxParents} : check_for_duplicates(list)}
all_valid(list) == RangeOf(list) \subseteq live

\* The children of every object when o goes from parents old to parents new.
adjust_children(old, new, o) ==
  [p \in Obj |-> IF p \in new THEN children[p] \cup {o}
                 ELSE IF p \in old THEN children[p] \ {o} ELSE children[p]]

\* db_set_last_used_objid(last), when the objects are those in objs.
db_set_last_used_objid(last, objs) == Max({last} \cup {o + 1 : o \in objs})

\* bf_create of a permanent object.
Create(list) ==
  /\ Calls("create") /\ num_objects <= does.last
  /\ all_valid(list)
  /\ LET o == num_objects
     IN  /\ live' = live \cup {o} /\ used' = used \cup {o}
         /\ parents' = [parents EXCEPT ![o] = RangeOf(list)]
         /\ twice' = [twice EXCEPT ![o] = Repeated(list)]
         /\ children' = adjust_children({}, RangeOf(list), o)
  /\ num_objects' = num_objects + 1
  /\ UNCHANGED <<places, recycled, pend, health>>

\* bf_create of an anonymous object, which gives its number back (by
\* db_make_anonymous), or one that fails because db_change_parents does.  The
\* first needs an owner, the second a parent: neither happens without objects.
CreateAnonymous ==
  /\ Calls("anonymous") /\ live # {} /\ num_objects <= does.last
  /\ num_objects' = db_set_last_used_objid(num_objects - 1, live)
  /\ UNCHANGED <<live, inheritance, places, recycled, pend, used, health>>

\* db_change_parents, when it succeeds.
db_change_parents(o, list) ==
  /\ parents' = [parents EXCEPT ![o] = RangeOf(list)]
  /\ twice' = [twice EXCEPT ![o] = Repeated(list)]
  /\ children' = adjust_children(parents[o], RangeOf(list), o)

\* bf_chparent_chparents, when it succeeds: no parent may be a descendant.
bf_chparents(o) ==
  /\ Calls("chparents") /\ o \in live
  /\ \E descendants \in {Descendants(o)}, list \in ParentLists :
       /\ all_valid(list) /\ RangeOf(list) \cap descendants = {}
       /\ db_change_parents(o, list)
  /\ UNCHANGED <<live, places, num_objects, recycled, pend, used, health>>

-----------------------------------------------------------------------------
(* Places.                                                                 *)

\* db_change_location
db_change_location(what, where) ==
  /\ location' = [location EXCEPT ![what] = where]
  /\ contents' = [o \in Obj |-> IF o = where THEN contents[o] \cup {what}
                                ELSE IF o = location[what] THEN contents[o] \ {what}
                                ELSE contents[o]]

\* The loop that looks for what from where outwards: every set that where is in
\* and that is closed under location has what in it.
Inside(where, what) ==
  \A S \in SUBSET live :
    where \in S /\ (\A o \in S : location[o] # NOTHING => location[o] \in S)
      => what \in S

\* What do_move checks when it knows that the object is accepted.
CanHold(what, where) ==
  /\ what \in live /\ where \in live \cup {NOTHING}
  /\ location[what] # where
  /\ where # NOTHING => ~Inside(where, what)

\* do_move, up to the call of accept.
MoveAsks(t, what, where) ==
  /\ Calls("move") /\ pend[t] = Idle
  /\ what \in live /\ where \in live
  /\ pend' = [pend EXCEPT ![t] = Pending("move", what, where)]
  /\ UNCHANGED <<live, inheritance, places, num_objects, recycled, used, health>>

\* do_move when accept has returned; exitfunc and enterfunc change nothing.
MoveGoesOn(t) ==
  /\ Waits(t, "move")
  /\ IF CanHold(pend[t].what, pend[t].where)
     THEN db_change_location(pend[t].what, pend[t].where)
     ELSE UNCHANGED places
  /\ pend' = [pend EXCEPT ![t] = Idle]
  /\ UNCHANGED <<live, inheritance, num_objects, recycled, used, health>>

\* do_move without a verb to call.
MoveAtOnce(what, where) ==
  /\ Calls("move")
  /\ CanHold(what, where)
  /\ db_change_location(what, where)
  /\ UNCHANGED <<live, inheritance, num_objects, recycled, pend, used, health>>

-----------------------------------------------------------------------------
(* recycle()                                                               *)

\* bf_recycle, up to the call of the verb recycle.
RecycleBegins(t, o) ==
  /\ Calls("recycle") /\ pend[t] = Idle
  /\ o \in live \ recycled
  /\ recycled' = recycled \cup {o}
  /\ pend' = [pend EXCEPT ![t] = Pending("recycle", o, NOTHING)]
  /\ UNCHANGED <<live, inheritance, places, num_objects, used, health>>

InRecycle(t) == Waits(t, "recycle")
Recycling(t) == InRecycle(t) /\ pend[t].what \in live

\* Somebody else has destroyed it.
RecycleGone(t) ==
  /\ InRecycle(t) /\ ~Recycling(t)
  /\ pend' = [pend EXCEPT ![t] = Idle]
  /\ UNCHANGED <<live, inheritance, places, num_objects, recycled, used, health>>

\* move_to_nothing of one of its contents, whose exitfunc may do anything.
RecycleEmpties(t) ==
  /\ Recycling(t)
  /\ \E c \in contents[pend[t].what] : db_change_location(c, NOTHING)
  /\ UNCHANGED <<live, inheritance, num_objects, recycled, pend, used, health>>

\* move_to_nothing of the object itself, likewise.
RecycleLeaves(t) ==
  /\ Recycling(t)
  /\ contents[pend[t].what] = {} /\ location[pend[t].what] # NOTHING
  /\ db_change_location(pend[t].what, NOTHING)
  /\ UNCHANGED <<live, inheritance, num_objects, recycled, pend, used, health>>

\* The parents a child c of o gets in place of o.
inherited_parents(o, c) == (parents[c] \ {o}) \cup parents[o]

\* Mutant: does not look again before it destroys.
RecycleReady_at_once(t) == Recycling(t)

\* "we can now be confident that OID has no contents and no location".
RecycleReady(t) ==
  /\ Recycling(t)
  /\ contents[pend[t].what] = {} /\ location[pend[t].what] = NOTHING

\* The rest runs without a break: the children go to the parents, and the
\* object goes.  setadd leaves no duplicates, but a child whose parents were
\* not a list takes over those of the object.
RecycleDestroys(t) ==
  /\ RecycleReady(t)
  /\ LET o == pend[t].what
         kids == children[o]
     IN  /\ parents' = [x \in Obj |-> IF x = o THEN {}
                                      ELSE IF x \in kids THEN inherited_parents(o, x)
                                      ELSE parents[x]]
         /\ \E direct \in SUBSET {c \in kids : parents[c] = {o}} :
              twice' = [x \in Obj |-> IF x \in direct THEN twice[o]
                                      ELSE IF x \in kids \cup {o} THEN {}
                                      ELSE twice[x]]
         /\ children' = [p \in Obj |-> IF p = o THEN {}
                                       ELSE IF p \in parents[o]
                                       THEN (children[p] \cup kids) \ {o}
                                       ELSE children[p]]
         /\ live' = live \ {o} /\ recycled' = recycled \ {o}
  /\ pend' = [pend EXCEPT ![t] = Idle]
  /\ UNCHANGED <<places, num_objects, used, health>>

\* The task is killed or aborted inside the verb.
Abort(t) ==
  /\ Calls("abort") /\ pend[t] # Idle
  /\ pend' = [pend EXCEPT ![t] = Idle]
  /\ UNCHANGED <<live, inheritance, places, num_objects, recycled, used, health>>

-----------------------------------------------------------------------------
(* Numbers.                                                                *)

Renamed(x, old, new) == IF x = old THEN new ELSE x

RenamedAll(S, old, new) == {Renamed(x, old, new) : x \in S}

\* FIX(up, down) for one of the fields that hold sets.
FixField(field, old, new) ==
  [x \in Obj |-> IF x = old THEN {}
                 ELSE RenamedAll(field[IF x = new THEN old ELSE x], old, new)]

\* FIX(parents, children) goes wrong when the object old, or a child of it, has a
\* list that names a parent twice.
FixMisses(old) == twice[old] # {} \/ \E c \in Obj : old \in twice[c]

\* db_renumber_object, when there is a free number below.  In the list of a child
\* that names old twice only the first is renamed.  Where old names a parent
\* twice, old is gone from that parent's children when FIX looks for it again, and
\* FIX writes past the end of that list.
Renumber(old) ==
  /\ Calls("renumber") /\ old \in live
  /\ \E new \in 0..(old - 1) :
       /\ new \notin live /\ \A n \in 0..(new - 1) : n \in live
       /\ live' = (live \ {old}) \cup {new} /\ used' = used \cup {new}
       /\ parents' = [x \in Obj |-> FixField(parents, old, new)[x] \cup (twice[x] \cap {old})]
       /\ twice' = [x \in Obj |-> IF x = old THEN {} ELSE twice[IF x = new THEN old ELSE x] \ {old}]
       /\ children' = FixField(children, old, new)
       /\ contents' = FixField(contents, old, new)
       /\ location' = [x \in Obj |-> IF x = old THEN NOTHING
                                     ELSE Renamed(location[IF x = new THEN old ELSE x], old, new)]
       /\ recycled' = RenamedAll(recycled, old, new)
  /\ damaged' = FixMisses(old)
  /\ UNCHANGED <<num_objects, pend, does>>

\* db_reset_last_used_objid
ResetMaxObject ==
  /\ Calls("reset_max_object") /\ live # {}
  /\ num_objects' = Max(live) + 1
  /\ UNCHANGED <<live, inheritance, places, recycled, pend, used, health>>

-----------------------------------------------------------------------------
Next ==
  \/ \E list \in ParentLists : Create(list)
  \/ CreateAnonymous
  \/ \E o \in live : bf_chparents(o)
  \/ \E t \in Task, what \in live, where \in live : MoveAsks(t, what, where)
  \/ \E t \in Task : MoveGoesOn(t)
  \/ \E what \in live, where \in live \cup {NOTHING} : MoveAtOnce(what, where)
  \/ \E t \in Task, o \in live : RecycleBegins(t, o)
  \/ \E t \in Task : \/ RecycleGone(t) \/ RecycleEmpties(t) \/ RecycleLeaves(t)
                     \/ RecycleDestroys(t) \/ Abort(t)
  \/ \E old \in live : Renumber(old)
  \/ ResetMaxObject

Spec == Init /\ [][Next]_vars

-----------------------------------------------------------------------------
(* Properties.                                                             *)

\* The types of the variables; objects that do not exist have no links.
TypeOK ==
  /\ live \subseteq Obj /\ used \subseteq Obj /\ recycled \subseteq live
  /\ parents \in [Obj -> SUBSET Obj] /\ twice \in [Obj -> SUBSET Obj]
  /\ children \in [Obj -> SUBSET Obj]
  /\ location \in [Obj -> Obj \cup {NOTHING}]
  /\ contents \in [Obj -> SUBSET Obj]
  /\ num_objects \in 0..(MaxObj + 1)
  /\ pend \in [Task -> [call : {"none", "move", "recycle"},
                        what : Obj \cup {NOTHING}, where : Obj \cup {NOTHING}]]
  /\ damaged \in BOOLEAN /\ does \in Workloads

\* No number from num_objects on, which the next new objects get, is in use.
NumbersFree == \A o \in live : o < num_objects

\* An object has exactly the children that have it as a parent, and exactly the
\* contents that are located in it; both ends of a link exist.
ParentsLinked ==
  \A x, y \in Obj : /\ y \in parents[x] <=> x \in children[y]
                    /\ y \in parents[x] => x \in live /\ y \in live
PlacesLinked ==
  \A x \in Obj : /\ \A y \in Obj : location[x] = y <=> x \in contents[y]
                 /\ location[x] # NOTHING => x \in live /\ location[x] \in live

\* Every set of objects has one without a parent in the set, and one that is
\* not located in it.
NoParentCycle == \A S \in SUBSET Obj : S # {} => \E x \in S : parents[x] \cap S = {}
NoPlaceCycle == \A S \in SUBSET Obj : S # {} => \E x \in S : location[x] \notin S

LinksSound == NumbersFree /\ ParentsLinked /\ PlacesLinked /\ NoParentCycle /\ NoPlaceCycle

\* The hierarchies are sound after any interleaving of moves, recycles, chparents
\* and renumberings, with verbs in between: links are mutual and never lead to
\* objects[o] = 0; "an object cannot appear in its own ancestors, descendants,
\* location/contents hierarchy", or db_ancestors and do_move would not come to an
\* end; new objects get numbers that are free.  The one exception is a
\* renumber() that meets a list of parents in which check_for_duplicates missed a
\* duplicate.
HierarchiesSound == TypeOK /\ (damaged \/ LinksSound)

\* "Fix up the parents/children hierarchy and the location/contents hierarchy":
\* renumber() does, whatever lists of parents there are.  It does not hold: see
\* "Disagreements" in the README.
RenumberFixes == LinksSound

\* "no object number is ever reused, even if the object with that number is
\* recycled".  It does not hold: see "Disagreements" in the README.
NeverReused == [][(live' \ live) \cap used = {}]_vars
=============================================================================
