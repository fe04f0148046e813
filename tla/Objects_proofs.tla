--------------------------- MODULE Objects_proofs ---------------------------
(***************************************************************************)
(* Proofs about Objects for any number of objects and tasks: the two       *)
(* hierarchies stay linked and without cycles, until a renumber() meets a  *)
(* list of parents that names one twice.                                   *)
(***************************************************************************)
EXTENDS Objects, Lemmas

Sound == TypeOK /\ LinksSound

\* The parents in a list are objects.
LEMMA ListRange ==
  ASSUME NEW list \in ParentLists
  PROVE  RangeOf(list) \subseteq Obj /\ Repeated(list) \subseteq Obj
  <1>1. PICK n \in 0..MaxParents : list \in [1..n -> Obj]
    BY DEF ParentLists
  <1>2. n \in Nat /\ Len(list) = n
    BY <1>1, ObjectsAssumption
  <1> QED
    BY <1>1, <1>2 DEF RangeOf, Repeated

\* The first state: one object, alone.
LEMMA InitSound == Init => Sound
  <1> SUFFICES ASSUME Init PROVE Sound
    OBVIOUS
  <1>1. 0 \in Obj /\ NOTHING \notin Obj
    BY ObjectsAssumption DEF Obj, NOTHING
  <1>2. TypeOK
    <2>1. num_objects \in 0..(MaxObj + 1)
      BY ObjectsAssumption DEF Init
    <2>2. does \in Workloads /\ damaged \in BOOLEAN
      BY DEF Init
    <2> QED
      BY <1>1, <2>1, <2>2 DEF Init, TypeOK, Idle
  <1>3. NumbersFree /\ ParentsLinked /\ PlacesLinked
    BY <1>1 DEF Init, NumbersFree, ParentsLinked, PlacesLinked
  <1>4. NoParentCycle /\ NoPlaceCycle
    BY <1>1 DEF Init, NoParentCycle, NoPlaceCycle
  <1> QED
    BY <1>2, <1>3, <1>4 DEF Sound, LinksSound

-----------------------------------------------------------------------------
(* Inheritance.                                                            *)

InheritanceOK ==
  /\ parents \in [Obj -> SUBSET Obj] /\ twice \in [Obj -> SUBSET Obj]
  /\ children \in [Obj -> SUBSET Obj]
  /\ ParentsLinked /\ NoParentCycle

\* An object is its own descendant, and the children of a descendant are.
LEMMA DescendantsClosed ==
  ASSUME InheritanceOK, live \subseteq Obj, NEW o \in live
  PROVE  /\ o \in Descendants(o)
         /\ Descendants(o) \subseteq live
         /\ \A y \in Descendants(o) : children[y] \subseteq Descendants(o)
  <1> DEFINE closed == {S \in SUBSET live : o \in S /\ \A y \in S : children[y] \subseteq S}
  <1>1. Descendants(o) = {x \in live : \A S \in closed : x \in S}
    BY DEF Descendants
  <1>2. ASSUME NEW y \in Descendants(o), NEW c \in children[y] PROVE c \in Descendants(o)
    <2>1. y \in live /\ \A S \in closed : y \in S
      BY <1>1
    <2>2. c \in live
      BY <2>1 DEF InheritanceOK, ParentsLinked
    <2>3. \A S \in closed : c \in S
      BY <2>1
    <2> QED
      BY <1>1, <2>2, <2>3
  <1> QED
    BY <1>1, <1>2

\* An object o without children and with parents outside is inserted: Create,
\* whose object is not there yet.
LEMMA CreateLinks ==
  ASSUME InheritanceOK, live \subseteq Obj, NEW o \in Obj \ live,
         NEW R, R \subseteq live, live' = live \cup {o},
         parents' = [parents EXCEPT ![o] = R],
         children' = adjust_children({}, R, o)
  PROVE  ParentsLinked' /\ NoParentCycle'
  <1>1. parents[o] = {} /\ children[o] = {} /\ o \notin R
    BY DEF InheritanceOK, ParentsLinked
  <1>2. ParentsLinked'
    BY <1>1 DEF InheritanceOK, ParentsLinked, adjust_children
  <1>3. ASSUME NEW S \in SUBSET Obj, S # {} PROVE \E x \in S : parents'[x] \cap S = {}
    <2>1. CASE S \subseteq {o}
      <3>1. parents'[o] \cap S = {}
        BY <1>1, <2>1 DEF InheritanceOK
      <3> QED
        BY <1>3, <2>1, <3>1
    <2>2. CASE ~(S \subseteq {o})
      <3>1. PICK x \in S \ {o} : parents[x] \cap (S \ {o}) = {}
        <4>1. S \ {o} \in SUBSET Obj /\ S \ {o} # {}
          BY <2>2
        <4> QED
          BY <4>1 DEF InheritanceOK, NoParentCycle
      <3>2. o \notin parents[x]
        BY DEF InheritanceOK, ParentsLinked
      <3>3. parents'[x] = parents[x]
        BY DEF InheritanceOK
      <3> QED
        BY <3>1, <3>2, <3>3
    <2> QED
      BY <2>1, <2>2
  <1> QED
    BY <1>2, <1>3 DEF NoParentCycle

\* o gets the parents R, none of which is a descendant.
LEMMA ChparentsLinks ==
  ASSUME InheritanceOK, live \subseteq Obj, NEW o \in live,
         NEW R, R \subseteq live, R \cap Descendants(o) = {}, live' = live,
         parents' = [parents EXCEPT ![o] = R],
         children' = adjust_children(parents[o], R, o)
  PROVE  ParentsLinked' /\ NoParentCycle'
  <1> DEFINE D == Descendants(o)
  <1>1. o \in D /\ \A y \in D : children[y] \subseteq D
    BY DescendantsClosed
  <1> HIDE DEF D
  <1>2. ParentsLinked'
    BY DEF InheritanceOK, ParentsLinked, adjust_children
  <1>3. ASSUME NEW S \in SUBSET Obj, S # {} PROVE \E x \in S : parents'[x] \cap S = {}
    <2>1. CASE S \subseteq D
      <3>1. PICK x \in S : parents[x] \cap S = {}
        BY <1>3 DEF InheritanceOK, NoParentCycle
      <3>2. CASE x = o
        BY <2>1, <3>2 DEF D, InheritanceOK
      <3>3. CASE x # o
        BY <3>1, <3>3 DEF InheritanceOK
      <3> QED
        BY <3>2, <3>3
    <2>2. CASE ~(S \subseteq D)
      <3>1. PICK x \in S \ D : parents[x] \cap (S \ D) = {}
        <4>1. S \ D \in SUBSET Obj /\ S \ D # {}
          BY <2>2
        <4> QED
          BY <4>1 DEF InheritanceOK, NoParentCycle
      <3>2. parents[x] \cap D = {}
        BY <1>1 DEF InheritanceOK, ParentsLinked
      <3>3. parents'[x] = parents[x]
        BY <1>1 DEF InheritanceOK
      <3> QED
        BY <3>1, <3>2, <3>3
    <2> QED
      BY <2>1, <2>2
  <1> QED
    BY <1>2, <1>3 DEF NoParentCycle

\* The children of o go to its parents, and o goes.
LEMMA DestroyLinks ==
  ASSUME InheritanceOK, live \subseteq Obj, NEW o \in live, live' = live \ {o},
         parents' = [x \in Obj |-> IF x = o THEN {}
                                   ELSE IF x \in children[o] THEN inherited_parents(o, x)
                                   ELSE parents[x]],
         children' = [p \in Obj |-> IF p = o THEN {}
                                    ELSE IF p \in parents[o]
                                    THEN (children[p] \cup children[o]) \ {o}
                                    ELSE children[p]]
  PROVE  ParentsLinked' /\ NoParentCycle'
  <1>1. o \notin parents[o]
    <2>1. {o} \in SUBSET Obj /\ {o} # {}
      OBVIOUS
    <2> QED
      BY <2>1 DEF InheritanceOK, NoParentCycle
  <1>2. ParentsLinked'
    <2>1. ASSUME NEW x \in Obj, NEW y \in Obj
          PROVE  y \in parents'[x] <=> x \in children'[y]
      BY <1>1, <2>1 DEF InheritanceOK, ParentsLinked, inherited_parents
    <2>2. ASSUME NEW x \in Obj, NEW y \in Obj, y \in parents'[x]
          PROVE  x \in live' /\ y \in live'
      BY <1>1, <2>2 DEF InheritanceOK, ParentsLinked, inherited_parents
    <2> QED
      BY <2>1, <2>2 DEF ParentsLinked
  <1>3. ASSUME NEW S \in SUBSET Obj, S # {} PROVE \E x \in S : parents'[x] \cap S = {}
    <2>1. CASE o \in S
      BY <2>1
    <2>2. CASE o \notin S
      <3>1. PICK x \in S \cup {o} : parents[x] \cap (S \cup {o}) = {}
        <4>1. S \cup {o} \in SUBSET Obj /\ S \cup {o} # {}
          OBVIOUS
        <4> QED
          BY <4>1 DEF InheritanceOK, NoParentCycle
      <3>2. CASE x # o
        <4>1. x \in S /\ x \notin children[o]
          BY <3>1, <3>2 DEF InheritanceOK, ParentsLinked
        <4> QED
          BY <3>1, <3>2, <4>1
      <3>3. CASE x = o
        <4>1. PICK y \in S : parents[y] \cap S = {}
          BY <1>3 DEF InheritanceOK, NoParentCycle
        <4>2. parents'[y] \subseteq parents[y] \cup parents[o]
          BY DEF inherited_parents
        <4> QED
          BY <3>1, <3>3, <4>1, <4>2
      <3> QED
        BY <3>2, <3>3
    <2> QED
      BY <2>1, <2>2
  <1> QED
    BY <1>2, <1>3 DEF NoParentCycle

-----------------------------------------------------------------------------
(* Places.                                                                 *)

PlacesOK ==
  /\ location \in [Obj -> Obj \cup {NOTHING}] /\ contents \in [Obj -> SUBSET Obj]
  /\ PlacesLinked /\ NoPlaceCycle

\* An object is moved to where, which is not inside it, or to nothing.
LEMMA MoveLinks ==
  ASSUME PlacesOK, live \subseteq Obj, live' = live, NEW what \in live,
         NEW where \in live \cup {NOTHING},
         where # NOTHING => ~Inside(where, what),
         db_change_location(what, where)
  PROVE  PlacesOK'
  <1>1. NOTHING \notin Obj /\ what \in Obj
    BY ObjectsAssumption DEF Obj, NOTHING
  <1>2. /\ location' \in [Obj -> Obj \cup {NOTHING}] /\ contents' \in [Obj -> SUBSET Obj]
        /\ location'[what] = where /\ \A x \in Obj \ {what} : location'[x] = location[x]
    BY DEF PlacesOK, db_change_location
  <1>3. PlacesLinked'
    <2>1. ASSUME NEW x \in Obj, NEW y \in Obj
          PROVE  location'[x] = y <=> x \in contents'[y]
      <3>1. location[x] = y <=> x \in contents[y]
        BY DEF PlacesOK, PlacesLinked
      <3>2. contents'[y] = IF y = where THEN contents[y] \cup {what}
                           ELSE IF y = location[what] THEN contents[y] \ {what}
                           ELSE contents[y]
        BY DEF db_change_location
      <3>3. CASE x = what
        <4>1. location'[x] = where
          BY <1>2, <3>3
        <4> QED
          BY <3>1, <3>2, <3>3, <4>1
      <3>4. CASE x # what
        BY <1>2, <3>1, <3>2, <3>4
      <3> QED
        BY <3>3, <3>4
    <2>2. ASSUME NEW x \in Obj, location'[x] # NOTHING
          PROVE  x \in live /\ location'[x] \in live
      BY <1>2, <2>2 DEF PlacesOK, PlacesLinked
    <2> QED
      BY <2>1, <2>2 DEF PlacesLinked
  <1>4. ASSUME NEW S \in SUBSET Obj, S # {} PROVE \E x \in S : location'[x] \notin S
    <2>1. CASE what \notin S
      <3>1. PICK x \in S : location[x] \notin S
        BY <1>4 DEF PlacesOK, NoPlaceCycle
      <3> QED
        BY <1>2, <2>1, <3>1
    <2>2. CASE what \in S /\ where \notin S
      BY <1>2, <2>2
    <2>3. CASE what \in S /\ where \in S
      <3>1. where # NOTHING
        BY <1>1, <2>3
      <3>2. PICK T \in SUBSET live :
               /\ where \in T /\ what \notin T
               /\ \A x \in T : location[x] # NOTHING => location[x] \in T
        BY <3>1 DEF Inside
      <3>3. PICK x \in S \cap T : location[x] \notin S \cap T
        <4>1. S \cap T \in SUBSET Obj /\ S \cap T # {}
          BY <2>3, <3>2
        <4> QED
          BY <4>1 DEF PlacesOK, NoPlaceCycle
      <3>4. location[x] \notin S
        BY <1>1, <3>2, <3>3
      <3>5. x # what
        BY <3>2
      <3> QED
        BY <1>2, <3>4, <3>5
    <2> QED
      BY <2>1, <2>2, <2>3
  <1>5. NoPlaceCycle'
    BY <1>4 DEF NoPlaceCycle
  <1> QED
    BY <1>2, <1>3, <1>5 DEF PlacesOK

-----------------------------------------------------------------------------
(* Numbers.                                                                *)

\* A hierarchy is a pair of fields; both are seen here as sets.
Linked(up, down, objs) ==
  /\ up \in [Obj -> SUBSET Obj] /\ down \in [Obj -> SUBSET Obj]
  /\ \A x, y \in Obj : y \in up[x] <=> x \in down[y]
  /\ \A x, y \in Obj : y \in up[x] => x \in objs /\ y \in objs
Acyclic(up) == \A S \in SUBSET Obj : S # {} => \E x \in S : up[x] \cap S = {}
Instead(objs, old, new) == (objs \ {old}) \cup {new}

\* The object old gets the number new, and its neighbours the new link: FIX.
LEMMA RenamedLinks ==
  ASSUME NEW up, NEW down, NEW objs \in SUBSET Obj, Linked(up, down, objs),
         NEW old \in objs, NEW new \in Obj \ objs
  PROVE  Linked(FixField(up, old, new), FixField(down, old, new), Instead(objs, old, new))
  <1> DEFINE Was(x) == IF x = new THEN old ELSE x
             up2 == FixField(up, old, new)
             down2 == FixField(down, old, new)
  <1>1. old \in Obj /\ new \in Obj /\ old # new
    OBVIOUS
  <1>2. ASSUME NEW f \in [Obj -> SUBSET Obj], NEW x \in Obj, NEW y \in Obj,
               \A a, b \in Obj : b \in f[a] => a \in objs /\ b \in objs
        PROVE  y \in FixField(f, old, new)[x]
                 <=> x # old /\ y # old /\ Was(y) \in f[Was(x)]
    BY <1>1, <1>2 DEF FixField, RenamedAll, Renamed
  <1>3. ASSUME NEW f \in [Obj -> SUBSET Obj]
        PROVE  FixField(f, old, new) \in [Obj -> SUBSET Obj]
    BY <1>1 DEF FixField, RenamedAll, Renamed
  <1>4. \A a, b \in Obj : b \in down[a] => a \in objs /\ b \in objs
    BY DEF Linked
  <1>5. ASSUME NEW x \in Obj, NEW y \in Obj
        PROVE  /\ y \in up2[x] <=> x # old /\ y # old /\ Was(y) \in up[Was(x)]
               /\ x \in down2[y] <=> x # old /\ y # old /\ Was(x) \in down[Was(y)]
    BY <1>2, <1>4 DEF Linked
  <1>6. ASSUME NEW x \in Obj
        PROVE  Was(x) \in Obj /\ (Was(x) \in objs /\ x # old => x \in Instead(objs, old, new))
    BY <1>1 DEF Instead
  <1>7. up2 \in [Obj -> SUBSET Obj] /\ down2 \in [Obj -> SUBSET Obj]
    BY <1>3 DEF Linked
  <1> HIDE DEF up2, down2
  <1>8. Linked(up2, down2, Instead(objs, old, new))
    BY <1>5, <1>6, <1>7 DEF Linked
  <1> QED
    BY <1>8 DEF up2, down2

\* No cycle comes from a new number.
LEMMA RenamedAcyclic ==
  ASSUME NEW up, NEW down, NEW objs \in SUBSET Obj, Linked(up, down, objs), Acyclic(up),
         NEW old \in objs, NEW new \in Obj \ objs
  PROVE  Acyclic(FixField(up, old, new))
  <1> SUFFICES ASSUME NEW S \in SUBSET Obj, S # {}
               PROVE  \E x \in S : FixField(up, old, new)[x] \cap S = {}
    BY DEF Acyclic
  <1> DEFINE Was(x) == IF x = new THEN old ELSE x
             Before == {x \in Obj : x # new /\ Renamed(x, old, new) \in S}
  <1>1. CASE old \in S
    BY <1>1 DEF FixField
  <1>2. CASE old \notin S
    <2>1. Before \in SUBSET Obj /\ Before # {}
      <3>1. PICK x \in S : TRUE
        OBVIOUS
      <3>2. Was(x) \in Before
        BY <1>2 DEF Renamed
      <3> QED
        BY <3>2
    <2>2. PICK b \in Before : up[b] \cap Before = {}
      BY <2>1 DEF Acyclic
    <2> DEFINE x == Renamed(b, old, new)
    <2>3. x \in S /\ x # old /\ (IF x = new THEN old ELSE x) = b
      BY <1>2 DEF Renamed
    <2>4. FixField(up, old, new)[x] = RenamedAll(up[b], old, new)
      BY <2>3 DEF FixField
    <2>5. ASSUME NEW y \in RenamedAll(up[b], old, new), y \in S PROVE FALSE
      <3>1. PICK p \in up[b] : y = Renamed(p, old, new)
        BY DEF RenamedAll
      <3>2. p \in Before
        BY <2>5, <3>1 DEF Linked
      <3> QED
        BY <2>2, <3>1, <3>2
    <2> QED
      BY <2>3, <2>4, <2>5
  <1> QED
    BY <1>1, <1>2

\* The place of an object as a set, and back.
Outward(place) == [x \in Obj |-> {place[x]} \ {NOTHING}]
LEMMA PlacesAsSets ==
  /\ PlacesOK <=> /\ location \in [Obj -> Obj \cup {NOTHING}]
                  /\ Linked(Outward(location), contents, live) /\ Acyclic(Outward(location))
  /\ PlacesOK' <=> /\ location' \in [Obj -> Obj \cup {NOTHING}]
                   /\ Linked(Outward(location'), contents', live') /\ Acyclic(Outward(location'))
  <1>1. NOTHING \notin Obj
    BY ObjectsAssumption DEF Obj, NOTHING
  <1>2. ASSUME NEW loc \in [Obj -> Obj \cup {NOTHING}], NEW con, NEW objs
        PROVE  /\ Linked(Outward(loc), con, objs)
                  <=> /\ con \in [Obj -> SUBSET Obj]
                      /\ \A x \in Obj : /\ \A y \in Obj : loc[x] = y <=> x \in con[y]
                                        /\ loc[x] # NOTHING => x \in objs /\ loc[x] \in objs
               /\ Acyclic(Outward(loc)) <=> \A S \in SUBSET Obj : S # {} => \E x \in S : loc[x] \notin S
    <2>1. /\ Outward(loc) \in [Obj -> SUBSET Obj]
          /\ \A x, y \in Obj : y \in Outward(loc)[x] <=> loc[x] = y
      BY <1>1 DEF Outward
    <2>2. ASSUME NEW S \in SUBSET Obj, NEW x \in S
          PROVE  Outward(loc)[x] \cap S = {} <=> loc[x] \notin S
      BY <1>1 DEF Outward
    <2>3. \A x \in Obj : loc[x] # NOTHING <=> \E y \in Obj : loc[x] = y
      BY <1>1
    <2>4. Acyclic(Outward(loc)) <=> \A S \in SUBSET Obj : S # {} => \E x \in S : loc[x] \notin S
      BY <2>2 DEF Acyclic
    <2>5. Linked(Outward(loc), con, objs)
            <=> /\ con \in [Obj -> SUBSET Obj]
                /\ \A x \in Obj : /\ \A y \in Obj : loc[x] = y <=> x \in con[y]
                                  /\ loc[x] # NOTHING => x \in objs /\ loc[x] \in objs
      BY <2>1, <2>3 DEF Linked
    <2> QED
      BY <2>4, <2>5
  <1> QED
    BY <1>2 DEF PlacesOK, PlacesLinked, NoPlaceCycle

\* renumber(): the types stay, and so do the links when no list is in the way.
LEMMA RenumberSound ==
  ASSUME Sound, NEW old \in live, Renumber(old)
  PROVE  HierarchiesSound'
  <1> USE DEF Sound, LinksSound
  <1>1. PICK new \in 0..(old - 1) :
          /\ new \notin live
          /\ live' = (live \ {old}) \cup {new} /\ used' = used \cup {new}
          /\ parents' = [x \in Obj |-> FixField(parents, old, new)[x] \cup (twice[x] \cap {old})]
          /\ twice' = [x \in Obj |-> IF x = old THEN {}
                                     ELSE twice[IF x = new THEN old ELSE x] \ {old}]
          /\ children' = FixField(children, old, new)
          /\ contents' = FixField(contents, old, new)
          /\ location' = [x \in Obj |-> IF x = old THEN NOTHING
                                        ELSE Renamed(location[IF x = new THEN old ELSE x], old, new)]
          /\ recycled' = RenamedAll(recycled, old, new)
    BY DEF Renumber
  <1>2. UNCHANGED <<num_objects, pend, does>> /\ damaged' = FixMisses(old)
    BY DEF Renumber
  <1>3. /\ NOTHING \notin Obj /\ live \in SUBSET Obj /\ old \in Obj
        /\ new \in Obj \ live /\ new # old /\ new < old
    <2>1. MaxObj \in Nat
      BY ObjectsAssumption
    <2>2. live \in SUBSET Obj
      BY DEF TypeOK
    <2> QED
      BY <1>1, <2>1, <2>2 DEF Obj, NOTHING
  <1>4. live' = Instead(live, old, new)
    BY <1>1 DEF Instead
  <1>5. /\ Linked(FixField(parents, old, new), children', live')
        /\ Acyclic(FixField(parents, old, new))
    <2>1. Linked(parents, children, live) /\ Acyclic(parents)
      BY DEF TypeOK, ParentsLinked, NoParentCycle, Linked, Acyclic
    <2>2. Linked(FixField(parents, old, new), FixField(children, old, new), Instead(live, old, new))
      BY <1>3, <2>1, RenamedLinks
    <2>3. Acyclic(FixField(parents, old, new))
      BY <1>3, <2>1, RenamedAcyclic
    <2> QED
      BY <1>1, <1>4, <2>2, <2>3
  <1>6. ~damaged' => ParentsLinked' /\ NoParentCycle'
    <2> SUFFICES ASSUME ~FixMisses(old) PROVE ParentsLinked' /\ NoParentCycle'
      BY <1>2
    <2>1. \A x \in Obj : twice[x] \cap {old} = {}
      BY DEF FixMisses
    <2>2. parents' = FixField(parents, old, new)
      BY <1>1, <2>1 DEF FixField
    <2> QED
      BY <1>5, <2>2 DEF Linked, Acyclic, ParentsLinked, NoParentCycle
  <1>7. location \in [Obj -> Obj \cup {NOTHING}] /\ location' \in [Obj -> Obj \cup {NOTHING}]
    BY <1>1, <1>3 DEF TypeOK, Renamed
  <1>8. Outward(location') = FixField(Outward(location), old, new)
    <2>1. ASSUME NEW x \in Obj
          PROVE  Outward(location')[x] = FixField(Outward(location), old, new)[x]
      <3>1. CASE x = old
        BY <1>1, <3>1 DEF Outward, FixField
      <3>2. CASE x # old
        <4> DEFINE was == IF x = new THEN old ELSE x
        <4>1. /\ was \in Obj /\ location'[x] = Renamed(location[was], old, new)
              /\ FixField(Outward(location), old, new)[x] = RenamedAll(Outward(location)[was], old, new)
          BY <1>1, <1>3, <3>2 DEF FixField
        <4> HIDE DEF was
        <4>2. Outward(location)[was] = {location[was]} \ {NOTHING}
          BY <4>1 DEF Outward
        <4>3. RenamedAll({location[was]} \ {NOTHING}, old, new)
                = {Renamed(location[was], old, new)} \ {NOTHING}
          BY <1>3, <1>7, <4>1 DEF RenamedAll, Renamed
        <4> QED
          BY <4>1, <4>2, <4>3 DEF Outward
      <3> QED
        BY <3>1, <3>2
    <2> QED
      BY <2>1 DEF Outward, FixField
  <1>9. PlacesOK'
    <2>1. Linked(Outward(location), contents, live) /\ Acyclic(Outward(location))
      <3>1. PlacesOK
        BY DEF TypeOK, PlacesOK
      <3> QED
        BY <3>1, PlacesAsSets
    <2>2. Linked(FixField(Outward(location), old, new), FixField(contents, old, new),
                 Instead(live, old, new))
      BY <1>3, <2>1, RenamedLinks
    <2>3. Acyclic(FixField(Outward(location), old, new))
      BY <1>3, <2>1, RenamedAcyclic
    <2>4. /\ Linked(Outward(location'), contents', live')
          /\ Acyclic(Outward(location'))
      BY <1>1, <1>4, <1>8, <2>2, <2>3
    <2> QED
      BY <1>7, <2>4, PlacesAsSets
  <1>10. TypeOK'
    <2>1. live' \subseteq Obj /\ used' \subseteq Obj /\ recycled' \subseteq live'
      BY <1>1, <1>3 DEF TypeOK, RenamedAll, Renamed
    <2>2. twice' \in [Obj -> SUBSET Obj] /\ parents' \in [Obj -> SUBSET Obj]
      <3>1. \A x \in Obj : twice[x] \in SUBSET Obj /\ FixField(parents, old, new)[x] \in SUBSET Obj
        BY <1>5 DEF TypeOK, Linked
      <3> QED
        BY <1>1, <1>3, <3>1
    <2>3. num_objects' = num_objects /\ pend' = pend /\ does' = does /\ damaged' \in BOOLEAN
      BY <1>2 DEF FixMisses
    <2>4. children' \in [Obj -> SUBSET Obj]
      BY <1>5 DEF Linked
    <2> QED
      BY <1>7, <1>9, <2>1, <2>2, <2>3, <2>4 DEF TypeOK, PlacesOK
  <1>11. NumbersFree'
    <2>1. old < num_objects /\ old \in Int /\ new \in Int /\ num_objects \in Int
      BY <1>3 DEF NumbersFree, TypeOK, Obj
    <2>2. new < num_objects
      BY <1>3, <2>1
    <2>3. ASSUME NEW o \in live' PROVE o < num_objects
      BY <1>1, <2>2 DEF NumbersFree
    <2> QED
      BY <1>2, <2>3 DEF NumbersFree
  <1> QED
    BY <1>6, <1>9, <1>10, <1>11 DEF PlacesOK, HierarchiesSound

-----------------------------------------------------------------------------
(* The steps.                                                              *)

\* Steps that change no link: only what waits, marks and the next number.
LEMMA LinksUntouched ==
  ASSUME Sound, UNCHANGED <<live, inheritance, places>>, TypeOK', NumbersFree'
  PROVE  Sound'
  BY DEF Sound, LinksSound, inheritance, places, ParentsLinked, PlacesLinked,
         NoParentCycle, NoPlaceCycle

\* A move that do_move allows, and the moves to nothing of recycle().
LEMMA MoveSound ==
  ASSUME Sound, NEW what \in live, NEW where \in live \cup {NOTHING},
         where # NOTHING => ~Inside(where, what), db_change_location(what, where),
         UNCHANGED <<live, inheritance, num_objects, used, recycled, health>>,
         pend' \in [Task -> [call : {"none", "move", "recycle"},
                             what : Obj \cup {NOTHING}, where : Obj \cup {NOTHING}]]
  PROVE  Sound'
  <1>1. PlacesOK /\ live \subseteq Obj
    BY DEF Sound, LinksSound, TypeOK, PlacesOK
  <1>2. PlacesOK'
    BY <1>1, MoveLinks
  <1>3. TypeOK'
    BY <1>2 DEF Sound, LinksSound, TypeOK, PlacesOK, inheritance, health
  <1>4. NumbersFree' /\ ParentsLinked' /\ NoParentCycle'
    BY DEF Sound, LinksSound, NumbersFree, ParentsLinked, NoParentCycle, inheritance
  <1> QED
    BY <1>2, <1>3, <1>4 DEF Sound, LinksSound, PlacesOK

\* Every step keeps the hierarchies sound.
LEMMA StepSound ==
  ASSUME Sound, [Next]_vars
  PROVE  HierarchiesSound'
  <1>1. /\ TypeOK /\ live \in SUBSET Obj /\ Idle \in [call : {"none", "move", "recycle"},
                                  what : Obj \cup {NOTHING}, where : Obj \cup {NOTHING}]
        /\ InheritanceOK /\ PlacesOK /\ NOTHING \notin Obj /\ num_objects \in Int
        /\ \A o \in live : o < num_objects /\ o \in Int /\ o + 1 <= MaxObj + 1
    BY ObjectsAssumption
       DEF Sound, LinksSound, TypeOK, Idle, InheritanceOK, PlacesOK, NumbersFree, Obj, NOTHING
  <1>2. ASSUME NEW list \in ParentLists, Create(list) PROVE Sound'
    <2> DEFINE o == num_objects
               R == RangeOf(list)
    <2>1. /\ o \in Obj \ live /\ R \subseteq live /\ live' = live \cup {o} /\ used' = used \cup {o}
          /\ parents' = [parents EXCEPT ![o] = R]
          /\ twice' = [twice EXCEPT ![o] = Repeated(list)]
          /\ children' = adjust_children({}, R, o)
          /\ num_objects' = num_objects + 1 /\ UNCHANGED <<places, recycled, pend, health>>
      BY <1>1, <1>2, ObjectsAssumption DEF Create, all_valid, Obj, Sound, LinksSound, TypeOK
    <2> HIDE DEF o, R
    <2>2. ParentsLinked' /\ NoParentCycle'
      BY <1>1, <2>1, CreateLinks
    <2>3. R \subseteq Obj /\ Repeated(list) \subseteq Obj
      BY ListRange DEF R
    <2>4. TypeOK'
      <3>1. parents' \in [Obj -> SUBSET Obj] /\ twice' \in [Obj -> SUBSET Obj]
        BY <1>1, <2>1, <2>3 DEF TypeOK
      <3>2. children' \in [Obj -> SUBSET Obj]
        BY <1>1, <2>1 DEF TypeOK, adjust_children
      <3>3. num_objects' \in 0..(MaxObj + 1)
        BY <1>1, <2>1, ObjectsAssumption DEF TypeOK, o, Obj
      <3> QED
        BY <1>1, <2>1, <3>1, <3>2, <3>3 DEF TypeOK, places, health
    <2>5. NumbersFree'
      BY <1>1, <2>1 DEF NumbersFree, o
    <2>6. PlacesLinked' /\ NoPlaceCycle'
      BY <1>1, <2>1 DEF PlacesOK, PlacesLinked, NoPlaceCycle, places
    <2> QED
      BY <2>2, <2>4, <2>5, <2>6 DEF Sound, LinksSound
  <1>3. ASSUME CreateAnonymous PROVE Sound'
    <2> DEFINE T == {num_objects - 1} \cup {o + 1 : o \in live}
    <2>1. num_objects' = Max(T) /\ live # {}
      BY <1>3 DEF CreateAnonymous, db_set_last_used_objid
    <2>2. T \subseteq Int /\ T # {} /\ \A x \in T : x <= num_objects
      BY <1>1
    <2>3. Max(T) \in T /\ \A y \in T : Max(T) >= y
      <3> HIDE DEF T
      <3> QED
        BY <1>1, <2>2, MaxOfBounded
    <2>4. num_objects' \in 0..(MaxObj + 1)
      <3>1. PICK o \in live : TRUE
        BY <2>1
      <3>2. Max(T) >= o + 1 /\ o >= 0
        BY <1>1, <2>3 DEF Obj
      <3>3. Max(T) \in Int /\ Max(T) <= num_objects
        BY <2>2, <2>3
      <3> QED
        BY <1>1, <2>1, <3>2, <3>3, ObjectsAssumption DEF TypeOK
    <2>5. NumbersFree' /\ TypeOK'
      BY <1>1, <1>3, <2>1, <2>3, <2>4 DEF CreateAnonymous, NumbersFree, TypeOK, inheritance, places, health
    <2> QED
      BY <1>3, <2>5, LinksUntouched DEF CreateAnonymous, inheritance
  <1>4. ASSUME NEW o \in live, bf_chparents(o) PROVE Sound'
    <2>1. PICK list \in ParentLists :
            /\ all_valid(list) /\ RangeOf(list) \cap Descendants(o) = {}
            /\ db_change_parents(o, list)
      BY <1>4 DEF bf_chparents
    <2>2. UNCHANGED <<live, places, num_objects, recycled, pend, used, health>>
      BY <1>4 DEF bf_chparents
    <2>3. ParentsLinked' /\ NoParentCycle'
      BY <1>1, <2>1, <2>2, ChparentsLinks DEF all_valid, db_change_parents
    <2>4. TypeOK'
      BY <1>1, <2>1, <2>2, ListRange DEF TypeOK, db_change_parents, adjust_children, places, health
    <2>5. NumbersFree' /\ PlacesLinked' /\ NoPlaceCycle'
      BY <1>1, <2>2 DEF NumbersFree, PlacesOK, PlacesLinked, NoPlaceCycle, places
    <2> QED
      BY <2>3, <2>4, <2>5 DEF Sound, LinksSound
  <1>5. ASSUME NEW t \in Task, NEW what \in live, NEW where \in live, MoveAsks(t, what, where)
        PROVE  Sound'
    <2>1. TypeOK' /\ NumbersFree'
      BY <1>1, <1>5 DEF MoveAsks, Pending, TypeOK, Sound, LinksSound, NumbersFree, inheritance, places, health
    <2> QED
      BY <1>5, <2>1, LinksUntouched DEF MoveAsks, inheritance
  <1>6. ASSUME NEW t \in Task, MoveGoesOn(t) PROVE Sound'
    <2>1. CASE CanHold(pend[t].what, pend[t].where)
      BY <1>1, <1>6, <2>1, MoveSound
         DEF MoveGoesOn, CanHold, TypeOK, inheritance, health
    <2>2. CASE ~CanHold(pend[t].what, pend[t].where)
      <3>1. TypeOK' /\ NumbersFree'
        BY <1>1, <1>6, <2>2 DEF MoveGoesOn, TypeOK, Sound, LinksSound, NumbersFree, inheritance, places, health
      <3> QED
        BY <1>6, <2>2, <3>1, LinksUntouched DEF MoveGoesOn, inheritance
    <2> QED
      BY <2>1, <2>2
  <1>7. ASSUME NEW what \in live, NEW where \in live \cup {NOTHING}, MoveAtOnce(what, where)
        PROVE  Sound'
    BY <1>1, <1>7, MoveSound DEF MoveAtOnce, CanHold, TypeOK, inheritance, health
  <1>8. ASSUME NEW t \in Task, NEW o \in live, RecycleBegins(t, o) PROVE Sound'
    <2>1. TypeOK' /\ NumbersFree'
      BY <1>1, <1>8 DEF RecycleBegins, Pending, TypeOK, Sound, LinksSound, NumbersFree, inheritance, places, health
    <2> QED
      BY <1>8, <2>1, LinksUntouched DEF RecycleBegins, inheritance
  <1>9. ASSUME NEW t \in Task, RecycleGone(t) \/ Abort(t) PROVE Sound'
    <2>1. TypeOK' /\ NumbersFree'
      BY <1>1, <1>9 DEF RecycleGone, Abort, TypeOK, Sound, LinksSound, NumbersFree, inheritance, places, health
    <2> QED
      BY <1>9, <2>1, LinksUntouched DEF RecycleGone, Abort, inheritance
  <1>10. ASSUME NEW t \in Task, RecycleEmpties(t) PROVE Sound'
    <2>1. PICK c \in contents[pend[t].what] : db_change_location(c, NOTHING)
      BY <1>10 DEF RecycleEmpties
    <2>2. c \in live
      <3>1. pend[t].what \in Obj /\ c \in Obj
        BY <1>1, <1>10 DEF RecycleEmpties, Recycling, TypeOK
      <3> QED
        BY <1>1, <3>1 DEF PlacesOK, PlacesLinked
    <2> QED
      BY <1>1, <1>10, <2>1, <2>2, MoveSound DEF RecycleEmpties, TypeOK, inheritance, health
  <1>11. ASSUME NEW t \in Task, RecycleLeaves(t) PROVE Sound'
    BY <1>1, <1>11, MoveSound
       DEF RecycleLeaves, Recycling, TypeOK, inheritance, health
  <1>12. ASSUME NEW t \in Task, RecycleDestroys(t) PROVE Sound'
    <2> DEFINE o == pend[t].what
    <2>1. /\ o \in live /\ contents[o] = {} /\ location[o] = NOTHING
          /\ live' = live \ {o} /\ recycled' = recycled \ {o}
          /\ parents' = [x \in Obj |-> IF x = o THEN {}
                                   ELSE IF x \in children[o] THEN inherited_parents(o, x)
                                   ELSE parents[x]]
          /\ children' = [p \in Obj |-> IF p = o THEN {}
                                    ELSE IF p \in parents[o]
                                    THEN (children[p] \cup children[o]) \ {o}
                                    ELSE children[p]]
          /\ pend' = [pend EXCEPT ![t] = Idle] /\ UNCHANGED <<places, num_objects, used, health>>
      BY <1>12 DEF RecycleDestroys, RecycleReady, Recycling
    <2>2. PICK direct \in SUBSET {c \in children[o] : parents[c] = {o}} :
            twice' = [x \in Obj |-> IF x \in direct THEN twice[o]
                                    ELSE IF x \in children[o] \cup {o} THEN {}
                                    ELSE twice[x]]
      BY <1>12 DEF RecycleDestroys
    <2> HIDE DEF o
    <2>3. ParentsLinked' /\ NoParentCycle'
      BY <1>1, <2>1, DestroyLinks
    <2>4. TypeOK'
      <3>1. parents' \in [Obj -> SUBSET Obj] /\ children' \in [Obj -> SUBSET Obj]
        BY <1>1, <2>1 DEF TypeOK, inherited_parents
      <3>2. twice' \in [Obj -> SUBSET Obj]
        BY <1>1, <2>1, <2>2 DEF TypeOK
      <3> QED
        BY <1>1, <2>1, <3>1, <3>2 DEF TypeOK, places, health
    <2>5. NumbersFree'
      BY <1>1, <2>1 DEF NumbersFree
    <2>6. PlacesLinked' /\ NoPlaceCycle'
      BY <1>1, <2>1 DEF PlacesOK, PlacesLinked, NoPlaceCycle, places
    <2> QED
      BY <2>3, <2>4, <2>5, <2>6 DEF Sound, LinksSound
  <1>13. ASSUME NEW old \in live, Renumber(old) PROVE HierarchiesSound'
    BY <1>13, RenumberSound
  <1>14. ASSUME ResetMaxObject PROVE Sound'
    <2>1. live # {} /\ num_objects' = Max(live) + 1 /\ live \subseteq Int
      BY <1>1, <1>14 DEF ResetMaxObject, Obj
    <2> DEFINE top == Max(live)
    <2>2. top \in live /\ \A y \in live : top >= y
      <3>1. MaxObj \in Int /\ \A x \in live : x <= MaxObj
        BY <1>1, ObjectsAssumption DEF Obj
      <3> QED
        BY <2>1, <3>1, MaxOfBounded
    <2>4. num_objects' = top + 1
      BY <2>1
    <2> HIDE DEF top
    <2>3. TypeOK' /\ NumbersFree'
      <3>1. num_objects' \in 0..(MaxObj + 1)
        <4>1. top \in 0..MaxObj /\ MaxObj \in Int
          BY <1>1, <2>2, ObjectsAssumption DEF Obj
        <4> QED
          BY <2>4, <4>1
      <3>2. NumbersFree'
        <4>1. live' = live
          BY <1>14 DEF ResetMaxObject, inheritance, places, health
        <4>2. ASSUME NEW o \in live PROVE o < num_objects'
          <5>1. o \in Int /\ top \in Int /\ top >= o
            BY <2>1, <2>2
          <5> QED
            BY <2>4, <5>1
        <4> QED
          BY <4>1, <4>2 DEF NumbersFree
      <3> QED
        BY <1>1, <1>14, <3>1, <3>2 DEF ResetMaxObject, TypeOK, inheritance, places, health
    <2> QED
      BY <1>14, <2>3, LinksUntouched DEF ResetMaxObject, inheritance
  <1>15. CASE UNCHANGED vars
    <2>1. TypeOK' /\ NumbersFree'
      BY <1>1, <1>15 DEF vars, TypeOK, Sound, LinksSound, NumbersFree
    <2>2. Sound'
      BY <1>15, <2>1, LinksUntouched DEF vars, inheritance, places
    <2> QED
      BY <2>2 DEF Sound, HierarchiesSound
  <1>16. Sound' => HierarchiesSound'
    BY DEF Sound, HierarchiesSound
  <1> QED
    BY <1>2, <1>3, <1>4, <1>5, <1>6, <1>7, <1>8, <1>9, <1>10, <1>11, <1>12, <1>13, <1>14, <1>15,
       <1>16 DEF Next

\* A damaged server is not followed.
LEMMA DamagedStays ==
  ASSUME damaged, [Next]_vars
  PROVE  UNCHANGED vars
  BY DEF Next, Create, CreateAnonymous, bf_chparents, MoveAsks, MoveGoesOn, MoveAtOnce, RecycleBegins,
         RecycleGone, RecycleEmpties, RecycleLeaves, RecycleDestroys, RecycleReady, Abort, Renumber,
         ResetMaxObject, Calls, Waits, Recycling, InRecycle

\* Every step keeps what the invariant says.
LEMMA StepInv ==
  ASSUME HierarchiesSound, [Next]_vars
  PROVE  HierarchiesSound'
  <1>1. CASE damaged
    <2>1. UNCHANGED vars
      BY <1>1, DamagedStays
    <2>2. TypeOK'
      BY <2>1 DEF HierarchiesSound, TypeOK, vars
    <2>3. damaged'
      BY <1>1, <2>1 DEF vars
    <2> QED
      BY <2>2, <2>3 DEF HierarchiesSound
  <1>2. CASE ~damaged
    BY <1>2, StepSound DEF HierarchiesSound, Sound
  <1> QED
    BY <1>1, <1>2

\* However moves, recycles and changes of parents are interrupted by each other,
\* links are mutual, lead to objects that exist and form no cycle, and new
\* objects get free numbers (bf_create, bf_chparents, do_move, bf_recycle,
\* db_renumber_object): for any number of objects, parents and tasks, until
\* renumber() meets a list of parents in which check_for_duplicates missed a
\* duplicate.
THEOREM HierarchiesKept == Spec => []HierarchiesSound
  <1>1. Init => HierarchiesSound
    BY InitSound DEF Sound, HierarchiesSound
  <1>2. HierarchiesSound /\ [Next]_vars => HierarchiesSound'
    BY StepInv
  <1> QED
    BY <1>1, <1>2, PTL DEF Spec
=============================================================================
