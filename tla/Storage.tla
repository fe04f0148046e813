------------------------------ MODULE Storage ------------------------------
(* The memory of the server and its database file.  A behaviour is one of   *)
(* four kinds of work (does):                                               *)
(*   "heap"  tasks create, share and lose anonymous objects, by themselves  *)
(*           and in lists; main_loop collects cycles, recycles what is      *)
(*           lost, and dumps; the server goes down and loads the dump       *)
(*   "load"  the server loads a database file whose hierarchies may be      *)
(*           anything                                                       *)
(*   "maps"  tasks change maps that two variables may share                 *)
(*   "files" tasks call the file built-ins                                  *)
EXTENDS DbFile, Maps, FileIO

CONSTANTS
  Slot,        \* variables of suspended tasks, properties of permanent objects
  Calls,       \* what tasks do in "heap", besides creating and sharing
  Files,       \* hierarchies of files of the current version
  FilesV4,     \* and of version 4
  Pairs,       \* <<key, value>> pairs put into maps
  MaxCount,    \* bound: reference counts that most operations start from
  MaxMade,     \* bound: values that are created
  MaxAnon,     \* bound: anonymous objects at a time
  MaxSpoiled,  \* bound: values created when Calls are made
  MaxShared,   \* bound: the size of a map that both variables may hold
  MaxRanged,   \* bound: the size of a map that ranges are taken of
  Work         \* kinds of work of this instance

ASSUME StorageAssumption ==
  /\ Work \subseteq {"heap", "load", "maps", "files"}
  /\ {MaxCount, MaxMade, MaxAnon, MaxSpoiled, MaxShared, MaxRanged} \subseteq Nat
  /\ \A pair \in Pairs : pair[1] \in Nat \ {0}

VARIABLES
  does,    \* the kind of work
  hp,      \* the heap (Garbage)
  slot,    \* the value in each variable
  batch,   \* objects that recycle_anonymous_objects has taken off the queue
  made,    \* values created so far
  this,    \* the object whose recycle verb runs, or 0
  db,      \* permanent objects as loaded
  tree,    \* the memory of two maps
  var,     \* which of them each map variable holds
  pairs    \* what each variable should contain, as MOO code sees it

heap == <<hp, slot, made, batch, this>>
maps == <<tree, var, pairs>>
vars == <<does, heap, db, maps, files>>

MapVar == {"x", "y"}
Key == {pair[1] : pair \in Pairs}
SlotSeq == SetToSeq(Slot)
Values == [i \in DOMAIN SlotSeq |-> slot[SlotSeq[i]]]

Init ==
  /\ does \in Work
  /\ hp = NoHeap /\ slot = [s \in Slot |-> 0] /\ made = 0 /\ batch = <<>> /\ this = 0
  /\ db = [how |-> "none", db |-> <<>>]
  /\ tree = [i \in 1..2 |-> rbnew] /\ var = [v \in MapVar |-> IF v = "x" THEN 1 ELSE 2]
  /\ pairs = [v \in MapVar |-> <<>>]
  /\ FileInit /\ (does # "files" => disk = CHOOSE d \in Disk : TRUE)

-----------------------------------------------------------------------------
(* MOO code.  Every operand on the stack holds a reference of its own, and  *)
(* so does the result.                                                      *)

SumOver(S, f(_)) == FoldSet(LAMBDA x, sum : f(x) + sum, 0, S)
In(v, seq) == Cardinality({i \in DOMAIN seq : seq[i] = v})

\* References to v that somebody really holds.
References(v) ==
  Cardinality({s \in Slot : slot[s] = v}) + In(v, hp.pending) + In(v, batch)
    + In(v, <<this>>) + SumOver(Address, LAMBDA a : In(v, hp.node[a].kids))

\* Between two steps of recycle_anonymous_objects only a recycle verb runs.
Running ==
  does = "heap" /\ ~hp.aborted /\ (this # 0 \/ batch = <<>>)
Counting == Running /\ \A a \in Address : hp.node[a].count <= MaxCount
Sources == {slot[s] : s \in Slot} \cup {this}
Objects == {v \in Sources \ {0} : hp.node[v].type = "anon"}
UsableObjects == {v \in Objects : is_valid(hp, v)}

\* Values are made before the first call of recycle() and outside of verbs.
MayMake ==
  /\ made < MaxMade /\ this = 0 /\ Spare(hp) # {}
  /\ \A a \in Address : hp.node[a].flags = {}
MayCall(call) == call \in Calls /\ made <= MaxSpoiled

Assign(s, h, v) ==
  /\ hp' = free_var(h, slot[s]) /\ slot' = [slot EXCEPT ![s] = v]
  /\ UNCHANGED <<does, batch, this, db, maps, files>>
Change(h) == hp' = h /\ UNCHANGED <<does, slot, batch, this, db, maps, files>>

\* create(), with the reference that bf_create keeps while initialize runs.
bf_create(s) ==
  /\ Counting /\ MayMake /\ Cardinality({a \in Address : hp.node[a].type = "anon"}) < MaxAnon
  /\ LET a == NextAddress(hp)
     IN  /\ made' = made + 1
         /\ Assign(s, free_var(var_ref(mymalloc(hp, a, "anon", <<0>>), a), a), a)

Copy(s, v) == Counting /\ slot[s] # v /\ UNCHANGED made /\ Assign(s, var_ref(hp, v), v)

MakeList(s, v, w) ==
  /\ Counting /\ MayMake /\ v # 0
  /\ LET a == NextAddress(hp)
     IN  /\ made' = made + 1
         /\ Assign(s, mymalloc(var_ref(var_ref(hp, v), w), a, "list", <<v, w>>), a)

\* s = s[i]
Index(s, i) ==
  /\ Counting /\ slot[s] # 0 /\ hp.node[slot[s]].type = "list"
  /\ LET list == slot[s]
         v == hp.node[list].kids[i]
     IN  UNCHANGED made /\ Assign(s, free_var(var_ref(var_ref(hp, list), v), list), v)

\* s[i] = v: the list is changed in place if nobody else has it, and copied,
\* into a new yellow one as well, if somebody has.
listset(s, i, v) ==
  /\ Counting /\ slot[s] # 0 /\ hp.node[slot[s]].type = "list" /\ v # slot[s]
  /\ LET list == slot[s]
         kids == [hp.node[list].kids EXCEPT ![i] = v]
         a == NextAddress(hp)
         counted == FoldLeft(var_ref, hp, kids)
         set == free_var(var_ref(hp, v), hp.node[list].kids[i])
     IN  IF hp.node[list].count = 1
         THEN /\ UNCHANGED made
              /\ Change([set EXCEPT !.node[list].kids = kids, !.node[list].color = "yellow"])
         ELSE /\ MayMake /\ made' = made + 1
              /\ Assign(s, mymalloc(counted, a, "list", kids), a)

\* s = o.p
GetProp(s, o) ==
  /\ Counting
  /\ LET v == hp.node[o].kids[1]
     IN  UNCHANGED made /\ Assign(s, var_ref(free_var(var_ref(hp, o), o), v), v)

\* o.p = v
PutProp(o, v) ==
  /\ Counting
  /\ LET taken == var_ref(var_ref(var_ref(hp, o), v), v)
         freed == free_var(taken, hp.node[o].kids[1])
         put == [freed EXCEPT !.node[o].kids = <<v>>]
     IN  UNCHANGED made /\ Change(free_var(free_var(put, o), v))

\* recycle(o), of an object without a recycle verb.
bf_recycle(o) ==
  /\ Running /\ MayCall("recycle") /\ ~Has(hp, o, "recycled")
  /\ LET held == free_var(var_ref(var_ref(hp, o), o), o)
         data == var_ref([held EXCEPT !.node[o].flags = @ \cup {"recycled"}], o)
         gone == db_destroy_anonymous_object(data, o)
     IN  UNCHANGED made /\ Change(free_var(free_var(gone, o), o))

\* recycle(o), whose verb is aborted: the data of the built-in function is
\* given up, and with it the reference in it.
RecycleAborted(o) ==
  /\ Running /\ MayCall("abort") /\ ~Has(hp, o, "recycled")
  /\ LET held == free_var(var_ref(var_ref(hp, o), o), o)
     IN  /\ UNCHANGED made
         /\ Change(var_ref([held EXCEPT !.node[o].flags = @ \cup {"recycled"}], o))

\* A parent is recycled; later something asks whether o is valid.
ParentGone(o) ==
  /\ Running /\ MayCall("orphan")
  /\ UNCHANGED made /\ Change([hp EXCEPT !.node[o].flags = @ \cup {"orphan"}])
AskValid(o) ==
  /\ Running /\ Tested(hp, o) # hp /\ UNCHANGED made /\ Change(Tested(hp, o))

-----------------------------------------------------------------------------
(* main_loop.                                                               *)

Looping == does = "heap" /\ ~hp.aborted /\ batch = <<>> /\ this = 0

CollectGarbage ==
  /\ Looping /\ hp.roots # <<>> /\ UNCHANGED made /\ Change(gc_collect(hp))

\* recycle_anonymous_objects: the queue is taken, and then one after another.
TakeQueue ==
  /\ Looping /\ hp.pending # <<>>
  /\ batch' = hp.pending /\ hp' = [hp EXCEPT !.pending = <<>>]
  /\ UNCHANGED <<does, slot, made, this, db, maps, files>>

RecycleStart ==
  /\ does = "heap" /\ ~hp.aborted /\ batch # <<>> /\ this = 0
  /\ LET v == Head(batch)
         sound == Asserted(hp, ~Has(hp, v, "recycled") /\ ~Has(hp, v, "invalid"))
     IN  IF sound.aborted THEN hp' = sound /\ UNCHANGED <<batch, this>>
         ELSE /\ hp' = [hp EXCEPT !.node[v].flags = @ \cup {"recycled"}]
              /\ this' = v /\ batch' = Tail(batch)
  /\ UNCHANGED <<does, slot, made, db, maps, files>>

RecycleEnd ==
  /\ this # 0 /\ ~hp.aborted
  /\ hp' = free_var(db_destroy_anonymous_object(hp, this), this)
  /\ this' = 0
  /\ UNCHANGED <<does, slot, made, batch, db, maps, files>>

\* A dump is written, the server stops, and loads it again.
Restart ==
  /\ Looping
  /\ LET file == write_db_file(hp, Values)
         loaded == read_db_file(file)
     IN  /\ Needs(file) <= Cardinality(Address)
         /\ hp' = loaded.h
         /\ slot' = [s \in Slot |->
                       loaded.values[CHOOSE i \in DOMAIN SlotSeq : SlotSeq[i] = s]]
  /\ UNCHANGED <<does, made, batch, this, db, maps, files>>

-----------------------------------------------------------------------------
(* Loading hierarchies.                                                     *)

LoadHierarchies ==
  /\ does = "load" /\ db.how = "none"
  /\ \E file \in Files : db' = ng_validate_hierarchies(file)
  /\ UNCHANGED <<does, heap, maps, files>>

UpgradeHierarchies ==
  /\ does = "load" /\ db.how = "none"
  /\ \E file \in FilesV4 : db' = v4_validate_hierarchies(file.db, file.size)
  /\ UNCHANGED <<does, heap, maps, files>>

-----------------------------------------------------------------------------
(* Maps.  A map that only one variable holds is changed in place.           *)

Owned(v) == \A w \in MapVar \ {v} : var[w] # var[v]
Unused == CHOOSE i \in 1..2 : \A v \in MapVar : var[v] # i

\* What is to be changed, and where.
Writable(v) == IF Owned(v) THEN tree[var[v]] ELSE map_dup(tree[var[v]])
Store(v, t) ==
  LET i == IF Owned(v) THEN var[v] ELSE Unused
  IN  tree' = [tree EXCEPT ![i] = t] /\ var' = [var EXCEPT ![v] = i]
Without(f, keys) == [k \in DOMAIN f \ keys |-> f[k]]
MapsOnly == does = "maps" /\ UNCHANGED <<does, heap, db, files>>

\* v[key] = value
IndexSet(v, key, value) ==
  /\ MapsOnly /\ Store(v, mapinsert(Writable(v), key, value))
  /\ pairs' = [pairs EXCEPT ![v] = (key :> value) @@ @]

\* v = mapdelete(v, key), where key is there: otherwise E_RANGE is raised.
bf_mapdelete(v, key) ==
  /\ MapsOnly
  /\ Store(v, rberase(Writable(v), key).t)
  /\ pairs' = [pairs EXCEPT ![v] = Without(@, {key})]

\* v = v[from..to]
RangeRef(v, from, to) ==
  /\ MapsOnly /\ from < to
  /\ tree[var[v]].size <= MaxRanged
  /\ Store(v, maprange(tree[var[v]], from, to))
  /\ pairs' = [pairs EXCEPT ![v] = Without(@, {k \in DOMAIN @ : k < from \/ k > to})]

\* v[from..to] = [key -> value]
RangeSet(v, from, to, key, value) ==
  /\ MapsOnly /\ from <= to
  /\ tree[var[v]].size <= MaxRanged
  /\ Store(v, maprangeset(tree[var[v]], from, to, mapinsert(rbnew, key, value)))
  /\ LET before == Without(pairs[v], {k \in Key : k >= from})
         after == Without(pairs[v], {k \in Key : k <= to})
     IN  pairs' = [pairs EXCEPT ![v] = after @@ (key :> value) @@ before]

\* y = x, and x = []: a map that nobody holds any more is deleted.
Share ==
  /\ MapsOnly /\ Owned("x") /\ tree[var["x"]].size \in 1..MaxShared
  /\ var' = [var EXCEPT !["y"] = var["x"]]
  /\ tree' = [tree EXCEPT ![var["y"]] = rbnew]
  /\ pairs' = [pairs EXCEPT !["y"] = pairs["x"]]
Clear(v) ==
  /\ MapsOnly /\ Store(v, rbnew) /\ pairs' = [pairs EXCEPT ![v] = <<>>]

\* A dump and a load.
Reload(v) ==
  /\ MapsOnly /\ Owned(v) /\ Store(v, ReadMap(WriteMap(tree[var[v]]))) /\ UNCHANGED pairs

MapStep ==
  \/ \E pair \in Pairs : IndexSet("x", pair[1], pair[2])
  \/ \E key \in DOMAIN pairs["x"] : bf_mapdelete("x", key)
  \/ \E from, to \in DOMAIN pairs["x"] : RangeRef("x", from, to)
  \/ \E from, to \in DOMAIN pairs["x"], pair \in Pairs : RangeSet("x", from, to, pair[1], pair[2])
  \/ Share \/ (\E v \in MapVar : Clear(v)) \/ Reload("x")

HeapStep ==
  \/ \E s \in Slot : bf_create(s)
  \/ \E s \in Slot, v \in Sources \cup {0} : Copy(s, v)
  \/ \E s \in Slot, v \in Sources, w \in Sources \cup {0} : MakeList(s, v, w)
  \/ \E s \in Slot, i \in 1..2 : Index(s, i)
  \/ \E s \in Slot : listset(s, 1, 0)
  \/ \E s \in Slot, o \in UsableObjects : GetProp(s, o)
  \/ \E o \in UsableObjects, v \in Sources \cup {0} : PutProp(o, v)
  \/ \E o \in UsableObjects : bf_recycle(o) \/ RecycleAborted(o) \/ ParentGone(o)
  \/ \E o \in Objects : AskValid(o)
  \/ CollectGarbage \/ TakeQueue \/ RecycleStart \/ RecycleEnd \/ Restart

FileWork == does = "files" /\ FileStep /\ UNCHANGED <<does, heap, db, maps>>

Next == HeapStep \/ LoadHierarchies \/ UpgradeHierarchies \/ MapStep \/ FileWork
Spec == Init /\ [][Next]_vars

-----------------------------------------------------------------------------
(* Properties.                                                              *)

RECURSIVE Reached(_, _)
Reached(h, from) ==
  LET next == UNION {ToSet(h.node[v].kids) : v \in from} \ ({0} \cup from)
  IN  IF next = {} THEN from ELSE Reached(h, from \cup next)
Held == ({slot[s] : s \in Slot} \cup ToSet(batch) \cup {this}) \ {0}

\* Whatever tasks, the collector, recycle verbs and loads do in whatever order,
\* nobody holds a reference to memory that was freed, no count is below the
\* references held, and the buffer of roots has each buffered value once: a
\* count that is too low frees a value that is still used (complex_free_var,
\* mark_gray and the restoring scans of garbage.cc).
HeapSound ==
  ~hp.aborted =>
    /\ \A a \in Address : LET refs == References(a)
                          IN  /\ refs <= hp.node[a].count
                              /\ refs > 0 => hp.node[a].type \in {"anon", "list"}
    /\ IsInjective(hp.roots)
    /\ ToSet(hp.roots) = {a \in Address : hp.node[a].buffered}
    /\ \A v \in ToSet(hp.pending) : v \notin ToSet(batch)

\* A collection queues every anonymous object that is lost in a cycle, as long
\* as no count has leaked: no order of assignments, and no load of a dump, hides
\* a cycle from the buffer of roots, although a list enters it only after a
\* first collection has coloured it (gc_possible_root).
GarbageFound ==
  Looping /\ (\A a \in Address : hp.node[a].count = References(a)) =>
    LET after == gc_collect(hp)
        live == Reached(hp, Held \cup ToSet(hp.pending))
    IN  \A v \in Address \ live :
          hp.node[v].type = "anon" /\ hp.node[v].flags = {} /\ ~after.aborted =>
            v \in ToSet(after.pending)

\* A value and what it became in another heap, where f says what became of the
\* anonymous objects.
RECURSIVE SameValue(_, _, _, _, _)
SameValue(h, v, g, w, f) ==
  IF v = 0 \/ (h.node[v].type = "anon" /\ ~is_valid(h, v)) THEN w = 0
  ELSE IF h.node[v].type = "anon" THEN v \in DOMAIN f /\ w = f[v]
  ELSE /\ w # 0 /\ g.node[w].type = "list"
       /\ LET k == h.node[v].kids
              l == g.node[w].kids
          IN  Len(k) = Len(l) /\ \A i \in DOMAIN k : SameValue(h, k[i], g, l[i], f)

RECURSIVE Saved(_, _)
Saved(h, from) ==
  LET kept == {v \in from : h.node[v].type = "anon" => is_valid(h, v)}
      next == UNION {ToSet(h.node[v].kids) : v \in kept} \ ({0} \cup from)
  IN  IF next = {} THEN kept ELSE Saved(h, from \cup next)

\* A dump at any moment between two turns of main_loop, loaded again, gives the
\* same values: each valid object is there once with its flags, shared and in
\* cycles as it was, in variables, in properties, and in the queue of objects
\* that wait to be recycled (write_db_file and read_db_file number anonymous
\* objects as they meet them, in rounds).
DumpFaithful ==
  LET file == write_db_file(hp, Values)
      loaded == read_db_file(file)
      g == loaded.h
      saved == Saved(hp, (ToSet(Values) \cup ToSet(hp.pending)) \ {0})
      objects == {v \in saved : hp.node[v].type = "anon"}
      waiting == {v \in ToSet(hp.pending) : is_valid(hp, v)}
  IN  Looping /\ Needs(file) <= Cardinality(Address)
        /\ (\A v \in waiting : ~Has(hp, v, "recycled")) =>
        \E f \in Bijection(objects, {a \in Address : g.node[a].type = "anon"}) :
          /\ \A i \in DOMAIN Values : SameValue(hp, Values[i], g, loaded.values[i], f)
          /\ \A v \in objects :
               /\ g.node[f[v]].flags = hp.node[v].flags
               /\ \A i \in DOMAIN hp.node[v].kids :
                    SameValue(hp, hp.node[v].kids[i], g, g.node[f[v]].kids[i], f)
          /\ ToSet(g.pending) = {f[v] : v \in waiting} /\ IsInjective(g.pending)
          /\ ~g.aborted

\* Whatever the file says, hierarchies that a load accepts have links only to
\* objects that exist, both ways, and no cycles (ng_validate_hierarchies,
\* v4_validate_hierarchies and v4_upgrade_objects): everything that follows the
\* links afterwards relies on it and does not look.
LoadedSound ==
  db.how = "loaded" =>
    LET d == db.db
        Linked(up, down) ==
          \A o \in DOMAIN d :
            /\ \A x \in ToSet(d[o][up]) \ {NOTHING} :
                 x \in DOMAIN d /\ o \in ToSet(d[x][down])
            /\ \A x \in ToSet(d[o][down]) \ {NOTHING} :
                 x \in DOMAIN d /\ o \in ToSet(d[x][up])
        Grounded(up) ==
          \A S \in SUBSET DOMAIN d \ {{}} : \E o \in S : ToSet(d[o][up]) \cap S = {}
    IN  /\ Linked("parents", "children") /\ Linked("location", "contents")
        /\ Grounded("parents") /\ Grounded("location")

\* After any sequence of operations a variable has exactly the pairs put into
\* it, in the order of the keys, whether its map was shared or not; every key is
\* found and iteration goes on from it; the tree is a red-black tree and its
\* deletion frees every node once (rbinsert, rberase, rbseek, rbnext, rbdelete).
MapsAgree ==
  \A v \in MapVar :
    LET t == tree[var[v]]
        keys == SetToSortSeq(DOMAIN pairs[v], <)
        inOrder == [i \in DOMAIN keys |-> [key |-> keys[i], value |-> pairs[v][keys[i]]]]
    IN  /\ mapforeach(t) = inOrder
        /\ t.size = Len(keys) /\ Balanced(t)
        /\ mapfirst(t) = (IF keys = <<>> THEN NULL ELSE keys[1])
        /\ maplast(t) = (IF keys = <<>> THEN NULL ELSE Last(keys))
        /\ \A i \in DOMAIN keys :
             /\ maplookup(t, keys[i]) = pairs[v][keys[i]]
             /\ LET next == rbmove(t, rbseek(t, keys[i]), 1).it
                IN  next = IF i = Len(keys) THEN NULL ELSE keys[i + 1]
        /\ LET freed == rbdelete(t.node, t.root, <<>>)
           IN  IsInjective(freed) /\ ToSet(freed) = DOMAIN t.node

\* "Anonymous objects are ... garbage collected when they are no longer needed"
\* (ProgrammersManual.texinfo): a collection never queues an object that a
\* variable still reaches.
LiveKept ==
  LET after == gc_collect(hp)
  IN  Looping /\ ~after.aborted =>
        Reached(hp, Held) \cap (ToSet(after.pending) \ ToSet(hp.pending)) = {}
=============================================================================
