------------------------------ MODULE Garbage ------------------------------
(* Reference counts (utils.cc, storage.h), the collector of cycles          *)
(* (garbage.cc) and the queue of anonymous objects that wait to be recycled *)
(* (server.cc).  A heap h has                                               *)
(*   node      for each address a value: an anonymous object, or a list     *)
(*             (a map is to the collector what a list is).  A list never    *)
(*             changes; an object has properties.  0 is any other value.    *)
(*   roots     the collector's buffer of possible roots                     *)
(*   pending   the queue of objects to be recycled, first to last           *)
(*   aborted   an assert() has failed                                       *)
(* A value that was freed while it is in the buffer keeps its memory        *)
(* (it is dead).  Values are walked recursively, so there is no theorem here.   *)
EXTENDS Integers, Sequences, FiniteSets, SequencesExt

CONSTANT Address            \* addresses that the allocator gives out, from 1
ASSUME GarbageAssumption == Address \subseteq Nat \ {0} /\ Address # {}

Free == [type |-> "free", count |-> 0, color |-> "none", buffered |-> FALSE,
         flags |-> {}, kids |-> <<>>]
NoHeap == [node |-> [a \in Address |-> Free], roots |-> <<>>, pending |-> <<>>,
           aborted |-> FALSE]

InUse(h) == {a \in Address : h.node[a].type # "free"}
Spare(h) == Address \ InUse(h)
NextAddress(h) == CHOOSE a \in Spare(h) : \A b \in Spare(h) : a <= b

mymalloc(h, a, type, kids) ==
  [h EXCEPT !.node[a] = [Free EXCEPT !.type = type, !.count = 1, !.kids = kids,
                                     !.color = IF type = "anon" THEN "black" ELSE "yellow"]]

Asserted(h, test) == IF test THEN h ELSE [h EXCEPT !.aborted = TRUE]
Has(h, v, flag) == flag \in h.node[v].flags
gc_set_color(h, v, color) == [h EXCEPT !.node[v].color = color]
addref(h, v) == [h EXCEPT !.node[v].count = @ + 1]
delref(h, v) == [h EXCEPT !.node[v].count = @ - 1]

-----------------------------------------------------------------------------
(* Counting.                                                                *)

var_ref(h, v) ==
  IF v = 0 THEN h
  ELSE IF h.node[v].type = "anon" THEN gc_set_color(addref(h, v), v, "black")
  ELSE addref(h, v)

\* Mutant: what is in the buffer already is left as it is.
RootOnce(h, v) ==
  IF h.node[v].color \in {"purple", "green", "yellow"} \/ h.node[v].buffered THEN h
  ELSE [h EXCEPT !.node[v].color = "purple", !.node[v].buffered = TRUE,
                 !.roots = Append(@, v)]
\* PossibleRoot of Bacon and Rajan.
gc_possible_root(h, v) ==
  IF h.node[v].color \in {"purple", "green", "yellow"} THEN h
  ELSE [h EXCEPT !.node[v].color = "purple", !.node[v].buffered = TRUE,
                 !.roots = IF h.node[v].buffered THEN @ ELSE Append(@, v)]

\* Mutant: the queue holds no reference.
QueueUncounted(h, v) == [h EXCEPT !.pending = <<v>> \o @]
queue_anonymous_object(h, v) ==
  LET sound == Asserted(h, /\ ~Has(h, v, "recycled") /\ ~Has(h, v, "invalid")
                         /\ v \notin ToSet(h.pending))
  IN  IF sound.aborted THEN sound
      ELSE [var_ref(h, v) EXCEPT !.pending = <<v>> \o @]

Dead(type) == IF type = "anon" THEN "dead object" ELSE "dead list"
\* myfree, or what is left to mark_roots if v is in the buffer.
Release(h, v) ==
  [h EXCEPT !.node[v] =
     IF @.buffered THEN [@ EXCEPT !.type = Dead(@), !.color = "black", !.kids = <<>>]
     ELSE Free]

RECURSIVE free_var(_, _)
\* destroy_list, and the values of db_destroy_anonymous_object.
FreeKids(h, v) ==
  FoldLeft(free_var, [h EXCEPT !.node[v].kids = <<>>], h.node[v].kids)

db_destroy_anonymous_object(h, v) ==
  LET emptied == FreeKids(h, v)
  IN  [emptied EXCEPT !.node[v].flags = @ \cup {"invalid"}]

\* complex_free_var: Decrement and Release of Bacon and Rajan.
free_var(h, v) ==
  IF v = 0 THEN h
  ELSE LET g == delref(h, v)
       IN  IF g.node[v].count > 0 THEN gc_possible_root(g, v)
           ELSE IF g.node[v].type # "anon" THEN Release(FreeKids(g, v), v)
           ELSE IF Has(g, v, "recycled") THEN Release(g, v)
           ELSE IF Has(g, v, "invalid")
           THEN Release(db_destroy_anonymous_object(g, v), v)
           ELSE queue_anonymous_object(g, v)

\* anon_valid: an object whose parent is gone is found out when it is asked for.
is_valid(h, v) == ~Has(h, v, "invalid") /\ ~Has(h, v, "orphan")
Tested(h, v) ==
  IF Has(h, v, "orphan") THEN [h EXCEPT !.node[v].flags = @ \cup {"invalid"}] ELSE h

-----------------------------------------------------------------------------
(* The collector.                                                           *)

\* for_all_children.
Children(h, v) == SelectSeq(h.node[v].kids, LAMBDA k : k # 0)

RECURSIVE mark_gray(_, _)
mark_gray(h, v) ==
  IF h.node[v].color = "gray" THEN h
  ELSE FoldLeft(LAMBDA g, k : mark_gray(delref(g, k), k),
                gc_set_color(h, v, "gray"), Children(h, v))

\* REMOVE_ROOT and gc_clear_buffered.
Unbuffer(h, v) ==
  [h EXCEPT !.roots = SelectSeq(@, LAMBDA r : r # v), !.node[v].buffered = FALSE]

aux_free(h, v) ==
  LET sound == Asserted(h, h.node[v].type = "dead object" => Has(h, v, "invalid"))
  IN  IF sound.aborted THEN sound ELSE [h EXCEPT !.node[v] = Free]

mark_roots(h) ==
  FoldLeft(LAMBDA g, v :
             IF g.aborted THEN g
             ELSE IF g.node[v].color = "purple" THEN mark_gray(g, v)
             ELSE IF g.node[v].color = "black" /\ g.node[v].count = 0
             THEN aux_free(Unbuffer(g, v), v)
             ELSE Unbuffer(g, v),
           h, h.roots)

RECURSIVE scan_black(_, _)
scan_black(h, v) ==
  FoldLeft(LAMBDA g, k : IF g.node[k].color = "black" THEN addref(g, k)
                         ELSE scan_black(addref(g, k), k),
           gc_set_color(h, v, "black"), Children(h, v))

RECURSIVE scan(_, _)
scan(h, v) ==
  IF h.node[v].color # "gray" THEN h
  ELSE IF h.node[v].count > 0 THEN scan_black(h, v)
  ELSE FoldLeft(scan, gc_set_color(h, v, "white"), Children(h, v))

scan_roots(h) == FoldLeft(scan, h, h.roots)

\* Not in Bacon and Rajan: the counts of the garbage are restored.
RECURSIVE scan_white(_, _)
scan_white(h, v) ==
  FoldLeft(LAMBDA g, k : IF g.node[k].color = "pink" THEN addref(g, k)
                         ELSE scan_white(addref(g, k), k),
           gc_set_color(h, v, "pink"), Children(h, v))

restore_white(h) ==
  FoldLeft(LAMBDA g, v : IF g.node[v].color = "white" THEN scan_white(g, v) ELSE g,
           h, h.roots)

RECURSIVE collect_white(_, _)
collect_white(h, v) ==
  IF h.aborted \/ h.node[v].color # "pink" \/ h.node[v].buffered THEN h
  ELSE LET below == FoldLeft(collect_white, gc_set_color(h, v, "black"), Children(h, v))
           sound == Asserted(below, h.node[v].type = "anon" => below.node[v].count # 0)
       IN  IF sound.aborted \/ h.node[v].type # "anon" THEN sound
           ELSE queue_anonymous_object(sound, v)

collect_roots(h) ==
  FoldLeft(LAMBDA g, v : collect_white(Unbuffer(g, v), v), h, h.roots)

gc_collect(h) ==
  IF h.roots = <<>> THEN h
  ELSE LET marked == mark_roots(h)
       IN  IF marked.aborted THEN marked
           ELSE collect_roots(restore_white(scan_roots(marked)))
=============================================================================
