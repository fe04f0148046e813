------------------------------- MODULE Verbs -------------------------------
(***************************************************************************)
(* The verbs of objects and the verb cache (db_verbs.cc), as operators on  *)
(* a database d.  A verb has a set of names, the x permission and an       *)
(* owner; its code and the arguments it takes as a command are left out.   *)
(* The cache is kept in d.cache: an entry says what a search for a verb    *)
(* from an object found, or that it found nothing.  An object's key is     *)
(* its address: Anon stands for the address that anonymous objects use     *)
(* one after the other.                                                    *)
(***************************************************************************)
EXTENDS Properties

NoVerb == [definer |-> NOTHING, index |-> 0]
Handle(o, i) == [definer |-> o, index |-> i]
Entry(o, verb, h) == [object |-> o, verb |-> verb, h |-> h]

\* find_verbdef_by_name with check_x_bit: the first one that matches; 0 if none.
find_verbdef_by_name(d, o, verb) ==
  LET v == d.obj[o].verbdefs
      match == {i \in 1..Len(v) : verb \in v[i].names /\ v[i].exec}
  IN  IF match = {} THEN 0 ELSE CHOOSE i \in match : \A j \in match : i <= j

\* find_callable_verbdef: the search without the cache.
RECURSIVE find_callable_verbdef(_, _, _)
find_callable_verbdef(d, stack, verb) ==
  IF stack = <<>> THEN NoVerb
  ELSE LET o == Head(stack)
       IN  IF o \notin d.live THEN find_callable_verbdef(d, Tail(stack), verb)
           ELSE IF find_verbdef_by_name(d, o, verb) # 0
                THEN Handle(o, find_verbdef_by_name(d, o, verb))
                ELSE find_callable_verbdef(d, d.obj[o].parents \o Tail(stack), verb)

\* db_find_callable_verb, from a stack of objects: what it finds, and the cache
\* afterwards.  Objects without verbs are no keys.
RECURSIVE db_find_callable_verb(_, _, _)
db_find_callable_verb(d, stack, verb) ==
  IF stack = <<>> THEN [h |-> NoVerb, cache |-> d.cache]
  ELSE
  LET o == Head(stack)
      hits == {e \in d.cache : e.object = o /\ e.verb = verb}
      h == IF hits # {} THEN (CHOOSE e \in hits : TRUE).h
           ELSE find_callable_verbdef(d, <<o>>, verb)
      known == [d EXCEPT !.cache = @ \cup {Entry(o, verb, h)}]
  IN  IF ~is_valid(d, o) THEN db_find_callable_verb(d, Tail(stack), verb)
      ELSE IF d.obj[o].verbdefs = <<>>
      THEN db_find_callable_verb(d, d.obj[o].parents \o Tail(stack), verb)
      ELSE IF h # NoVerb THEN [h |-> h, cache |-> known.cache]
      ELSE db_find_callable_verb(known, Tail(stack), verb)

\* db_priv_affected_callable_verb_lookup
ClearCache(d) == [d EXCEPT !.cache = {}]

db_add_verb(d, o, verb) ==
  ClearCache([d EXCEPT !.obj[o].verbdefs = Append(@, verb)])

db_delete_verb(d, o, i) ==
  ClearCache([d EXCEPT !.obj[o].verbdefs = RemoveAt(@, i)])

\* db_set_verb_owner, db_set_verb_flags and db_set_verb_names
db_set_verb(d, o, i, verb) ==
  ClearCache([d EXCEPT !.obj[o].verbdefs[i] = verb])

\* Mutant: an object that has children but no verbs is thought to be no part
\* of any search.
no_verbs(d, o, anon_kids) == d.obj[o].verbdefs = <<>>

\* When db_change_parents leaves the cache alone: nothing in it came by o.
NotSearched(d, o, anon_kids) ==
  /\ d.obj[o].verbdefs = <<>>
  /\ d.obj[o].children = <<>> /\ anon_kids = <<>>
=============================================================================
