----------------------------- MODULE InputQueue -----------------------------
(***************************************************************************)
(* The input of a tqueue in tasks.cc, pointer by pointer: a list of tasks  *)
(* linked by next, whose runs of out-of-band lines and of other lines end  *)
(* in tasks linked by next_itail, so that the first line of the other kind *)
(* is found without a search.                                              *)
(* A task is a number; 0 is the tqueue.  next[0] is first_input and        *)
(* itail[0] is first_itail, so that the address of any of these fields is  *)
(* a number, too: last_input = n stands for &(n->next).                    *)
(***************************************************************************)
EXTENDS Integers, FiniteSets, FiniteSetsExt, SequencesExt

CONSTANT N  \* bound: tasks queued at a time

ASSUME NAssumption == N \in Nat \ {0}

VARIABLES
  kind,       \* "OOB", "INBAND", or "FREE": not allocated
  next,       \* next; first_input
  itail,      \* next_itail; first_itail
  last_input, \* whose next field last_input points to
  last_itail, \* whose next_itail field last_itail points to
  result      \* the last call of dequeue_input_task and what it returned

vars == <<kind, next, itail, last_input, last_itail, result>>

Node == 1..N
Kinds == {"OOB", "INBAND"}
NULL == 0
Wanted(how) == IF how = "FIRST" THEN Kinds ELSE {how}

Init ==
  /\ kind = [n \in Node |-> "FREE"]
  /\ next = [n \in 0..N |-> NULL]
  /\ itail = [n \in 0..N |-> NULL]
  /\ last_input = 0 /\ last_itail = 0
  /\ result = [wanted |-> Kinds, id |-> NULL]

-----------------------------------------------------------------------------
(* enqueue_input_task                                                      *)

\* mymalloc; which of the free tasks it gives does not matter.
Fresh(t) == kind[t] = "FREE" /\ \A n \in Node : kind[n] = "FREE" => t <= n

\* Mutant: a new first run is not threaded.
EnqueueFront_unthreaded(t, k) ==
  /\ next[0] # NULL /\ Fresh(t)
  /\ kind' = [kind EXCEPT ![t] = k]
  /\ next' = [next EXCEPT ![t] = next[0], ![0] = t]
  /\ itail' = [itail EXCEPT ![t] = NULL]
  /\ UNCHANGED <<last_input, last_itail, result>>

\* at_front, and something is there.
EnqueueFront(t, k) ==
  /\ next[0] # NULL /\ Fresh(t)
  /\ kind' = [kind EXCEPT ![t] = k]
  /\ next' = [next EXCEPT ![t] = next[0], ![0] = t]
  /\ IF kind[next[0]] # k
     THEN /\ itail' = [itail EXCEPT ![t] = itail[0], ![0] = t]
          /\ last_itail' = IF last_itail = 0 THEN t ELSE last_itail
     ELSE /\ itail' = [itail EXCEPT ![t] = NULL]
          /\ UNCHANGED last_itail
  /\ UNCHANGED <<last_input, result>>

\* At the back.
EnqueueBack(t, k) ==
  /\ Fresh(t)
  /\ kind' = [kind EXCEPT ![t] = k]
  /\ LET slot == IF next[0] # NULL /\ kind[itail[last_itail]] # k
                 THEN itail[last_itail] ELSE last_itail
     IN  /\ itail' = [itail EXCEPT ![t] = NULL, ![slot] = t]
         /\ last_itail' = slot
  /\ next' = [next EXCEPT ![last_input] = t, ![t] = NULL]
  /\ last_input' = t
  /\ UNCHANGED result

-----------------------------------------------------------------------------
(* dequeue_input_task                                                      *)

\* Unlink the task t that pt leads to, and free it.  The end of a run of one
\* leaves the itail queue; the runs on its two sides become one.  pitail is the
\* itail slot of what pt is the next slot of.
Unlink(t, pt) ==
  /\ next' = [next EXCEPT ![pt] = next[t], ![t] = NULL]
  /\ last_input' = IF next[t] = NULL THEN pt ELSE last_input
  /\ IF t = itail[pt]
     THEN LET cut == [itail EXCEPT ![pt] = NULL]
          IN  /\ itail' = IF itail[t] = NULL THEN cut
                          ELSE [cut EXCEPT ![0] = itail[t], ![t] = NULL]
              /\ last_itail' = IF itail'[last_itail] = NULL THEN 0 ELSE last_itail
     ELSE UNCHANGED <<itail, last_itail>>
  /\ kind' = [kind EXCEPT ![t] = "FREE"]

\* Mutant: never looks behind the first run.
FirstSlot(how) == 0

\* Where the first task that is wanted hangs: behind the first run, if that is
\* of the other kind.
SlotOf(how) ==
  IF how # "FIRST" /\ next[0] # NULL /\ kind[next[0]] # how THEN itail[0] ELSE 0

\* DQ_OOB, DQ_INBAND and DQ_FIRST; disable_oob turns the last two into DQ_FIRST
\* and the first into nothing.
Dequeue(how) ==
  LET pt == SlotOf(how)
      t == next[pt]
  IN  /\ result' = [wanted |-> Wanted(how), id |-> t]
      /\ \/ t = NULL /\ UNCHANGED <<kind, next, itail, last_input, last_itail>>
         \/ t # NULL /\ Unlink(t, pt)

Next ==
  \/ \E t \in Node, k \in Kinds : EnqueueFront(t, k) \/ EnqueueBack(t, k)
  \/ \E how \in Kinds \cup {"FIRST"} : Dequeue(how)

Spec == Init /\ [][Next]_vars

-----------------------------------------------------------------------------
(* Properties.                                                             *)

\* The tasks that the pointers in links lead to from the tqueue, first to last.
Chain(links) ==
  LET at[i \in 0..N] == IF i = 0 THEN links[0]
                        ELSE IF at[i - 1] = NULL THEN NULL ELSE links[at[i - 1]]
  IN  [i \in 1..Cardinality({j \in 0..N : at[j] # NULL}) |-> at[i - 1]]

Input == Chain(next)

\* "The input queue alternates between contiguous sequences of TASK_OOBs and
\* sequences of non-TASK_OOBs; the `itail queue' is the queue of all
\* sequence-ending tasks": their places in the input.
RunEnds ==
  LET input == Input
  IN  {i \in DOMAIN input : i = Len(input) \/ kind[input[i + 1]] # kind[input[i]]}

\* The test with which the disable-oob option decides that there is an
\* out-of-band line to handle (tasks.cc, TASK_CO_TABLE).
HasOob ==
  next[0] # NULL /\ (next[itail[0]] # NULL \/ kind[next[0]] = "OOB")

\* The pointers agree, whatever was forced to the front and taken from the
\* middle before: the input list holds exactly the tasks that are queued, once
\* each, and last_input is the address of the null that ends it; the itail queue
\* is that of all sequence-ending tasks, and "last_itail points to the
\* penultimate .next_itail pointer slot", so that enqueueing goes on at the right
\* end and no pointer is into a task that was freed.  The disable-oob option can
\* tell from them whether an out-of-band line waits.
ListSound ==
  LET input == Input
      ends == RunEnds
      EndAfter(i) == LET later == {e \in ends : e > i}
                     IN  IF later = {} THEN NULL ELSE input[Min(later)]
      before == ends \ {Len(input)}
  IN  /\ {n \in Node : kind[n] # "FREE"} = ToSet(input)
      /\ IsInjective(input)
      /\ last_input = IF input = <<>> THEN 0 ELSE Last(input)
      /\ itail[0] = EndAfter(0)
      /\ \A i \in DOMAIN input :
           itail[input[i]] = IF i \in ends THEN EndAfter(i) ELSE NULL
      /\ last_itail = IF before = {} THEN 0 ELSE input[Max(before)]
      /\ HasOob <=> \E n \in Node : kind[n] = "OOB"

\* The list the pointers stand for.
Lines ==
  LET input == Input
  IN  [i \in DOMAIN input |-> [id |-> input[i], kind |-> kind[input[i]]]]

Abstract == INSTANCE InputList
  WITH Id <- Node, Kind <- Kinds, lines <- Lines
\* The pointers implement the list: whoever wants a task gets the first of the
\* kind wanted, nothing only if there is none, and the others stay in order.
ImplementsList == Abstract!Spec
=============================================================================
