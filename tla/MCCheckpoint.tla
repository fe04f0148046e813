---------------------------- MODULE MCCheckpoint ----------------------------
(* Instances of Checkpoint for TLC. *)
EXTENDS Checkpoint

\* Three dumpers of one run and every fault; dumpers of two runs, one of which may
\* outlive its run; dumpers of three runs on one temporary name.
MCScopes ==
  { [runs |-> 2, gens |-> <<3, 0, 0, 0>>, faults |-> AllFaults],
    [runs |-> 3, gens |-> <<2, 1, 0, 0>>, faults |-> {"write", "flush", "rename", "kill"}],
    [runs |-> 4, gens |-> <<1, 1, 1, 0>>, faults |-> {"kill"}] }

\* One checkpoint and the final dump, and nothing fails.
NoFaults == { [runs |-> 1, gens |-> <<2>>, faults |-> {}] }
=============================================================================
