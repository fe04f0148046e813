----------------------------- MODULE MCObjects -----------------------------
(* Instances of Objects for TLC. *)
EXTENDS Objects, TLC

\* Everything on three objects; and four objects, enough for a list of parents
\* that names one twice and a free number below the object or its parent.
Everything ==
  [last |-> 2, calls |-> {"create", "anonymous", "chparents", "move", "recycle",
                          "abort", "renumber", "reset_max_object"}]
Numbers == [last |-> 3, calls |-> {"create", "recycle", "renumber", "reset_max_object"}]
MCWorkloads == {Everything, Numbers}

\* Tasks are interchangeable.
TaskSymmetry == Permutations(Task)
=============================================================================
