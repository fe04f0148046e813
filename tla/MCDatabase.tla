----------------------------- MODULE MCDatabase -----------------------------
(* Instances of Database for TLC. *)
EXTENDS Database, TLC

\* A lone object; three in a row; one below two; one below two of which one is
\* below the other.
MCShapes ==
  {[o \in {0} |-> <<>>]}
    \cup {(0 :> <<>>) @@ (1 :> <<0>>) @@ (2 :> <<1>>),
          (0 :> <<>>) @@ (1 :> <<>>) @@ (2 :> <<0, 1>>),
          (0 :> <<>>) @@ (1 :> <<0>>) @@ (2 :> <<1, 0>>)}

\* Properties or verbs, with objects that change, or that come and go; and
\* anonymous objects whose parents go.
MCWorkloads ==
  {{"chparents", "anonymous", "recycle"}} \cup
  {others \cup {kind} : others \in {{"chparents", "anonymous"}, {"create", "recycle"}},
                       kind \in {"properties", "verbs"}}

\* One object below two, of which one is below the other, and a fourth object.
Diamond == {(0 :> <<>>) @@ (1 :> <<>>) @@ (2 :> <<1>>) @@ (3 :> <<2, 1>>)}
Reparenting == {{"chparents", "properties"}}
=============================================================================
