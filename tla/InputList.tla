----------------------------- MODULE InputList -----------------------------
(***************************************************************************)
(* What a queue of input lines promises: lines leave in the order they     *)
(* came, or, when only lines of one kind are wanted, the first of that     *)
(* kind leaves and the others keep their order.                            *)
(***************************************************************************)
EXTENDS Sequences, SequencesExt

CONSTANTS Id, Kind

VARIABLES
  lines, \* the lines, first to leave first
  result \* what the last taker wanted, and the line it got (0 if none)

Ids == {lines[i].id : i \in DOMAIN lines}

Init == lines = <<>> /\ result = [wanted |-> Kind, id |-> 0]

Put(id, kind, at_front) ==
  /\ id \notin Ids
  /\ lines' = IF at_front THEN <<[id |-> id, kind |-> kind]>> \o lines
              ELSE Append(lines, [id |-> id, kind |-> kind])
  /\ UNCHANGED result

\* Takes the first line of a kind in wanted, if there is one.
Take(wanted) ==
  LET i == SelectInSeq(lines, LAMBDA line : line.kind \in wanted)
  IN  /\ lines' = IF i = 0 THEN lines ELSE RemoveAt(lines, i)
      /\ result' = [wanted |-> wanted, id |-> IF i = 0 THEN 0 ELSE lines[i].id]

Next ==
  \/ \E id \in Id, kind \in Kind, at_front \in BOOLEAN : Put(id, kind, at_front)
  \/ \E wanted \in {{kind} : kind \in Kind} \cup {Kind} : Take(wanted)

Spec == Init /\ [][Next]_<<lines, result>>
=============================================================================
