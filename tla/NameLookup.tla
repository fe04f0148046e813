----------------------------- MODULE NameLookup -----------------------------
(***************************************************************************)
(* name_lookup.cc: the server asks an intermediary process over a pair of  *)
(* pipes, and the intermediary a lookup process over another pair, which   *)
(* the intermediary starts again whenever it dies or times out.            *)
(*                                                                         *)
(* A pipe is the sequence of what has been written and not been read.  A   *)
(* request has a kind and a tag; an answer carries the tag of the request  *)
(* it answers.  The name of a host is sent as a length and then the name; *)
(* a name or an address the resolver does not know as a length of 0, with  *)
(* nothing after it, or as the address 0xffffffff.                         *)
(***************************************************************************)
EXTENDS Integers, Sequences, FiniteSets

CONSTANT Faults  \* what may go wrong: subset of {"slow", "killed", "nofork"}

VARIABLES
  server_end,  \* the server: dead_intermediary and the pipes to and from it
  middle,      \* the intermediary: what it does, lookup_pid, the request it serves
  slave,       \* the lookup process: what it does and its pipes
  faults       \* faults that may still happen, a bound

nlvars == <<server_end, middle, slave, faults>>

NoReq == [kind |-> "none", tag |-> 0]
Addr(tag) == [item |-> "addr", tag |-> tag]
Length(tag) == [item |-> "length", tag |-> tag]
Name(tag) == [item |-> "name", tag |-> tag]
Unknown(tag) == [item |-> "unknown", tag |-> tag]  \* the resolver found nothing
Nothing == [item |-> "zero", tag |-> 0]  \* the intermediary got no answer: 0

NewSlave == [at |-> "read", job |-> NoReq, to |-> <<>>, from |-> <<>>]
NoSlave == [NewSlave EXCEPT !.at = "dead"]

\* initialize_name_lookup, and the intermediary's first restart_lookup.
NameLookupInit ==
  /\ server_end = [dead |-> FALSE, to |-> <<>>, from |-> <<>>]
  /\ middle = [at |-> "read", pid |-> TRUE, job |-> NoReq]
  /\ slave = NewSlave

-----------------------------------------------------------------------------
(* The lookup process.                                                     *)

\* It reads a request and sets its timer before it calls the resolver.
LookupReads ==
  /\ slave.at = "read" /\ slave.to # <<>>
  /\ slave' = [slave EXCEPT !.at = "resolve", !.job = Head(slave.to), !.to = Tail(@)]
  /\ UNCHANGED <<server_end, middle, faults>>

\* The resolver returned in time: the address, the length of the name, or what
\* stands for nothing found.
Resolved(req, found) ==
  IF ~found THEN Unknown(req.tag) ELSE IF req.kind = "addr" THEN Addr(req.tag) ELSE Length(req.tag)
LookupAnswers(found) ==
  /\ slave.at = "resolve"
  /\ slave' = [slave EXCEPT !.at = IF found /\ slave.job.kind = "name" THEN "name" ELSE "read",
                            !.from = Append(@, Resolved(slave.job, found))]
  /\ UNCHANGED <<server_end, middle, faults>>

LookupWritesName ==
  /\ slave.at = "name"
  /\ slave' = [slave EXCEPT !.at = "read", !.from = Append(@, Name(slave.job.tag))]
  /\ UNCHANGED <<server_end, middle, faults>>

\* timeout_proc: the resolver took too long and the process exits.
LookupTimesOut ==
  /\ "slow" \in Faults /\ faults > 0
  /\ slave.at = "resolve"
  /\ slave' = [slave EXCEPT !.at = "dead"]
  /\ faults' = faults - 1
  /\ UNCHANGED <<server_end, middle>>

\* Something kills the process.
LookupKilled ==
  /\ "killed" \in Faults /\ faults > 0
  /\ slave.at # "dead"
  /\ slave' = [slave EXCEPT !.at = "dead"]
  /\ faults' = faults - 1
  /\ UNCHANGED <<server_end, middle>>

-----------------------------------------------------------------------------
(* The intermediary.                                                       *)

\* A restart with the pipes of the process before: what a wrong version does.
restart_lookup_on_old_pipes(s, spawned) ==
  IF spawned THEN [s EXCEPT !.at = "read"] ELSE NoSlave
\* spawn_pipe makes new pipes, and may fail.
restart_lookup(s, spawned) == IF spawned THEN NewSlave ELSE NoSlave
Spawned == {TRUE} \cup IF "nofork" \in Faults /\ faults > 0 THEN {FALSE} ELSE {}
UseFault(spawned) == faults' = IF spawned THEN faults ELSE faults - 1

Reply(item) == server_end' = [server_end EXCEPT !.from = Append(@, item)]

\* It reads a request and passes it on.  Writing to a dead process fails
\* unnoticed (SIGPIPE is ignored); the read that follows sees the end.
IntermediaryReads(spawned) ==
  /\ middle.at = "read" /\ server_end.to # <<>>
  /\ spawned \in IF middle.pid THEN {TRUE} ELSE Spawned
  /\ LET req == Head(server_end.to)
         s == IF middle.pid THEN slave ELSE restart_lookup(slave, spawned)
     IN  IF spawned
         THEN /\ middle' = [at |-> "wait", pid |-> TRUE, job |-> req]
              /\ slave' = IF s.at = "dead" THEN s ELSE [s EXCEPT !.to = Append(@, req)]
              /\ server_end' = [server_end EXCEPT !.to = Tail(@)]
         ELSE /\ server_end' = [server_end EXCEPT !.to = Tail(@), !.from = Append(@, Nothing)]
              /\ UNCHANGED <<middle, slave>>
  /\ UseFault(spawned)

\* The address, or the length of the name, comes back.  A length of 0 goes to the
\* server as it is, for no name follows it.
IntermediaryForwards ==
  /\ middle.at = "wait" /\ slave.from # <<>>
  /\ slave' = [slave EXCEPT !.from = Tail(@)]
  /\ IF middle.job.kind = "addr" \/ Head(slave.from).item = "unknown"
     THEN Reply(Head(slave.from)) /\ middle' = [middle EXCEPT !.at = "read"]
     ELSE middle' = [middle EXCEPT !.at = "name"] /\ UNCHANGED server_end
  /\ UNCHANGED faults

\* The name: it goes to the server as a length and then the name, too.
IntermediaryForwardsLength ==
  /\ middle.at = "name" /\ slave.from # <<>>
  /\ slave' = [slave EXCEPT !.from = Tail(@)]
  /\ Reply(Length(Head(slave.from).tag))
  /\ middle' = [middle EXCEPT !.at = "send", !.job.tag = Head(slave.from).tag]
  /\ UNCHANGED faults

IntermediaryForwardsName ==
  /\ middle.at = "send"
  /\ Reply(Name(middle.job.tag))
  /\ middle' = [middle EXCEPT !.at = "read"]
  /\ UNCHANGED <<slave, faults>>

\* End of file from the lookup process: start another and report failure.
IntermediarySeesDeath(spawned) ==
  /\ middle.at \in {"wait", "name"} /\ slave.at = "dead" /\ slave.from = <<>>
  /\ spawned \in Spawned
  /\ slave' = restart_lookup(slave, spawned)
  /\ middle' = [middle EXCEPT !.at = "read", !.pid = spawned]
  /\ Reply(Nothing)
  /\ UseFault(spawned)

IntermediaryKilled ==
  /\ "killed" \in Faults /\ faults > 0
  /\ middle.at # "dead"
  /\ middle' = [middle EXCEPT !.at = "dead"]
  /\ faults' = faults - 1
  /\ UNCHANGED <<server_end, slave>>

HelperStep ==
  \/ LookupReads \/ LookupWritesName \/ \E found \in BOOLEAN : LookupAnswers(found)
  \/ \E spawned \in BOOLEAN : IntermediaryReads(spawned) \/ IntermediarySeesDeath(spawned)
  \/ IntermediaryForwards \/ IntermediaryForwardsLength \/ IntermediaryForwardsName
HelperFault == LookupTimesOut \/ LookupKilled \/ IntermediaryKilled

-----------------------------------------------------------------------------
(* The server.  An asking server waits for the answer and does nothing     *)
(* else; the outcome is the tag of the request that was answered, or 0 for *)
(* no answer.  Without one, or with one that nothing was found, a name     *)
(* falls back on the dotted address and an address fails.                  *)

abandon_intermediary == [server_end EXCEPT !.dead = TRUE, !.to = <<>>, !.from = <<>>]

\* The request is written, unless the intermediary is known to be dead.
Ask(kind, tag) ==
  /\ server_end' = IF server_end.dead THEN server_end
                   ELSE IF middle.at = "dead" THEN abandon_intermediary
                   ELSE [server_end EXCEPT !.to = Append(@, [kind |-> kind, tag |-> tag])]
  /\ UNCHANGED <<middle, slave, faults>>

\* lookup_name_from_addr and lookup_addr_from_name: the server reads an address
\* or a length, and after a length the name.  The end of the pipe, at once or in
\* between, makes it give the intermediary up.
HasName(kind) == kind = "name" /\ Head(server_end.from).item = "length"
Complete(kind) == server_end.from # <<>> /\ (HasName(kind) => Len(server_end.from) > 1)
AnswerReady(kind) == server_end.dead \/ middle.at = "dead" \/ Complete(kind)
Answered(kind) == IF server_end.dead \/ ~Complete(kind) THEN 0 ELSE Head(server_end.from).tag
Found(kind) == ~server_end.dead /\ Complete(kind) /\ Head(server_end.from).item \in {"addr", "length"}
TakeAnswer(kind) ==
  /\ AnswerReady(kind)
  /\ server_end' =
       IF server_end.dead THEN server_end
       ELSE IF ~Complete(kind) THEN abandon_intermediary
       ELSE [server_end EXCEPT !.from = SubSeq(@, IF HasName(kind) THEN 3 ELSE 2, Len(@))]
  /\ UNCHANGED <<middle, slave, faults>>
=============================================================================
