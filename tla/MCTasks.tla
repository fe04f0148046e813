------------------------------ MODULE MCTasks ------------------------------
(* Instances of Tasks for TLC. *)
EXTENDS Tasks

Work(calls, users, conns, ids, n, delays) ==
  [calls |-> calls, users |-> users, conns |-> conns, ids |-> ids, lines |-> n,
   delays |-> delays]

Background ==
  Work({"server_task", "fork", "suspend", "resume", "kill", "restart"},
       {"u1", "u2"}, {}, {1, 2, 3}, 0, {-1, 0, 1})
Forced ==
  Work({"server_task", "fork", "force_input"}, {"u1", "u2"}, {}, {1, 2, 3}, 2, {0, 1})
Programmers == {Background, Forced}

Reading ==
  Work({"read", "read_http", "read_now", "force_input", "kill", "close", "exec"},
       {"u1"}, {"c1"}, {1, 2}, 3, {0})
Holding ==
  Work({"read", "hold_input", "disable_oob", "force_input", "flush", "close"},
       {"u1"}, {"c1"}, {1, 2}, 3, {0})
Players ==
  Work({"fork", "switch_player", "close", "kill"}, {"u1", "u2"}, {"c1", "c2"}, {1, 2, 3}, 0, {0})
Clients == {Reading, Holding, Players}
NoLimit == -1
=============================================================================
