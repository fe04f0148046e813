--------------------------- MODULE MCConnections ---------------------------
EXTENDS Connections

\* What happens in a behaviour: output, input, logins that time out or are
\* booted, redirections over two listeners, crashes, outbound connections.
Work ==
  { {"output", "notify", "alone", "hangup", "login"},
    {"send", "binary", "alone"},
    {"login", "timeout", "hangup", "boot"},
    {"login", "hangup", "switch", "recycle"},
    {"login", "listen", "boot"},
    {"login", "boot", "dump", "crash", "shutdown"},
    {"open", "cpu"},
    {"open", "faults"} }
=============================================================================
