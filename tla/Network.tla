------------------------------ MODULE Network ------------------------------
(***************************************************************************)
(* net_multi.cc: the network handle of a connection, its output queue and  *)
(* its input buffer, as operators on a record n.  The other end of the     *)
(* socket is part of the record: bytes under way, whether the client hung  *)
(* up, and what it received.                                               *)
(*                                                                         *)
(* A line of output is its number; it takes LineLength units of the queue, *)
(* and the notice about lost lines takes NoticeLength.  room is how much   *)
(* the socket takes before write() would block.                            *)
(***************************************************************************)
EXTENDS Integers, Sequences, FiniteSets, SequencesExt

CONSTANTS MAX_QUEUED_OUTPUT, LineLength, NoticeLength

ASSUME NetworkAssumption ==
  {MAX_QUEUED_OUTPUT, LineLength, NoticeLength} \subseteq Nat \ {0}

\* new_nhandle; sent to last are the client's side and the history.
new_nhandle ==
  [input |-> <<>>, last_input_was_CR |-> FALSE, input_suspended |-> FALSE,
   output |-> <<>>, output_lines_flushed |-> 0, binary |-> FALSE,
   sent |-> 0, wire |-> <<>>, hungup |-> FALSE, got |-> <<>>, lost |-> 0,
   read |-> <<>>, lines |-> <<>>]

Block(line) == [line |-> line, length |-> LineLength]
\* Lengths(blocks)[k]: the length of the first k blocks.
Lengths(blocks) ==
  LET sum[k \in 0..Len(blocks)] == IF k = 0 THEN 0 ELSE sum[k - 1] + blocks[k].length
  IN  sum
output_length(n) == Lengths(n.output)[Len(n.output)]

-----------------------------------------------------------------------------
(* Output.                                                                 *)

\* The blocks that fit are written; what is left of the room goes into the
\* next one, which stays in the queue with the rest.
WriteBlocks(n, room) ==
  LET length == Lengths(n.output)
      fits == {k \in 0..Len(n.output) : length[k] <= room}
      k == CHOOSE i \in fits : \A j \in fits : j <= i
      rest == SubSeq(n.output, k + 1, Len(n.output))
      over == room - length[k]
  IN  [n EXCEPT !.got = @ \o [i \in 1..k |-> n.output[i].line],
                !.output = IF rest = <<>> THEN rest
                           ELSE <<[rest[1] EXCEPT !.length = @ - over]>> \o Tail(rest)]

\* A version that forgets the count although the notice did not go out whole.
push_output_forgets(n, room) ==
  IF n.hungup /\ (n.output_lines_flushed > 0 \/ n.output # <<>>) THEN [n |-> n, ok |-> FALSE]
  ELSE IF n.output_lines_flushed > 0
  THEN [n |-> WriteBlocks([n EXCEPT !.output_lines_flushed = 0,
                                    !.lost = IF room >= NoticeLength THEN @ + n.output_lines_flushed ELSE @],
                          IF room > NoticeLength THEN room - NoticeLength ELSE 0),
        ok |-> TRUE]
  ELSE [n |-> WriteBlocks(n, room), ok |-> TRUE]

\* The notice about lost lines goes first; nothing follows it until it has been
\* written whole.  A client that hung up makes write() fail.
push_output(n, room) ==
  IF n.hungup /\ (n.output_lines_flushed > 0 \/ n.output # <<>>) THEN [n |-> n, ok |-> FALSE]
  ELSE IF n.output_lines_flushed = 0 THEN [n |-> WriteBlocks(n, room), ok |-> TRUE]
  ELSE IF room < NoticeLength THEN [n |-> n, ok |-> TRUE]
  ELSE [n |-> WriteBlocks([n EXCEPT !.output_lines_flushed = 0,
                                    !.lost = @ + n.output_lines_flushed],
                          room - NoticeLength),
        ok |-> TRUE]

\* Whole blocks are dropped from the front until the new line fits.
Flushed(n) ==
  LET enough == {k \in 0..Len(n.output) :
                   output_length(n) - Lengths(n.output)[k] + LineLength <= MAX_QUEUED_OUTPUT
                   \/ k = Len(n.output)}
      k == CHOOSE i \in enough : \A j \in enough : i <= j
  IN  [n EXCEPT !.output = SubSeq(@, k + 1, Len(@)), !.output_lines_flushed = @ + k]

\* network_send_line, network_send_bytes, network_set_client_echo: the line is
\* queued, unless that would cost a line already queued and flush_ok is false.
enqueue_output(n, flush_ok, room) ==
  LET full(m) == output_length(m) + LineLength > MAX_QUEUED_OUTPUT
      pushed == IF n.output # <<>> /\ full(n) THEN push_output(n, room).n ELSE n
      must == n.output # <<>> /\ full(n) /\ full(pushed)
      m == IF must THEN Flushed(pushed) ELSE pushed
  IN  IF must /\ ~flush_ok THEN [n |-> pushed, ok |-> FALSE]
      ELSE [n |-> [m EXCEPT !.output = Append(@, Block(n.sent + 1)), !.sent = @ + 1], ok |-> TRUE]

-----------------------------------------------------------------------------
(* Input.                                                                  *)

\* One byte in line mode: "x" stands for the characters that are kept, "BS" for
\* backspace and delete (stream_delete_char), "ctl" for the characters that are
\* ignored, and are still what a line feed after them finds before it.
Kept(input, c) == IF c = "BS" THEN SubSeq(input, 1, Len(input) - 1) ELSE Append(input, c)
\* A version that looks only at the bytes of one read().
TakeByteAlone(n, c) ==
  LET kept == IF c \in {"x", "BS"} THEN [n EXCEPT !.input = Kept(@, c)]
              ELSE IF c \in {"CR", "LF"}
                   THEN [n EXCEPT !.lines = Append(@, n.input), !.input = <<>>]
                   ELSE n
  IN  [kept EXCEPT !.last_input_was_CR = FALSE]
TakeByte(n, c) ==
  LET kept == IF c \in {"x", "BS"} THEN [n EXCEPT !.input = Kept(@, c)]
              ELSE IF c = "CR" \/ (c = "LF" /\ ~n.last_input_was_CR)
                   THEN [n EXCEPT !.lines = Append(@, n.input), !.input = <<>>]
                   ELSE n
  IN  [kept EXCEPT !.last_input_was_CR = (c = "CR")]

\* A byte as the history keeps it; "END" marks the end of a read() in binary mode.
Seen(c, binary) == [c |-> c, binary |-> binary]

\* read() returns all the bytes there are; at the end of file, or when the
\* client is gone, the connection is to be closed.
pull_input(n) ==
  IF n.wire = <<>> THEN [n |-> n, ok |-> ~n.hungup]
  ELSE LET seen == [n EXCEPT !.wire = <<>>,
                             !.read = @ \o [i \in DOMAIN n.wire |-> Seen(n.wire[i], n.binary)]
                                        \o IF n.binary THEN <<Seen("END", TRUE)>> ELSE <<>>]
           taken[i \in 0..Len(n.wire)] ==
             IF i = 0 THEN seen ELSE TakeByte(taken[i - 1], n.wire[i])
       IN  [n |-> IF n.binary
                  THEN [seen EXCEPT !.lines = Append(@, n.input \o n.wire), !.input = <<>>,
                                    !.last_input_was_CR = FALSE]
                  ELSE taken[Len(n.wire)],
            ok |-> TRUE]

-----------------------------------------------------------------------------
(* What the two directions promise.                                        *)

\* The client is told of every line it does not get: lines arrive in order,
\* those neither received nor queued are counted, and whoever has a line has
\* been told of all the lines missing before it.
LossTold(n) ==
  LET queued == {n.output[i].line : i \in DOMAIN n.output}
      has == ToSet(n.got)
  IN  /\ \A i, j \in DOMAIN n.got : i < j => n.got[i] < n.got[j]
      /\ \A g \in has, q \in queued : g < q
      /\ Cardinality((1..n.sent) \ (has \cup queued)) = n.lost + n.output_lines_flushed
      /\ \A g \in has : Cardinality((1..g) \ has) <= n.lost
      /\ Len(n.output) > 1 => output_length(n) <= MAX_QUEUED_OUTPUT

\* The lines the server gets are those of the bytes the client sent, however
\* read() cut them: a line ends at CR, LF or CR LF, or with a binary read().
EndsLine(read, i) ==
  \/ read[i].c = "END"
  \/ ~read[i].binary /\ read[i].c = "CR"
  \/ ~read[i].binary /\ read[i].c = "LF" /\ ~(i > 1 /\ read[i - 1] = Seen("CR", FALSE))
LineEnds(read) ==
  LET ends[i \in 0..Len(read)] ==
        IF i = 0 THEN <<>> ELSE IF EndsLine(read, i) THEN Append(ends[i - 1], i) ELSE ends[i - 1]
  IN  ends[Len(read)]
\* The text with one byte more.
WithByte(text, e) ==
  IF e.binary /\ e.c # "END" THEN Append(text, e.c)
  ELSE IF ~e.binary /\ e.c \in {"x", "BS"} THEN Kept(text, e.c) ELSE text
\* The text of the bytes after the first a, up to the b-th.
Content(read, a, b) ==
  LET text[i \in 0..b] == IF i <= a THEN <<>> ELSE WithByte(text[i - 1], read[i])
  IN  text[b]
Framed(n) ==
  LET ends == LineEnds(n.read)
      before(i) == IF i = 1 THEN 0 ELSE ends[i - 1]
  IN  /\ n.lines = [i \in DOMAIN ends |-> Content(n.read, before(i), ends[i])]
      /\ n.input = Content(n.read, before(Len(ends) + 1), Len(n.read))
=============================================================================
