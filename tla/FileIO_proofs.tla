--------------------------- MODULE FileIO_proofs ---------------------------
(* No C stream leaks and none is shared: what FilesSound says of the table   *)
(* of handles and the streams behind it holds whatever files are opened,     *)
(* however calls fail, and however many handles there are.                   *)
EXTENDS FileIO, Lemmas

-----------------------------------------------------------------------------
(* Streams.                                                                  *)

Fields == {"open", "at", "data", "saved", "pos", "reads", "writes", "appends", "eof"}
IsStream(f) == f = [k \in Fields |-> f[k]] /\ f.open \in BOOLEAN

\* What reading, moving and flushing may do with a stream.
Moved(f, g) ==
  IsStream(g) /\ g.open = f.open /\ g.data = f.data /\ (g.saved = f.saved \/ g.saved = f.data)

LEMMA Flushing ==
  ASSUME NEW f, IsStream(f)
  PROVE  Moved(f, fflush(f)) /\ fflush(f).saved = f.data
  BY DEF IsStream, Moved, fflush, Fields

LEMMA Seeking ==
  ASSUME NEW f, IsStream(f), NEW pos
  PROVE  Moved(f, fseek(f, pos))
  <1>1. PICK g : g = fflush(f)
    OBVIOUS
  <1>2. Moved(f, g)
    BY <1>1, Flushing
  <1>3. [g EXCEPT !.pos = pos, !.eof = FALSE] = fseek(f, pos)
    BY <1>1 DEF fseek
  <1> QED
    BY <1>2, <1>3 DEF IsStream, Moved, Fields

LEMMA Reading ==
  ASSUME NEW f, IsStream(f), NEW n
  PROVE  Moved(f, fread(f, n).f)
  <1>1. PICK g : g = fflush(f)
    OBVIOUS
  <1>2. Moved(f, g)
    BY <1>1, Flushing
  <1>3. \A pos, eof : Moved(f, [g EXCEPT !.pos = pos, !.eof = eof])
    BY <1>2 DEF IsStream, Moved, Fields
  <1>4. Moved(f, f)
    BY DEF Moved
  <1> QED
    BY <1>1, <1>3, <1>4 DEF fread

LEMMA ReadingLine ==
  ASSUME NEW f, IsStream(f)
  PROVE  Moved(f, file_read_line(f).f)
  BY Reading DEF file_read_line

LEMMA MovedTwice ==
  ASSUME NEW f, NEW g, NEW k, Moved(f, g), Moved(g, k)
  PROVE  Moved(f, k)
  BY DEF Moved

LEMMA Writing ==
  ASSUME NEW f, IsStream(f), NEW bytes
  PROVE  IsStream(fwrite(f, bytes)) /\ fwrite(f, bytes).open = f.open
  BY DEF fwrite, IsStream, Fields


-----------------------------------------------------------------------------
(* The loops that read lines and buffers: each round reads from where the    *)
(* one before has left the stream.                                           *)

Round(kind, last, n) == IF kind = "line" THEN NextLine(last) ELSE NextBuffer(last, n)
Loop(g, kind, base, n, m) ==
  g = [i \in 0..m |-> IF i = 0 THEN base ELSE Round(kind, g[i - 1], n)]

LEMMA LoopExists ==
  ASSUME NEW kind, NEW base, NEW n, NEW m \in Nat
  PROVE  \E g : Loop(g, kind, base, n, m)
  <1> DEFINE S == {k \in 0..m : \E g : Loop(g, kind, base, n, k)}
  <1>1. 0 \in S
    <2>1. Loop([i \in 0..0 |-> base], kind, base, n, 0) /\ 0 \in 0..m
      BY DEF Loop
    <2> QED
      BY <2>1
  <1>2. ASSUME NEW k \in 0..(m - 1), k \in S PROVE k + 1 \in S
    <2>1. PICK g : Loop(g, kind, base, n, k)
      BY <1>2
    <2>2. PICK next : next = Round(kind, g[k], n)
      OBVIOUS
    <2>3. PICK f : f = [i \in 0..(k + 1) |-> IF i <= k THEN g[i] ELSE next]
      OBVIOUS
    <2>4. k \in Nat /\ k + 1 \in 0..m
      OBVIOUS
    <2>5. ASSUME NEW i \in 0..(k + 1)
          PROVE  f[i] = IF i = 0 THEN base ELSE Round(kind, f[i - 1], n)
      <3>1. CASE i = 0
        <4>1. 0 \in 0..k /\ f[0] = g[0]
          BY <2>3, <2>4
        <4>2. g[0] = base
          BY <2>1, <4>1 DEF Loop
        <4> QED
          BY <3>1, <4>1, <4>2
      <3>2. CASE i \in 1..k
        <4>1. i \in 0..k /\ i - 1 \in 0..k /\ i # 0 /\ i - 1 \in 0..(k + 1) /\ i <= k /\ i - 1 <= k
          BY <2>4, <3>2
        <4>2. f[i] = g[i] /\ f[i - 1] = g[i - 1]
          BY <2>3, <4>1
        <4>3. g[i] = Round(kind, g[i - 1], n)
          BY <2>1, <4>1 DEF Loop
        <4> QED
          BY <4>1, <4>2, <4>3
      <3>3. CASE i = k + 1
        <4>1. i # 0 /\ i - 1 = k /\ ~(i <= k) /\ k \in 0..(k + 1)
          BY <2>4, <3>3
        <4>2. f[k] = g[k] /\ f[i] = next
          BY <2>3, <2>4, <4>1
        <4> QED
          BY <2>2, <4>1, <4>2
      <3> QED
        BY <2>4, <3>1, <3>2, <3>3
    <2>6. Loop(f, kind, base, n, k + 1)
      BY <2>3, <2>5 DEF Loop
    <2> QED
      BY <2>4, <2>6
  <1>3. 0..m \subseteq S
    <2>1. 0 \in Int /\ m \in Int /\ \A k \in 0..(m - 1) : k \in S => k + 1 \in S
      BY <1>2
    <2> HIDE DEF S
    <2> QED
      BY ONLY <1>1, <2>1, UpInduction
  <1> QED
    BY <1>3

\* A round leaves the stream open and its data alone.
LEMMA RoundMoves ==
  ASSUME NEW kind, NEW last, NEW n, IsStream(last.f)
  PROVE  Moved(last.f, Round(kind, last, n).f)
  <1>1. Moved(last.f, last.f)
    BY DEF Moved
  <1>2. CASE kind = "line"
    <2>1. Moved(last.f, file_read_line(last.f).f)
      BY ReadingLine
    <2> QED
      BY <1>1, <1>2, <2>1 DEF Round, NextLine
  <1>3. CASE kind # "line"
    <2>1. \A length : Moved(last.f, fread(last.f, length).f)
      BY Reading
    <2> QED
      BY <1>1, <1>3, <2>1 DEF Round, NextBuffer
  <1> QED
    BY <1>2, <1>3

\* And so does the loop.
LEMMA LoopMoves ==
  ASSUME NEW f, IsStream(f), NEW kind, NEW base, base.f = f, NEW n, NEW m \in Nat,
         NEW g, Loop(g, kind, base, n, m)
  PROVE  Moved(f, g[m].f)
  <1> DEFINE S == {i \in 0..m : Moved(f, g[i].f)}
  <1>1. 0 \in S
    <2>1. g[0] = base /\ 0 \in 0..m
      BY DEF Loop
    <2> QED
      BY <2>1 DEF Moved
  <1>2. ASSUME NEW i \in 0..(m - 1), i \in S PROVE i + 1 \in S
    <2>1. i + 1 \in 0..m /\ (i + 1) - 1 = i /\ i + 1 # 0 /\ i \in 0..m
      OBVIOUS
    <2>2. g[i + 1] = Round(kind, g[i], n)
      BY <2>1 DEF Loop
    <2>3. Moved(f, g[i].f)
      BY <1>2
    <2>4. Moved(g[i].f, g[i + 1].f)
      BY <2>2, <2>3, RoundMoves DEF Moved
    <2> QED
      BY <2>1, <2>3, <2>4, MovedTwice
  <1>3. 0..m \subseteq S
    <2>1. 0 \in Int /\ m \in Int /\ \A i \in 0..(m - 1) : i \in S => i + 1 \in S
      BY <1>2
    <2> HIDE DEF S
    <2> QED
      BY ONLY <1>1, <2>1, UpInduction
  <1> QED
    BY <1>3

LEMMA TakingLines ==
  ASSUME NEW f, IsStream(f), NEW n \in Nat
  PROVE  Moved(f, TakeLines(f, n).f)
  <1> DEFINE F(g) == [i \in 0..n |-> IF i = 0 THEN [f |-> f, lines |-> <<>>, more |-> TRUE]
                                     ELSE NextLine(g[i - 1])]
  <1>1. PICK base : base = [f |-> f, lines |-> <<>>, more |-> TRUE]
    OBVIOUS
  <1>2. PICK kind : kind = "line"
    OBVIOUS
  <1>3. \A g : Loop(g, kind, base, n, n) <=> g = F(g)
    BY <1>1, <1>2 DEF Loop, Round
  <1>4. PICK g : g = CHOOSE h : h = F(h)
    OBVIOUS
  <1>5. TakeLines(f, n) = g[n]
    BY <1>4 DEF TakeLines
  <1>6. Loop(g, kind, base, n, n)
    <2>1. PICK h : h = F(h)
      BY <1>3, LoopExists
    <2> HIDE DEF F
    <2> QED
      BY <1>3, <1>4, <2>1
  <1>7. base.f = f
    BY <1>1
  <1> QED
    BY ONLY IsStream(f), n \in Nat, <1>5, <1>6, <1>7, LoopMoves

LEMMA ReadingRecord ==
  ASSUME NEW f, IsStream(f), NEW n \in Int
  PROVE  Moved(f, ReadRecord(f, n).f)
  <1>1. PICK m \in Nat : m = IF n > 1 THEN n ELSE 1
    OBVIOUS
  <1> DEFINE F(g) == [i \in 0..m |-> IF i = 0 THEN [f |-> f, bytes |-> <<>>, more |-> TRUE]
                                     ELSE NextBuffer(g[i - 1], n)]
  <1>2. PICK base : base = [f |-> f, bytes |-> <<>>, more |-> TRUE]
    OBVIOUS
  <1>3. PICK kind : kind = "buffer"
    OBVIOUS
  <1>4. \A g : Loop(g, kind, base, n, m) <=> g = F(g)
    BY <1>2, <1>3 DEF Loop, Round
  <1>5. PICK g : g = CHOOSE h : h = F(h)
    OBVIOUS
  <1>6. ReadRecord(f, n) = g[m]
    BY <1>1, <1>5 DEF ReadRecord
  <1>7. Loop(g, kind, base, n, m)
    <2>1. PICK h : h = F(h)
      BY <1>4, LoopExists
    <2> HIDE DEF F
    <2> QED
      BY <1>4, <1>5, <2>1
  <1>8. base.f = f
    BY <1>2
  <1> QED
    BY ONLY IsStream(f), m \in Nat, <1>6, <1>7, <1>8, LoopMoves

-----------------------------------------------------------------------------
(* The inductive invariant: FilesSound, and that rows are what they seem.    *)

IsEntry(e) ==
  /\ e = [k \in {"valid", "name", "type", "mode", "file"} |-> e[k]] /\ e.valid \in BOOLEAN
  /\ e.valid => e.file \in Stream

Rows(table, str) ==
  /\ table = [h \in Handle |-> table[h]] /\ \A h \in Handle : IsEntry(table[h])
  /\ str = [s \in Stream |-> str[s]] /\ \A s \in Stream : IsStream(str[s])
Paired(table, str) ==
  /\ \A h \in Handle : table[h].valid => str[table[h].file].open
  /\ \A g, h \in Handle :
       table[g].valid /\ table[h].valid /\ g # h => table[g].file # table[h].file
  /\ \A s \in Stream : str[s].open => \E h \in Handle : table[h].valid /\ table[h].file = s
OutOf(table, str) ==
  \A h \in Handle :
    table[h].valid /\ "FLUSH" \in table[h].mode =>
      str[table[h].file].saved = str[table[h].file].data
Matched(table, str) == Rows(table, str) /\ Paired(table, str) /\ OutOf(table, str)
Inv == Matched(file_table, stream)

LEMMA Numbers == Handle \subseteq Nat /\ Stream \subseteq Nat /\ 0 \notin Stream
  BY FileAssumption DEF Handle, Stream

LEMMA InvIsSound ==
  ASSUME Inv PROVE FilesSound
  <1>1. \A h \in Handle : file_table[h].valid => file_table[h].file # 0
    BY Numbers DEF Inv, Matched, Rows, IsEntry
  <1> QED
    BY <1>1 DEF Inv, Matched, Paired, OutOf, FilesSound, File

\* What a call that uses handle h leaves in its stream.
LEMMA Used ==
  ASSUME Inv, NEW h, file_handle_valid(h), NEW f, IsStream(f), f.open,
         "FLUSH" \in file_table[h].mode => f.saved = f.data,
         NEW call, NEW args, NEW r, Use(call, h, args, r, f)
  PROVE  Inv'
  <1>1. h \in Handle /\ file_table[h].valid /\ file_table[h].file \in Stream
    BY DEF file_handle_valid, Inv, Matched, Rows, IsEntry
  <1>2. /\ file_table' = file_table /\ stream' = [stream EXCEPT ![file_table[h].file] = f]
        /\ stream = [s \in Stream |-> stream[s]]
    BY DEF Use, Inv, Matched, Rows
  <1>3. PICK t \in Stream : t = file_table[h].file
    BY <1>1
  <1>4. stream' = [s \in Stream |-> IF s = t THEN f ELSE stream[s]]
    BY <1>2, <1>3
  <1>5. stream'[t] = f /\ \A s \in Stream \ {t} : stream'[s] = stream[s]
    BY <1>4
  <1>6. Rows(file_table, stream')
    BY <1>4, <1>5 DEF Inv, Matched, Rows
  <1>7. stream[t].open
    BY <1>1, <1>3 DEF Inv, Matched, Paired
  <1>8. \A g \in Handle : file_table[g].valid => file_table[g].file \in Stream
    BY DEF Inv, Matched, Rows, IsEntry
  <1>9. \A g \in Handle \ {h} : file_table[g].valid => file_table[g].file \in Stream \ {t}
    BY <1>1, <1>3, <1>8 DEF Inv, Matched, Paired
  <1>10. Paired(file_table, stream')
    <2>1. \A g \in Handle : file_table[g].valid => stream'[file_table[g].file].open
      <3> SUFFICES ASSUME NEW g \in Handle, file_table[g].valid
                   PROVE  stream'[file_table[g].file].open
        OBVIOUS
      <3>1. CASE g = h
        BY <1>3, <1>5, <3>1
      <3>2. CASE g # h
        <4>1. file_table[g].file \in Stream \ {t} /\ stream[file_table[g].file].open
          BY <1>9, <3>2 DEF Inv, Matched, Paired
        <4> QED
          BY <1>5, <4>1
      <3> QED
        BY <3>1, <3>2
    <2>2. \A s \in Stream : stream'[s].open => stream[s].open
      BY <1>5, <1>7
    <2> QED
      BY <2>1, <2>2 DEF Inv, Matched, Paired
  <1>11. OutOf(file_table, stream')
    <2> SUFFICES ASSUME NEW g \in Handle, file_table[g].valid, "FLUSH" \in file_table[g].mode
                 PROVE  stream'[file_table[g].file].saved = stream'[file_table[g].file].data
      BY DEF OutOf
    <2>1. CASE g = h
      BY <1>3, <1>5, <2>1
    <2>2. CASE g # h
      <3>1. file_table[g].file \in Stream \ {t}
        BY <1>9, <2>2
      <3>2. stream[file_table[g].file].saved = stream[file_table[g].file].data
        BY DEF Inv, Matched, OutOf
      <3> QED
        BY <1>5, <3>1, <3>2
    <2> QED
      BY <2>1, <2>2
  <1> QED
    BY <1>2, <1>6, <1>10, <1>11 DEF Inv, Matched

LEMMA UsedMoved ==
  ASSUME Inv, NEW h, file_handle_valid(h), NEW f, Moved(File(h), f),
         NEW call, NEW args, NEW r, Use(call, h, args, r, f)
  PROVE  Inv'
  <1>1. h \in Handle /\ file_table[h].valid
    BY DEF file_handle_valid
  <1>2. IsStream(f) /\ f.open
    BY <1>1 DEF Inv, Matched, Paired, Moved, File
  <1>3. "FLUSH" \in file_table[h].mode => f.saved = f.data
    BY <1>1 DEF Inv, Matched, OutOf, Moved, File
  <1> QED
    BY <1>2, <1>3, Used

LEMMA Asked ==
  ASSUME Inv, NEW call, NEW h, NEW args, NEW r, Ask(call, h, args, r)
  PROVE  Inv'
  BY DEF Ask, Inv

\* The stream of a handle that is used.
LEMMA HandleFile ==
  ASSUME Inv, NEW h, file_handle_valid(h)
  PROVE  /\ h \in Handle /\ file_table[h].valid /\ file_table[h].file \in Stream
         /\ IsStream(File(h)) /\ File(h).open
  BY DEF file_handle_valid, Inv, Matched, Rows, IsEntry, Paired, File

-----------------------------------------------------------------------------
(* The calls.                                                                *)

LEMMA CloseKeeps ==
  ASSUME Inv, NEW h, bf_file_close(h) PROVE Inv'
  <1>1. file_handle_valid(h)
    BY DEF bf_file_close
  <1>2. h \in Handle /\ file_table[h].valid /\ file_table[h].file \in Stream
    BY <1>1, HandleFile
  <1>3. PICK t \in Stream : t = file_table[h].file
    BY <1>2
  <1>4. /\ stream' = [stream EXCEPT ![t] = Closed] /\ file_table' = [file_table EXCEPT ![h] = NoEntry]
        /\ stream = [s \in Stream |-> stream[s]] /\ file_table = [g \in Handle |-> file_table[g]]
    BY <1>3 DEF bf_file_close, file_handle_destroy, Inv, Matched, Rows
  <1>5. /\ stream' = [s \in Stream |-> stream'[s]] /\ stream'[t] = Closed
        /\ \A s \in Stream \ {t} : stream'[s] = stream[s]
    BY <1>4
  <1>6. /\ file_table' = [g \in Handle |-> file_table'[g]] /\ file_table'[h] = NoEntry
        /\ \A g \in Handle \ {h} : file_table'[g] = file_table[g]
    BY <1>2, <1>4
  <1>7. IsStream(Closed) /\ ~Closed.open
    BY DEF IsStream, Closed, Fields
  <1>8. IsEntry(NoEntry) /\ ~NoEntry.valid
    BY DEF IsEntry, NoEntry
  <1>9. Rows(file_table', stream')
    BY <1>5, <1>6, <1>7, <1>8 DEF Inv, Matched, Rows
  <1>10. \A g \in Handle : file_table'[g].valid =>
           /\ g # h /\ file_table'[g] = file_table[g] /\ file_table[g].valid
           /\ file_table[g].file \in Stream \ {t}
    <2> SUFFICES ASSUME NEW g \in Handle, file_table'[g].valid
                 PROVE  /\ g # h /\ file_table'[g] = file_table[g] /\ file_table[g].valid
                        /\ file_table[g].file \in Stream \ {t}
      OBVIOUS
    <2>1. g # h /\ file_table'[g] = file_table[g] /\ file_table[g].valid
      BY <1>6, <1>8
    <2>2. file_table[g].file \in Stream
      BY <2>1 DEF Inv, Matched, Rows, IsEntry
    <2>3. file_table[g].file # t
      BY <1>2, <1>3, <2>1 DEF Inv, Matched, Paired
    <2> QED
      BY <2>1, <2>2, <2>3
  <1>11. Paired(file_table', stream')
    <2>1. \A g \in Handle : file_table'[g].valid => stream'[file_table'[g].file].open
      BY <1>5, <1>10 DEF Inv, Matched, Paired
    <2>2. \A g, k \in Handle : file_table'[g].valid /\ file_table'[k].valid /\ g # k =>
            file_table'[g].file # file_table'[k].file
      BY <1>10 DEF Inv, Matched, Paired
    <2>3. ASSUME NEW s \in Stream, stream'[s].open
          PROVE  \E g \in Handle : file_table'[g].valid /\ file_table'[g].file = s
      <3>1. s # t /\ stream[s].open
        BY <1>5, <1>7, <2>3
      <3>2. PICK g \in Handle : file_table[g].valid /\ file_table[g].file = s
        BY <3>1 DEF Inv, Matched, Paired
      <3>3. g # h
        BY <1>3, <3>1, <3>2
      <3> QED
        BY <1>6, <3>2, <3>3
    <2> QED
      BY <2>1, <2>2, <2>3 DEF Paired
  <1>12. OutOf(file_table', stream')
    BY <1>5, <1>10 DEF Inv, Matched, OutOf
  <1> QED
    BY <1>9, <1>11, <1>12 DEF Inv, Matched

LEMMA ReadKeeps ==
  ASSUME Inv, NEW h, NEW n \in Int, bf_file_readline(h) \/ bf_file_read(h, n) PROVE Inv'
  <1>1. file_handle_valid(h)
    BY DEF bf_file_readline, bf_file_read
  <1>2. IsStream(File(h))
    BY <1>1, HandleFile
  <1>3. CASE bf_file_readline(h)
    <2>1. PICK f : f = file_read_line(File(h)).f
      OBVIOUS
    <2>2. Moved(File(h), f)
      BY <1>2, <2>1, ReadingLine
    <2>3. \E r : Use("readline", h, <<>>, r, f)
      BY <1>3, <2>1 DEF bf_file_readline
    <2> QED
      BY <1>1, <2>2, <2>3, UsedMoved
  <1>4. CASE bf_file_read(h, n)
    <2>1. PICK f : f = ReadRecord(File(h), n).f
      OBVIOUS
    <2>2. Moved(File(h), f)
      BY <1>2, <2>1, ReadingRecord
    <2>3. \E r : Use("read", h, <<n>>, r, f)
      BY <1>4, <2>1 DEF bf_file_read
    <2> QED
      BY <1>1, <2>2, <2>3, UsedMoved
  <1> QED
    BY <1>3, <1>4

LEMMA ReadlinesKeeps ==
  ASSUME Inv, NEW h, NEW begin \in Int, NEW end \in Int, bf_file_readlines(h, begin, end)
  PROVE  Inv'
  <1>1. file_handle_valid(h)
    BY DEF bf_file_readlines
  <1>2. PICK f : f = File(h)
    OBVIOUS
  <1>3. IsStream(f)
    BY <1>1, <1>2, HandleFile
  <1>4. PICK skipped : skipped = TakeLines(fseek(f, 0), begin - 1)
    OBVIOUS
  <1>5. PICK taken : taken = TakeLines(skipped.f, end - begin + 1)
    OBVIOUS
  <1>6. \/ \E args, r : Ask("readlines", h, args, r)
        \/ /\ ~(begin < 1 \/ begin > end)
           /\ \E args, r : \/ Use("readlines", h, args, r, skipped.f)
                           \/ Use("readlines", h, args, r, fseek(taken.f, skipped.f.pos))
    BY <1>2, <1>4, <1>5, Zenon DEF bf_file_readlines
  <1>7. ASSUME ~(begin < 1 \/ begin > end)
        PROVE  Moved(f, skipped.f) /\ Moved(f, fseek(taken.f, skipped.f.pos))
    <2>1. begin - 1 \in Nat /\ end - begin + 1 \in Nat
      BY <1>7
    <2>2. Moved(f, fseek(f, 0)) /\ IsStream(fseek(f, 0))
      BY <1>3, Seeking DEF Moved
    <2>3. Moved(fseek(f, 0), skipped.f) /\ IsStream(skipped.f)
      BY <1>4, <2>1, <2>2, TakingLines DEF Moved
    <2>4. Moved(skipped.f, taken.f) /\ IsStream(taken.f)
      BY <1>5, <2>1, <2>3, TakingLines DEF Moved
    <2>5. Moved(taken.f, fseek(taken.f, skipped.f.pos))
      BY <2>4, Seeking
    <2>6. Moved(f, skipped.f)
      BY <2>2, <2>3, MovedTwice
    <2> QED
      BY <2>4, <2>5, <2>6, MovedTwice
  <1> QED
    BY <1>1, <1>2, <1>6, <1>7, UsedMoved, Asked

LEMMA WriteKeeps ==
  ASSUME Inv, NEW h, file_handle_valid(h), NEW call, NEW s, NEW bytes, NEW r,
         Write(call, h, s, bytes, r)
  PROVE  Inv'
  <1>1. PICK f : f = fwrite(File(h), bytes)
    OBVIOUS
  <1>2. IsStream(f) /\ f.open
    BY <1>1, HandleFile, Writing
  <1>3. PICK g : g = Flushed(h, f)
    OBVIOUS
  <1>4. IsStream(g) /\ g.open /\ ("FLUSH" \in file_table[h].mode => g.saved = g.data)
    BY <1>2, <1>3, Flushing DEF Flushed, Moved
  <1>5. (\E args, v : Ask(call, h, args, v)) \/ (\E args, v : Use(call, h, args, v, g))
    BY <1>1, <1>3 DEF Write
  <1> QED
    BY <1>4, <1>5, Used, Asked

LEMMA MoveKeeps ==
  ASSUME Inv, NEW h, NEW to, NEW whence, bf_file_flush(h) \/ bf_file_seek(h, to, whence)
  PROVE  Inv'
  <1>1. file_handle_valid(h)
    BY DEF bf_file_flush, bf_file_seek
  <1>2. IsStream(File(h))
    BY <1>1, HandleFile
  <1>3. CASE bf_file_flush(h)
    <2>1. Moved(File(h), fflush(File(h)))
      BY <1>2, Flushing
    <2> QED
      BY <1>1, <1>3, <2>1, UsedMoved DEF bf_file_flush
  <1>4. CASE bf_file_seek(h, to, whence)
    <2>1. \A pos : Moved(File(h), fseek(File(h), pos))
      BY <1>2, Seeking
    <2>2. \/ \E args, r : Ask("seek", h, args, r)
          \/ \E args, r, pos : Use("seek", h, args, r, fseek(File(h), pos))
      BY <1>4, Zenon DEF bf_file_seek
    <2> QED
      BY <1>1, <2>1, <2>2, UsedMoved, Asked
  <1> QED
    BY <1>3, <1>4

LEMMA HandleStepKeeps ==
  ASSUME Inv, NEW h, HandleStep(h) PROVE Inv'
  <1>1. CASE \/ InvalidHandle(h) \/ bf_file_name(h) \/ bf_file_openmode(h) \/ bf_file_tell(h)
             \/ bf_file_eof(h) \/ StatHandle(h)
    <2>1. \E call, args, r : Ask(call, h, args, r)
      BY <1>1, Zenon
         DEF InvalidHandle, bf_file_name, bf_file_openmode, bf_file_tell, bf_file_eof, StatHandle
    <2> QED
      BY <2>1, Asked
  <1>2. ASSUME NEW span \in LineSpan, bf_file_readlines(h, span[1], span[2]) PROVE Inv'
    <2>1. span[1] \in Int /\ span[2] \in Int
      BY FileAssumption
    <2> QED
      BY <1>2, <2>1, ReadlinesKeeps
  <1>3. ASSUME NEW n \in RecordLength, bf_file_read(h, n) PROVE Inv'
    <2>1. n \in Int
      BY FileAssumption
    <2> QED
      BY <1>3, <2>1, ReadKeeps
  <1>4. CASE bf_file_readline(h)
    BY <1>4, ReadKeeps
  <1>5. ASSUME NEW s \in Written, bf_file_writeline(h, s) \/ bf_file_write(h, s) PROVE Inv'
    <2>1. /\ file_handle_valid(h)
          /\ \E call, bytes, r : Write(call, h, s, bytes, r)
      BY <1>5, Zenon DEF bf_file_writeline, bf_file_write
    <2> QED
      BY <2>1, WriteKeeps
  <1> QED
    BY <1>1, <1>2, <1>3, <1>4, <1>5, CloseKeeps, MoveKeeps DEF HandleStep

LEMMA Opening ==
  ASSUME NEW path, NEW how
  PROVE  /\ IsStream(fopen(path, how)) /\ fopen(path, how).open
         /\ fopen(path, how).saved = fopen(path, how).data
  BY DEF fopen, IsStream, Fields

\* The first free handle and the first free stream, if there are any.
LEMMA FreeHandle ==
  ASSUME NEW h, h = file_allocate_next_handle, ~(h < 0)
  PROVE  h \in Handle /\ ~file_table[h].valid
  <1> DEFINE free == {g \in Handle : g >= current_handle /\ ~file_table[g].valid}
  <1>1. h = IF free = {} THEN -1 ELSE CHOOSE g \in free : \A k \in free : g <= k
    BY DEF file_allocate_next_handle
  <1>2. free \subseteq Nat /\ free \subseteq Handle
    BY Numbers
  <1>3. free # {}
    BY <1>1
  <1>4. h \in free
    <2> HIDE DEF free
    <2>1. \E g \in free : \A k \in free : g <= k
      BY <1>2, <1>3, LeastNumber
    <2> QED
      BY <1>1, <1>3, <2>1
  <1> QED
    BY <1>4

LEMMA FreeStream ==
  ASSUME NEW new, NEW idle, idle = {t \in Stream : ~stream[t].open}, idle # {},
         new = CHOOSE t \in idle : \A u \in idle : t <= u
  PROVE  new \in Stream /\ ~stream[new].open
  <1>1. idle \subseteq Nat
    BY Numbers
  <1>2. \E t \in idle : \A u \in idle : t <= u
    BY <1>1, LeastNumber
  <1> QED
    BY <1>2

\* A handle that gets a stream of its own.
LEMMA Opened ==
  ASSUME Inv, NEW h \in Handle, ~file_table[h].valid, NEW new \in Stream, ~stream[new].open,
         NEW e, IsEntry(e), e.valid, e.file = new, file_table' = [file_table EXCEPT ![h] = e],
         NEW f, IsStream(f), f.open, f.saved = f.data, stream' = [stream EXCEPT ![new] = f]
  PROVE  Inv'
  <1>1. stream = [s \in Stream |-> stream[s]] /\ file_table = [g \in Handle |-> file_table[g]]
    BY DEF Inv, Matched, Rows
  <1>2. /\ stream' = [s \in Stream |-> stream'[s]] /\ stream'[new] = f
        /\ \A s \in Stream \ {new} : stream'[s] = stream[s]
    BY <1>1
  <1>3. /\ file_table' = [g \in Handle |-> file_table'[g]] /\ file_table'[h] = e
        /\ \A g \in Handle \ {h} : file_table'[g] = file_table[g]
    BY <1>1
  <1>4. Rows(file_table', stream')
    BY <1>2, <1>3 DEF Inv, Matched, Rows
  <1>5. \A g \in Handle \ {h} : file_table'[g].valid =>
          /\ file_table'[g] = file_table[g] /\ file_table[g].valid
          /\ file_table[g].file \in Stream \ {new}
    <2> SUFFICES ASSUME NEW g \in Handle \ {h}, file_table'[g].valid
                 PROVE  /\ file_table'[g] = file_table[g] /\ file_table[g].valid
                        /\ file_table[g].file \in Stream \ {new}
      OBVIOUS
    <2>1. file_table'[g] = file_table[g] /\ file_table[g].valid
      BY <1>3
    <2>2. file_table[g].file \in Stream /\ stream[file_table[g].file].open
      BY <2>1 DEF Inv, Matched, Rows, IsEntry, Paired
    <2> QED
      BY <2>1, <2>2
  <1>6. Paired(file_table', stream')
    <2>1. \A g \in Handle : file_table'[g].valid => stream'[file_table'[g].file].open
      BY <1>2, <1>3, <1>5 DEF Inv, Matched, Paired
    <2>2. \A g, k \in Handle : file_table'[g].valid /\ file_table'[k].valid /\ g # k =>
            file_table'[g].file # file_table'[k].file
      BY <1>3, <1>5 DEF Inv, Matched, Paired
    <2>3. ASSUME NEW s \in Stream, stream'[s].open
          PROVE  \E g \in Handle : file_table'[g].valid /\ file_table'[g].file = s
      <3>1. CASE s = new
        BY <1>3, <3>1
      <3>2. CASE s # new
        <4>1. PICK g \in Handle : file_table[g].valid /\ file_table[g].file = s
          BY <1>2, <2>3, <3>2 DEF Inv, Matched, Paired
        <4> QED
          BY <1>3, <4>1
      <3> QED
        BY <3>1, <3>2
    <2> QED
      BY <2>1, <2>2, <2>3 DEF Paired
  <1>7. OutOf(file_table', stream')
    BY <1>2, <1>3, <1>5 DEF Inv, Matched, OutOf
  <1> QED
    BY <1>4, <1>6, <1>7 DEF Inv, Matched

\* The handle that was taken for a file that does not open is given back.
LEMMA NotOpened ==
  ASSUME Inv, NEW h \in Handle, ~file_table[h].valid, stream' = stream,
         file_table' = [file_table EXCEPT ![h] = NoEntry]
  PROVE  Inv'
  <1>1. file_table = [g \in Handle |-> file_table[g]]
    BY DEF Inv, Matched, Rows
  <1>2. /\ file_table' = [g \in Handle |-> file_table'[g]] /\ file_table'[h] = NoEntry
        /\ \A g \in Handle \ {h} : file_table'[g] = file_table[g]
    BY <1>1
  <1>3. IsEntry(NoEntry) /\ ~NoEntry.valid
    BY DEF IsEntry, NoEntry
  <1>4. Rows(file_table', stream')
    BY <1>2, <1>3 DEF Inv, Matched, Rows
  <1>5. \A g \in Handle : (file_table'[g].valid <=> file_table[g].valid)
                          /\ (file_table[g].valid => file_table'[g] = file_table[g])
    BY <1>2, <1>3
  <1>6. Paired(file_table', stream')
    BY <1>5 DEF Inv, Matched, Paired
  <1>7. OutOf(file_table', stream')
    BY <1>5 DEF Inv, Matched, OutOf
  <1> QED
    BY <1>4, <1>6, <1>7 DEF Inv, Matched

LEMMA OpenKeeps ==
  ASSUME Inv, NEW path, NEW s, bf_file_open(path, s) PROVE Inv'
  <1>1. PICK h : h = file_allocate_next_handle
    OBVIOUS
  <1>2. PICK table : table = file_handle_new(file_table, h, path, s)
    OBVIOUS
  <1>3. PICK idle : idle = {t \in Stream : ~stream[t].open}
    OBVIOUS
  <1>4. PICK new : new = CHOOSE t \in idle : \A u \in idle : t <= u
    OBVIOUS
  <1>5. PICK f : f = fopen(path, SubSeq(s, 1, 2))
    OBVIOUS
  <1>6. \/ \E args, r : Ask("open", -1, args, r)
        \/ UNCHANGED <<file_table, stream>>
        \/ ~(h < 0) /\ file_table' = file_handle_destroy(table, h) /\ UNCHANGED stream
        \/ /\ ~(h < 0) /\ idle # {} /\ file_table' = [table EXCEPT ![h].file = new]
           /\ stream' = [stream EXCEPT ![new] = f]
    BY <1>1, <1>2, <1>3, <1>4, <1>5, Zenon DEF bf_file_open
  <1>7. file_table = [g \in Handle |-> file_table[g]]
    BY DEF Inv, Matched, Rows
  <1>m. PICK mode : mode = file_modestr_to_mode(s)
    OBVIOUS
  <1>t. PICK yes : yes = TRUE
    OBVIOUS
  <1>8. PICK e : e = [valid |-> yes, name |-> path, type |-> s[3], mode |-> mode, file |-> new]
    OBVIOUS
  <1>9. ASSUME ~(h < 0)
        PROVE  /\ h \in Handle /\ ~file_table[h].valid
               /\ file_handle_destroy(table, h) = [file_table EXCEPT ![h] = NoEntry]
               /\ [table EXCEPT ![h].file = new] = [file_table EXCEPT ![h] = e]
    <2>1. h \in Handle /\ ~file_table[h].valid
      BY <1>1, <1>9, FreeHandle
    <2>2. PICK d : d = [valid |-> yes, name |-> path, type |-> s[3], mode |-> mode, file |-> 0]
      OBVIOUS
    <2>3. table = [file_table EXCEPT ![h] = d]
      BY <1>2, <1>m, <1>t, <2>2, Zenon DEF file_handle_new
    <2>4. [d EXCEPT !.file = new] = e
      BY <1>8, <2>2
    <2>5. [table EXCEPT ![h].file = new] = [file_table EXCEPT ![h] = e]
      BY <1>7, <2>1, <2>3, <2>4
    <2>6. file_handle_destroy(table, h) = [file_table EXCEPT ![h] = NoEntry]
      BY <1>7, <2>1, <2>3 DEF file_handle_destroy
    <2> QED
      BY <2>1, <2>5, <2>6
  <1>10. CASE (\E args, r : Ask("open", -1, args, r)) \/ UNCHANGED <<file_table, stream>>
    BY <1>10, Asked DEF Inv
  <1>11. CASE ~(h < 0) /\ file_table' = file_handle_destroy(table, h) /\ UNCHANGED stream
    BY <1>9, <1>11, NotOpened
  <1>12. CASE /\ ~(h < 0) /\ idle # {} /\ file_table' = [table EXCEPT ![h].file = new]
              /\ stream' = [stream EXCEPT ![new] = f]
    <2>1. new \in Stream /\ ~stream[new].open
      BY <1>3, <1>4, <1>12, FreeStream
    <2>2. IsStream(f) /\ f.open /\ f.saved = f.data
      BY <1>5, Opening
    <2>3. IsEntry(e) /\ e.valid /\ e.file = new
      BY <1>8, <1>t, <2>1 DEF IsEntry
    <2>4. h \in Handle /\ ~file_table[h].valid /\ file_table' = [file_table EXCEPT ![h] = e]
          /\ stream' = [stream EXCEPT ![new] = f]
      BY <1>9, <1>12
    <2> QED
      BY ONLY Inv, <2>1, <2>2, <2>3, <2>4, Opened
  <1> QED
    BY <1>6, <1>10, <1>11, <1>12

LEMMA HousekeepKeeps ==
  ASSUME Inv, NEW call, NEW args, NEW ok, NEW newDisk, NEW where,
         Housekeep(call, args, ok, newDisk, where)
  PROVE  Inv'
  <1>1. CASE \E r : Ask(call, 0, args, r)
    BY <1>1, Asked
  <1>2. CASE /\ stream' = [s \in Stream |-> [stream[s] EXCEPT !.at = where[@]]]
             /\ UNCHANGED file_table
    <2>1. ASSUME NEW s \in Stream
          PROVE  /\ IsStream(stream'[s]) /\ stream'[s].open = stream[s].open
                 /\ stream'[s].saved = stream[s].saved /\ stream'[s].data = stream[s].data
      <3>1. PICK f : f = stream[s]
        OBVIOUS
      <3>2. IsStream(f)
        BY <3>1 DEF Inv, Matched, Rows
      <3>3. stream'[s] = [f EXCEPT !.at = where[f.at]]
        BY <1>2, <3>1
      <3> QED
        BY <3>1, <3>2, <3>3 DEF IsStream, Fields
    <2>2. \A h \in Handle : file_table[h].valid => file_table[h].file \in Stream
      BY DEF Inv, Matched, Rows, IsEntry
    <2>3. Rows(file_table, stream')
      BY <1>2, <2>1 DEF Inv, Matched, Rows
    <2>4. Paired(file_table, stream')
      BY <2>1, <2>2 DEF Inv, Matched, Paired
    <2>5. OutOf(file_table, stream')
      BY <2>1, <2>2 DEF Inv, Matched, OutOf
    <2> QED
      BY <1>2, <2>3, <2>4, <2>5 DEF Inv, Matched
  <1> QED
    BY <1>1, <1>2 DEF Housekeep

LEMMA PathStepKeeps ==
  ASSUME Inv, NEW path, PathStep(path) PROVE Inv'
  <1>1. CASE StatPath(path)
    BY <1>1, Asked DEF StatPath
  <1>2. CASE bf_file_mkdir(path) \/ bf_file_rmdir(path) \/ bf_file_remove(path)
    BY <1>2, HousekeepKeeps DEF bf_file_mkdir, bf_file_rmdir, bf_file_remove
  <1>3. ASSUME NEW to \in Path, bf_file_rename(path, to) PROVE Inv'
    BY <1>3, HousekeepKeeps DEF bf_file_rename
  <1>4. ASSUME NEW digits \in Chmod, bf_file_chmod(path, digits) PROVE Inv'
    <2>1. \/ \E args, r : Ask("chmod", 0, args, r)
          \/ \E args, ok, newDisk, where : Housekeep("chmod", args, ok, newDisk, where)
      BY <1>4, Zenon DEF bf_file_chmod
    <2> QED
      BY <2>1, Asked, HousekeepKeeps
  <1> QED
    BY <1>1, <1>2, <1>3, <1>4, OpenKeeps DEF PathStep

-----------------------------------------------------------------------------
(* The theorem.                                                              *)

LEMMA FileInitHolds ==
  ASSUME FileInit PROVE Inv
  <1>1. IsStream(Closed) /\ ~Closed.open
    BY DEF IsStream, Closed, Fields
  <1>2. IsEntry(NoEntry) /\ ~NoEntry.valid
    BY DEF IsEntry, NoEntry
  <1>3. file_table = [h \in Handle |-> NoEntry] /\ stream = [s \in Stream |-> Closed]
    BY DEF FileInit
  <1>4. (\A h \in Handle : file_table[h] = NoEntry) /\ \A s \in Stream : stream[s] = Closed
    BY <1>3
  <1>5. Rows(file_table, stream)
    BY <1>1, <1>2, <1>3, <1>4 DEF Rows
  <1> QED
    BY <1>1, <1>2, <1>4, <1>5 DEF Inv, Matched, Paired, OutOf

LEMMA FileStepKeeps ==
  ASSUME Inv, [FileStep]_files PROVE Inv'
  <1>1. CASE UNCHANGED files
    BY <1>1 DEF files, Inv
  <1>2. CASE NotWizard \/ InvalidPath \/ RenameFromBad
    BY <1>2, Asked DEF NotWizard, InvalidPath, RenameFromBad
  <1>3. ASSUME NEW detailed \in BOOLEAN, bf_file_list(detailed) PROVE Inv'
    BY <1>3, Asked DEF bf_file_list
  <1> QED
    BY <1>1, <1>2, <1>3, HandleStepKeeps, PathStepKeeps DEF FileStep

\* Whatever files are opened, read, written, moved, renamed, removed and closed by
\* the file built-ins, however fopen, paths, mode strings and handles fail, and for every
\* size of the table: each valid handle has an open stream of its own, each open stream
\* has a valid handle through which it can be closed, and a handle opened with "f" has
\* nothing that is not written out after a call.
THEOREM NoStreamLeaks == FileSpec => []FilesSound
  <1>1. FileInit => Inv
    BY FileInitHolds
  <1>2. Inv /\ [FileStep]_files => Inv'
    BY FileStepKeeps
  <1>3. Inv => FilesSound
    BY InvIsSound
  <1> QED
    BY <1>1, <1>2, <1>3, PTL DEF FileSpec
=============================================================================
