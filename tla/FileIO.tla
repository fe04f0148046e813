------------------------------- MODULE FileIO -------------------------------
(* The file built-ins (fileio.cc): the table of handles, the C streams      *)
(* behind it and the files under FILE_SUBDIR.  A stream has what it shows   *)
(* (data) and what it has written out (saved).  A byte is "x" (printable),  *)
(* "~", "nl" or "nul"; in a MOO string the last three are "~7E", "~0A" and  *)
(* "~00", and a "~" alone is not a binary string.                           *)
EXTENDS Integers, Sequences, SequencesExt

CONSTANTS
  FILE_IO_MAX_FILES, FILE_IO_BUFFER_LENGTH,
  Path,        \* pathnames, all in one directory
  BadPath,     \* pathnames that file_verify_path refuses
  ModeString,  \* mode strings given to file_open
  Written,     \* strings given to file_write and file_writeline
  LineSpan,    \* <<start, end>> given to file_readlines
  RecordLength,  \* lengths given to file_read
  Seek,        \* <<location, whence>> given to file_seek
  Chmod,       \* digits given to file_chmod
  Disk,        \* contents of the directory at the start
  MaxSize,     \* bound: the size of a file that is written
  MaxCalls     \* bound: calls made

ASSUME FileAssumption ==
  /\ {FILE_IO_MAX_FILES, FILE_IO_BUFFER_LENGTH} \subseteq Nat \ {0}
  /\ {MaxSize, MaxCalls} \subseteq Nat
  /\ Path \cap BadPath = {}
  /\ LineSpan \subseteq Int \X Int /\ RecordLength \subseteq Int

VARIABLES
  file_table,      \* handle -> entry
  current_handle,  \* the static of file_allocate_next_handle
  stream,          \* open C streams
  disk,            \* pathname -> file
  told,            \* the last call and its package
  calls            \* calls made

files == <<file_table, current_handle, stream, disk, told, calls>>

Handle == 0..FILE_IO_MAX_FILES - 1
Stream == 1..FILE_IO_MAX_FILES
Absent == [kind |-> "none", bytes |-> <<>>, perm |-> 0]
Closed == [open |-> FALSE, at |-> "", data |-> <<>>, saved |-> <<>>, pos |-> 0,
           reads |-> FALSE, writes |-> FALSE, appends |-> FALSE, eof |-> FALSE]
NoEntry == [valid |-> FALSE, name |-> "", type |-> "t", mode |-> {}, file |-> 0]

FileInit ==
  /\ file_table = [h \in Handle |-> NoEntry] /\ current_handle = 0
  /\ stream = [s \in Stream |-> Closed]
  /\ disk \in Disk
  /\ told = [call |-> "none"] /\ calls = 0

-----------------------------------------------------------------------------
(* Packages and conversions.                                                *)

Value(v) == [kind |-> "value", v |-> v]
Raise(code) == [kind |-> "raise", v |-> code]

Printable == {"x", "~"}
Escape == [x |-> "x", nl |-> "~0A", nul |-> "~00"] @@ ("~" :> "~7E")
Unescape == ("x" :> "x") @@ ("~0A" :> "nl") @@ ("~00" :> "nul") @@ ("~7E" :> "~")

raw_bytes_to_clean(bytes) == SelectSeq(bytes, LAMBDA c : c \in Printable)
raw_bytes_to_binary(bytes) == [i \in DOMAIN bytes |-> Escape[bytes[i]]]
clean_to_raw_bytes(s) ==
  FlattenSeq([i \in DOMAIN s |-> IF s[i] \in Printable THEN <<s[i]>> ELSE <<"~", "x", "x">>])
IsBinary(s) == \A i \in DOMAIN s : s[i] # "~"
binary_to_raw_bytes(s) == [i \in DOMAIN s |-> Unescape[s[i]]]

in_filter(type, bytes) ==
  IF type = "b" THEN raw_bytes_to_binary(bytes) ELSE raw_bytes_to_clean(bytes)
out_filter(type, s) ==
  IF type = "b" THEN binary_to_raw_bytes(s) ELSE clean_to_raw_bytes(s)

-----------------------------------------------------------------------------
(* The C library.  Output waits in the stream until it is flushed, closed,  *)
(* moved or read; less than a buffer of it waits.                           *)

fflush(f) == [f EXCEPT !.saved = f.data]
fseek(f, pos) == [fflush(f) EXCEPT !.pos = pos, !.eof = FALSE]
fread(f, n) ==
  IF ~f.reads THEN [f |-> f, bytes |-> <<>>]
  ELSE LET end == IF f.pos + n < Len(f.data) THEN f.pos + n ELSE Len(f.data)
           bytes == SubSeq(f.data, f.pos + 1, end)
       IN  [f |-> [fflush(f) EXCEPT !.pos = f.pos + Len(bytes),
                                    !.eof = f.eof \/ Len(bytes) < n],
            bytes |-> bytes]
fwrite(f, bytes) ==
  LET pos == IF f.appends THEN Len(f.data) ELSE f.pos
      end == pos + Len(bytes)
      size == IF end > Len(f.data) THEN end ELSE Len(f.data)
      At(i) == IF i > pos /\ i <= end THEN bytes[i - pos]
               ELSE IF i <= Len(f.data) THEN f.data[i] ELSE "nul"
  IN  [f EXCEPT !.data = [i \in 1..size |-> At(i)], !.pos = end]

May(file, right) == (file.perm \div 64) \div right % 2 = 1
CanOpen(path, how) ==
  /\ disk[path].kind = "none" => how[1] # "r"
  /\ disk[path].kind = "reg" =>
       /\ how = <<"r", "-">> \/ how[2] = "+" => May(disk[path], 4)
       /\ how # <<"r", "-">> => May(disk[path], 2)
fopen(path, how) ==
  LET data == IF how[1] = "w" THEN <<>> ELSE disk[path].bytes
  IN  [open |-> TRUE, at |-> path, data |-> data, saved |-> data,
       pos |-> IF how = <<"a", "-">> THEN Len(data) ELSE 0,
       reads |-> how[1] = "r" \/ how[2] = "+", writes |-> how # <<"r", "-">>,
       appends |-> how[1] = "a", eof |-> FALSE]

-----------------------------------------------------------------------------
(* Calls.                                                                   *)

Answer(call, h, args, r) ==
  /\ calls < MaxCalls /\ calls' = calls + 1
  /\ told' = IF call \in {"read", "readlines"} THEN [call |-> call, h |-> h, args |-> args, r |-> r]
             ELSE [call |-> call, r |-> r]

file_handle_valid(h) == h \in Handle /\ file_table[h].valid
File(h) == stream[file_table[h].file]
Stored(f) ==
  IF f.at \in Path THEN [disk EXCEPT ![f.at].bytes = f.saved] ELSE disk

\* A call that is answered with r and leaves f in the stream of h.
Use(call, h, args, r, f) ==
  /\ Answer(call, h, args, r)
  /\ stream' = [stream EXCEPT ![file_table[h].file] = f]
  /\ disk' = Stored(f)
  /\ UNCHANGED <<file_table, current_handle>>
Ask(call, h, args, r) ==
  Answer(call, h, args, r) /\ UNCHANGED <<file_table, current_handle, stream, disk>>

\* file_verify_caller, file_handle_file_safe and file_resolve_path.
NotWizard == Ask("any", 0, <<>>, Raise("E_PERM"))
InvalidHandle(h) == ~file_handle_valid(h) /\ Ask("any", h, <<>>, Raise("E_INVARG"))
InvalidPath == BadPath # {} /\ Ask("any", 0, <<>>, Raise("E_INVARG"))

file_modestr_ok(s) ==
  s[1] \in {"r", "w", "a"} /\ s[2] \in {"+", "-"} /\ s[3] \in {"t", "b"} /\ s[4] \in {"f", "n"}
file_modestr_to_mode(s) ==
  (IF s[1] = "r" \/ s[2] = "+" THEN {"READ"} ELSE {})
    \cup (IF s[1] # "r" \/ s[2] = "+" THEN {"WRITE"} ELSE {})
    \cup (IF s[4] = "f" THEN {"FLUSH"} ELSE {})

\* The first invalid entry from current_handle on: the search ends with the
\* table, and only the next one starts from its beginning.
file_allocate_next_handle ==
  LET free == {h \in Handle : h >= current_handle /\ ~file_table[h].valid}
  IN  IF free = {} THEN -1 ELSE CHOOSE h \in free : \A g \in free : h <= g
file_handle_new(table, h, path, s) ==
  [table EXCEPT ![h] = [valid |-> TRUE, name |-> path, type |-> s[3],
                        mode |-> file_modestr_to_mode(s), file |-> 0]]
FileOnlyCleared(table, h) == [table EXCEPT ![h].file = 0]
file_handle_destroy(table, h) == [table EXCEPT ![h] = NoEntry]

\* A file that is open is not opened again, and directories are not opened.
bf_file_open(path, s) ==
  /\ \A t \in Stream : stream[t].open => stream[t].at # path
  /\ disk[path].kind # "dir"
  /\ LET h == file_allocate_next_handle
         table == file_handle_new(file_table, h, path, s)
         how == SubSeq(s, 1, 2)
         idle == {t \in Stream : ~stream[t].open}
         new == CHOOSE t \in idle : \A u \in idle : t <= u
         f == fopen(path, how)
         file == IF disk[path].kind = "none" THEN [Absent EXCEPT !.kind = "reg", !.perm = 420]
                 ELSE disk[path]
     IN  IF ~file_modestr_ok(s) THEN Ask("open", -1, <<path, s>>, Raise("E_INVARG"))
         ELSE IF h < 0
         THEN /\ Answer("open", -1, <<path, s>>, Raise("E_QUOTA"))
              /\ current_handle' = 0 /\ UNCHANGED <<file_table, stream, disk>>
         ELSE IF idle = {} \/ ~CanOpen(path, how)
         THEN /\ Answer("open", h, <<path, s>>, Raise("E_FILE"))
              /\ current_handle' = h /\ file_table' = file_handle_destroy(table, h)
              /\ UNCHANGED <<stream, disk>>
         ELSE /\ Answer("open", h, <<path, s>>, Value(h))
              /\ current_handle' = h /\ file_table' = [table EXCEPT ![h].file = new]
              /\ stream' = [stream EXCEPT ![new] = f]
              /\ disk' = [disk EXCEPT ![path] = [file EXCEPT !.bytes = f.data]]

bf_file_close(h) ==
  /\ file_handle_valid(h)
  /\ Answer("close", h, <<>>, Value(0))
  /\ disk' = Stored(fflush(File(h)))
  /\ stream' = [stream EXCEPT ![file_table[h].file] = Closed]
  /\ file_table' = file_handle_destroy(file_table, h)
  /\ UNCHANGED current_handle

bf_file_name(h) ==
  file_handle_valid(h) /\ Ask("name", h, <<>>, Value(file_table[h].name))
bf_file_openmode(h) ==
  /\ file_handle_valid(h)
  /\ LET e == file_table[h]
     IN  Ask("openmode", h, <<>>,
             Value(<<IF "READ" \in e.mode THEN "r" ELSE "w", "+", e.type,
                     IF "FLUSH" \in e.mode THEN "f" ELSE "n">>))

-----------------------------------------------------------------------------
(* Reading.                                                                 *)

LastLineLost(f) ==
  LET ends == {i \in f.pos + 1..Len(f.data) : f.data[i] = "nl"}
      end == IF ends = {} THEN Len(f.data) + 1 ELSE CHOOSE i \in ends : \A j \in ends : i <= j
      got == fread(f, end - f.pos)
  IN  [f |-> got.f, none |-> ends = {},
       line |-> SelectSeq(got.bytes, LAMBDA c : c # "nl")]

\* A line and the stream after it; there is none at the end of the file.
file_read_line(f) ==
  LET ends == {i \in f.pos + 1..Len(f.data) : f.data[i] = "nl"}
      end == IF ends = {} THEN Len(f.data) + 1 ELSE CHOOSE i \in ends : \A j \in ends : i <= j
      got == fread(f, end - f.pos)
  IN  [f |-> got.f, none |-> got.bytes = <<>>,
       line |-> SelectSeq(got.bytes, LAMBDA c : c # "nl")]

bf_file_readline(h) ==
  /\ file_handle_valid(h)
  /\ LET got == file_read_line(File(h))
         type == file_table[h].type
     IN  Use("readline", h, <<>>,
             IF got.none THEN Raise("E_FILE") ELSE Value(in_filter(type, got.line)), got.f)

\* At most n lines, from where f is.
NextLine(last) ==
  LET got == file_read_line(last.f)
  IN  IF ~last.more THEN last
      ELSE IF got.none THEN [f |-> got.f, lines |-> last.lines, more |-> FALSE]
      ELSE [f |-> got.f, lines |-> Append(last.lines, got.line), more |-> TRUE]
TakeLines(f, n) ==
  LET after[i \in 0..n] ==
        IF i = 0 THEN [f |-> f, lines |-> <<>>, more |-> TRUE] ELSE NextLine(after[i - 1])
  IN  after[n]

bf_file_readlines(h, begin, end) ==
  /\ file_handle_valid(h)
  /\ LET skipped == TakeLines(fseek(File(h), 0), begin - 1)
         taken == TakeLines(skipped.f, end - begin + 1)
         type == file_table[h].type
         lines == [i \in DOMAIN taken.lines |-> in_filter(type, taken.lines[i])]
     IN  IF begin < 1 \/ begin > end
         THEN Ask("readlines", h, <<begin, end>>, Raise("E_INVARG"))
         ELSE IF Len(skipped.lines) < begin - 1
         THEN Use("readlines", h, <<begin, end>>, Raise("E_FILE"), skipped.f)
         ELSE Use("readlines", h, <<begin, end>>, Value(lines), fseek(taken.f, skipped.f.pos))

\* The loop of file_read: whole buffers, until at least n bytes are there or a
\* read finds nothing.  Every read before the last finds a byte.
NextBuffer(last, n) ==
  LET length == IF n < 0 \/ n > FILE_IO_BUFFER_LENGTH THEN FILE_IO_BUFFER_LENGTH ELSE n
      got == fread(last.f, length)
      all == last.bytes \o got.bytes
  IN  IF ~last.more THEN last
      ELSE [f |-> got.f, bytes |-> all, more |-> got.bytes # <<>> /\ Len(all) < n]
ReadRecord(f, n) ==
  LET reads == IF n > 1 THEN n ELSE 1
      after[i \in 0..reads] ==
        IF i = 0 THEN [f |-> f, bytes |-> <<>>, more |-> TRUE] ELSE NextBuffer(after[i - 1], n)
  IN  after[reads]

bf_file_read(h, n) ==
  /\ file_handle_valid(h)
  /\ LET got == ReadRecord(File(h), n)
     IN  Use("read", h, <<n>>,
             IF got.bytes = <<>> THEN Raise("E_FILE")
             ELSE Value(in_filter(file_table[h].type, got.bytes)), got.f)

-----------------------------------------------------------------------------
(* Writing, moving, asking.                                                 *)

Flushed(h, f) == IF "FLUSH" \in file_table[h].mode THEN fflush(f) ELSE f

\* fputs ends at the first NUL.
UpToNul(bytes) ==
  LET nuls == {i \in DOMAIN bytes : bytes[i] = "nul"}
  IN  IF nuls = {} THEN bytes ELSE SubSeq(bytes, 1, (CHOOSE i \in nuls : \A j \in nuls : i <= j) - 1)

Write(call, h, s, bytes, r) ==
  LET type == file_table[h].type
      f == File(h)
      done == fwrite(f, bytes)
  IN  IF type = "b" /\ ~IsBinary(s) THEN Ask(call, h, <<s>>, Raise("E_INVARG"))
      ELSE IF ~f.writes \/ bytes = <<>> THEN Ask(call, h, <<s>>, Raise("E_FILE"))
      ELSE Len(done.data) <= MaxSize /\ Use(call, h, <<s>>, r, Flushed(h, done))

bf_file_writeline(h, s) ==
  /\ file_handle_valid(h)
  /\ Write("writeline", h, s, UpToNul(out_filter(file_table[h].type, s)) \o <<"nl">>, Value(0))
bf_file_write(h, s) ==
  /\ file_handle_valid(h)
  /\ LET bytes == out_filter(file_table[h].type, s)
     IN  Write("write", h, s, bytes, Value(Len(bytes)))

bf_file_flush(h) ==
  file_handle_valid(h) /\ Use("flush", h, <<>>, Value(0), fflush(File(h)))

bf_file_seek(h, to, whence) ==
  /\ file_handle_valid(h)
  /\ LET f == File(h)
         from == CASE whence = "SEEK_SET" -> 0 [] whence = "SEEK_CUR" -> f.pos
                   [] whence = "SEEK_END" -> Len(f.data) [] OTHER -> 0
     IN  IF whence \notin {"SEEK_SET", "SEEK_CUR", "SEEK_END"}
         THEN Ask("seek", h, <<to, whence>>, Raise("E_INVARG"))
         ELSE IF from + to < 0 THEN Ask("seek", h, <<to, whence>>, Raise("E_FILE"))
         ELSE /\ from + to <= MaxSize
              /\ Use("seek", h, <<to, whence>>, Value(0), fseek(f, from + to))

bf_file_tell(h) == file_handle_valid(h) /\ Ask("tell", h, <<>>, Value(File(h).pos))
bf_file_eof(h) == file_handle_valid(h) /\ Ask("eof", h, <<>>, Value(File(h).eof))

\* What file_stat finds, by a handle or by a name: file_size, file_type and
\* file_mode return a part of it each.  The times are left out, and so is the
\* mode of a handle, whose file may have no name.
Stat(kind, bytes, perm) == Value([size |-> Len(bytes), type |-> kind, mode |-> perm])
StatHandle(h) ==
  /\ file_handle_valid(h)
  /\ Ask("stat", h, <<>>, Stat("reg", File(h).saved, 0))
StatPath(path) ==
  LET file == disk[path]
  IN  Ask("stat", path, <<>>, IF file.kind = "none" THEN Raise("E_FILE")
                              ELSE Stat(file.kind, file.bytes, file.perm))

\* Of the directory itself, in whatever order readdir has.
bf_file_list(detailed) ==
  LET there == {p \in Path : disk[p].kind # "none"}
      Detail(p) == <<p, disk[p].kind, disk[p].perm, Len(disk[p].bytes)>>
  IN  Ask("list", 0, <<detailed>>, Value(IF detailed THEN {Detail(p) : p \in there} ELSE there))

-----------------------------------------------------------------------------
(* Housekeeping.  A stream keeps its file when the name is gone.            *)

Housekeep(call, args, ok, newDisk, where) ==
  IF ok
  THEN /\ Answer(call, 0, args, Value(0))
       /\ disk' = newDisk
       /\ stream' = [s \in Stream |-> [stream[s] EXCEPT !.at = where[@]]]
       /\ UNCHANGED <<file_table, current_handle>>
  ELSE Ask(call, 0, args, Raise("E_FILE"))

bf_file_mkdir(path) ==
  Housekeep("mkdir", <<path>>, disk[path].kind = "none",
            [disk EXCEPT ![path] = [kind |-> "dir", bytes |-> <<>>, perm |-> 493]],
            [at \in Path \cup {""} |-> at])
bf_file_rmdir(path) ==
  Housekeep("rmdir", <<path>>, disk[path].kind = "dir",
            [disk EXCEPT ![path] = Absent], [at \in Path \cup {""} |-> at])
bf_file_remove(path) ==
  Housekeep("remove", <<path>>, disk[path].kind # "none",
            [disk EXCEPT ![path] = Absent], [at \in Path \cup {""} |-> IF at = path THEN "" ELSE at])
bf_file_rename(from, to) ==
  Housekeep("rename", <<from, to>>,
            disk[from].kind # "none" /\ disk[to].kind \in {"none", disk[from].kind},
            IF from = to THEN disk
            ELSE [disk EXCEPT ![to] = disk[from], ![from] = Absent],
            [at \in Path \cup {""} |-> IF at = from THEN to ELSE IF at = to THEN "" ELSE at])

\* str_dup makes an empty name of the NULL that stands for a bad one.
RenameFromBad == BadPath # {} /\ Ask("rename", 0, <<>>, Raise("E_FILE"))

\* A mode is three digits, eight to the right of one another.
file_chmodstr_ok(digits) == Len(digits) = 3 /\ \A i \in 1..3 : digits[i] \in 0..7
file_chmodstr_to_mode(digits) == digits[1] * 64 + digits[2] * 8 + digits[3]
bf_file_chmod(path, digits) ==
  IF ~file_chmodstr_ok(digits) THEN Ask("chmod", 0, <<path, digits>>, Raise("E_INVARG"))
  ELSE Housekeep("chmod", <<path, digits>>, disk[path].kind # "none",
                 [disk EXCEPT ![path].perm = file_chmodstr_to_mode(digits)], [at \in Path \cup {""} |-> at])

-----------------------------------------------------------------------------

HandleStep(h) ==
  \/ InvalidHandle(h) \/ bf_file_close(h) \/ bf_file_name(h) \/ bf_file_openmode(h)
  \/ bf_file_readline(h) \/ bf_file_flush(h) \/ bf_file_tell(h) \/ bf_file_eof(h)
  \/ StatHandle(h)
  \/ \E span \in LineSpan : bf_file_readlines(h, span[1], span[2])
  \/ \E n \in RecordLength : bf_file_read(h, n)
  \/ \E s \in Written : bf_file_writeline(h, s) \/ bf_file_write(h, s)
  \/ \E seek \in Seek : bf_file_seek(h, seek[1], seek[2])

PathStep(path) ==
  \/ \E s \in ModeString : bf_file_open(path, s)
  \/ StatPath(path) \/ bf_file_mkdir(path) \/ bf_file_rmdir(path) \/ bf_file_remove(path)
  \/ \E to \in Path : bf_file_rename(path, to)
  \/ \E digits \in Chmod : bf_file_chmod(path, digits)

FileStep ==
  \/ NotWizard \/ InvalidPath \/ RenameFromBad
  \/ \E h \in -1..FILE_IO_MAX_FILES : HandleStep(h)
  \/ \E path \in Path : PathStep(path)
  \/ \E detailed \in BOOLEAN : bf_file_list(detailed)

FileSpec == FileInit /\ [][FileStep]_files

-----------------------------------------------------------------------------
(* Properties.                                                              *)

\* However calls succeed and fail, every valid handle has an open stream of its
\* own, every stream that is open belongs to a valid handle, so that none leaks
\* when fopen fails or a handle is closed (file_handle_destroy), and a handle
\* opened with "f" has everything written out after every call.
FilesSound ==
  LET valid == {h \in Handle : file_table[h].valid}
  IN  /\ \A h \in valid : file_table[h].file # 0 /\ File(h).open
      /\ \A g, h \in valid : g # h => file_table[g].file # file_table[h].file
      /\ \A s \in Stream : stream[s].open => \E h \in valid : file_table[h].file = s
      /\ \A h \in valid : "FLUSH" \in file_table[h].mode => File(h).saved = File(h).data

\* The lines of a file: what is between its newlines, and what is after the
\* last one if there is anything.
Lines(data) ==
  LET nl == {i \in DOMAIN data : data[i] = "nl"}
      starts == SetToSortSeq({1} \cup {i + 1 : i \in nl}, <)
      EndOf(i) == IF i = Len(starts) THEN Len(data) ELSE starts[i + 1] - 2
      all == [i \in DOMAIN starts |-> SubSeq(data, starts[i], EndOf(i))]
  IN  IF data = <<>> \/ Last(data) = "nl" THEN Front(all) ELSE all
LineStart(data, n) ==
  FoldSeq(LAMBDA l, at : at + Len(l) + 1, 0, SubSeq(Lines(data), 1, n - 1))

\* s says what bytes are.
Says(type, s, bytes) ==
  IF type = "b" THEN IsBinary(s) /\ binary_to_raw_bytes(s) = bytes
  ELSE s = SelectSeq(bytes, LAMBDA c : c \notin {"nl", "nul"})

\* What the reading calls return is what is in the file and was just written
\* into it, by lines (from wherever the handle is, with or without a newline at
\* the end) and by records of up to a buffer or of whole buffers; readlines
\* leaves the handle at the line it began with (file_read_line,
\* bf_file_readlines, bf_file_read).
ReadsRight ==
  [][ \A h \in Handle :
        file_table[h].valid /\ told'.call \in {"readlines", "read"}
          /\ told'.h = h /\ File(h).reads =>
        LET data == File(h).data
            args == told'.args
            r == told'.r
            left == SubSeq(data, File(h).pos + 1, Len(data))
            type == file_table[h].type
            lines == Lines(data)
        IN  IF told'.call = "read"
            THEN (args[1] \in 1..FILE_IO_BUFFER_LENGTH \/ args[1] = 2 * FILE_IO_BUFFER_LENGTH) =>
                   IF left = <<>> THEN r = Raise("E_FILE")
                   ELSE Says(type, r.v, SubSeq(left, 1, IF args[1] < Len(left) THEN args[1]
                                                       ELSE Len(left)))
            ELSE args[1] \in 1..args[2] =>
                   IF Len(lines) < args[1] - 1 THEN r = Raise("E_FILE")
                   ELSE LET want == SubSeq(lines, args[1], IF args[2] < Len(lines) THEN args[2]
                                                          ELSE Len(lines))
                        IN  /\ Len(r.v) = Len(want)
                            /\ \A i \in DOMAIN want : Says(type, r.v[i], want[i])
                            /\ File(h)'.pos = IF LineStart(data, args[1]) < Len(data)
                                              THEN LineStart(data, args[1]) ELSE Len(data)
    ]_files
=============================================================================
