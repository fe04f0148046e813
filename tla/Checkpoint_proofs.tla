-------------------------- MODULE Checkpoint_proofs --------------------------
(***************************************************************************)
(* What holds of Checkpoint for every number of runs, generations and      *)
(* versions, every combination of failures and any number of dumpers at a  *)
(* time, those that outlive their run included.                            *)
(***************************************************************************)
EXTENDS Checkpoint, TLAPS

\* Names, versions, runs and the codes that are none of them.
LEMMA Constants ==
  /\ Versions \subseteq Nat /\ 0 \in Versions
  /\ Partial \notin Versions /\ Truncated \notin Versions /\ Partial # Truncated
  /\ Gens \subseteq Names /\ Dump \in Names /\ Input \in Names /\ Dump # Input
  /\ Dump \notin Gens /\ Input \notin Gens /\ NoName \notin Names
  /\ Runs \subseteq Nat /\ 1 \in Runs /\ Gens \subseteq Nat
  BY CheckpointAssumption
  DEF Versions, Partial, Truncated, Names, Gens, Runs, Dump, Input, NoName

\* A dumper is known by its run and its generation.
LEMMA PidFacts ==
  /\ \A p \in Pids : Run(p) \in Runs /\ Gen(p) \in Gens
  /\ \A p, q \in Pids : Run(p) = Run(q) /\ Gen(p) = Gen(q) => p = q
  /\ \A r \in Runs, g \in Gens :
       <<r, g>> \in Pids /\ Run(<<r, g>>) = r /\ Gen(<<r, g>>) = g
  BY DEF Pids, Run, Gen

\* A process whose file is renamed or loses its name stays the same otherwise.
LEMMA FollowsFacts ==
  ASSUME NEW d \in Dumpers, NEW n \in Names, NEW m \in Names \cup {NoName}
  PROVE  /\ Follows(d, n, m) \in Dumpers
         /\ Follows(d, n, m).at = d.at /\ Follows(d, n, m).snap = d.snap
         /\ Follows(d, n, m).child = d.child /\ Follows(d, n, m).alone = d.alone
         /\ Follows(d, n, m).file = IF d.file = n THEN m ELSE IF d.file = m THEN NoName ELSE d.file
  BY Constants DEF Follows, Dumpers

\* The records that the actions make.
LEMMA GoneFacts == Gone \in Dumpers /\ Gone.at = "gone" /\ Gone.file = NoName
  BY Constants DEF Gone, Dumper, Dumpers, Steps

LEMMA NoFileFacts ==
  NoFile \in FileRecs /\ ~NoFile.there /\ NoFile.hands = {} /\ ~Shared(NoFile)
  BY Constants DEF NoFile, FileRecs, Shared

LEMMA FileFacts ==
  ASSUME NEW d \in Versions \cup {Partial, Truncated}, NEW h \in SUBSET Runs
  PROVE  /\ File(d, h) \in FileRecs
         /\ File(d, h).data = d /\ File(d, h).hands = h /\ File(d, h).there
  BY DEF File, FileRecs

LEMMA DumperFacts ==
  ASSUME NEW at \in Steps, NEW v \in Versions, NEW c \in BOOLEAN
  PROVE  /\ Dumper(at, v, c) \in Dumpers
         /\ Dumper(at, v, c).at = at /\ Dumper(at, v, c).snap = v
         /\ Dumper(at, v, c).child = c /\ Dumper(at, v, c).file = NoName
  BY DEF Dumper, Dumpers

\* The first run starts with nothing but its input.
LEMMA InitHolds == Init => TypeOK /\ DumpInv
<1> SUFFICES ASSUME Init PROVE TypeOK /\ DumpInv
  OBVIOUS
<1> USE Constants, PidFacts, GoneFacts, NoFileFacts
<1>0. File(0, {}) \in FileRecs /\ File(0, {}).data = 0 /\ File(0, {}).hands = {} /\ File(0, {}).there
  BY FileFacts
<1>1. TypeOK
  <2>1. gen \in 0..MaxGen /\ server \in ServerStates
    BY CheckpointAssumption DEF Init, ServerStates
  <2>2. dumper \in [Pids -> Dumpers] /\ disk \in [Names -> FileRecs]
    BY <1>0 DEF Init
  <2>3. QED
    BY <2>1, <2>2 DEF Init, TypeOK
<1>2. \A p \in Pids : dumper[p].at = "gone" /\ dumper[p].file = NoName
  BY DEF Init
<1>3. \A n \in Names : disk[n].hands = {} /\ (disk[n].there <=> n = Input)
  BY <1>0 DEF Init
<1>4. disk[Input].data = 0 /\ ~Shared(disk[Input]) /\ disk[Input].data # Partial
  BY <1>0, <1>3 DEF Init, Shared
<1>5. ProcessInv
  <2>1. mem >= base
    BY DEF Init
  <2>2. QED
    BY <1>2, <1>3, <2>1 DEF ProcessInv, SnapOk, OpenOk, FreshOk, WrittenOk
<1>6. FileInv
  BY <1>3 DEF FileInv, FileOk
<1>7. OutputInv
  BY <1>2, <1>3, <1>4 DEF OutputInv, Init
<1>8. QED
  BY <1>1, <1>5, <1>6, <1>7 DEF DumpInv

\* The step of a process that ends, loses its file's name, is forked or has
\* removed the old database, and of the server, as long as no file is written,
\* opened or renamed.
LEMMA LosesKeeps ==
  ASSUME TypeOK, TypeOK', DumpInv, UNCHANGED <<run, base>>, mem' >= base,
         gen' = gen \/ gen' = gen + 1,
         \A n \in Names : \/ disk'[n] = disk[n]
                          \/ /\ n # Input /\ disk'[n] = NoFile
                             /\ \A q \in Pids : dumper'[q].file # n,
         \A q \in Pids :
           \/ dumper'[q].at = "gone" /\ dumper'[q].file = NoName
           \/ /\ Run(q) = run /\ gen' = gen + 1 /\ Gen(q) = gen'
              /\ dumper'[q].at = "forked" /\ dumper'[q].snap = mem'
              /\ dumper'[q].file = NoName
           \/ /\ dumper'[q].snap = dumper[q].snap /\ dumper'[q].alone = dumper[q].alone
              /\ \/ dumper'[q].file = dumper[q].file
                 \/ dumper'[q].file = NoName /\ disk'[dumper[q].file] = NoFile
              /\ \/ dumper'[q].at = dumper[q].at
                 \/ dumper[q].at = "synced" /\ dumper'[q].at = "removed"
  PROVE  DumpInv'
<1> USE Constants, PidFacts, NoFileFacts
<1>0. gen \in Nat /\ gen' \in Nat /\ base \in Nat /\ run \in Nat
  BY CheckpointAssumption DEF TypeOK
<1>1. ASSUME NEW p \in Pids, ToCome(p)' PROVE ToCome(p)
  <2>1. Run(p) \in Nat /\ Gen(p) \in Nat
    OBVIOUS
  <2>2. Run(p) > run \/ (Run(p) = run /\ Gen(p) > gen')
    BY <1>1 DEF ToCome
  <2>3. QED
    BY <1>0, <2>1, <2>2 DEF ToCome
<1>3. ProcessInv'
  <2> SUFFICES ASSUME NEW p \in Pids
               PROVE  (SnapOk(p) /\ OpenOk(p) /\ FreshOk(p) /\ WrittenOk(p))'
    BY DEF ProcessInv
  <2>1. SnapOk(p) /\ OpenOk(p) /\ FreshOk(p) /\ WrittenOk(p)
    BY DEF DumpInv, ProcessInv
  <2>2. disk'[Gen(p)] = disk[Gen(p)] \/ disk'[Gen(p)] = NoFile
    OBVIOUS
  <2>3. dumper'[p].file # NoName =>
          dumper'[p].file = dumper[p].file /\ disk'[dumper'[p].file] = disk[dumper[p].file]
    <3>1. SUFFICES ASSUME dumper'[p].file # NoName
                   PROVE  /\ dumper'[p].file = dumper[p].file
                          /\ disk'[dumper'[p].file] = disk[dumper[p].file]
      OBVIOUS
    <3>2. dumper'[p].file = dumper[p].file
      BY <3>1
    <3>3. dumper[p].file \in Names
      BY <3>1, <3>2 DEF TypeOK, Dumpers
    <3>4. disk'[dumper[p].file] = disk[dumper[p].file]
      BY <3>2, <3>3
    <3>5. QED
      BY <3>2, <3>4
  <2>4. Run(p) = run /\ gen' = gen + 1 /\ Gen(p) = gen' => ToCome(p) /\ ~ToCome(p)'
    BY <1>0 DEF ToCome
  <2>5. FreshOk(p)'
    BY <1>1, <2>1, <2>2, <2>4 DEF FreshOk
  <2>6. OpenOk(p)'
    BY <2>1, <2>2, <2>3 DEF OpenOk, Shared
  <2>7. SnapOk(p)'
    BY <1>1, <2>1, <2>4 DEF SnapOk
  <2>8. WrittenOk(p)'
    BY <2>1, <2>2 DEF WrittenOk, Shared
  <2>9. QED
    BY <2>5, <2>6, <2>7, <2>8
<1>4. FileInv'
  <2> SUFFICES ASSUME NEW n \in Names PROVE FileOk(n)'
    BY DEF FileInv
  <2>0. FileOk(n)
    BY DEF DumpInv, FileInv
  <2>1. CASE disk'[n] = disk[n]
    BY <2>0, <2>1 DEF FileOk
  <2>2. CASE disk'[n] = NoFile
    BY <2>2 DEF FileOk
  <2>3. QED
    BY <2>1, <2>2
<1>5. OutputInv'
  <2>1. disk'[Input] = disk[Input]
    OBVIOUS
  <2>2. \A p \in Pids : dumper'[p].file \in {dumper[p].file, NoName}
    OBVIOUS
  <2>3. disk'[Dump] = disk[Dump] \/ (disk'[Dump] = NoFile /\ \A q \in Pids : dumper'[q].file # Dump)
    OBVIOUS
  <2>4. QED
    BY <2>1, <2>2, <2>3 DEF DumpInv, OutputInv, Shared
<1>6. QED
  BY <1>3, <1>4, <1>5 DEF DumpInv

\* A process that has written its file.  One that shares a file shares it with
\* dumpers of other runs.
LEMMA WriteKeeps ==
  ASSUME TypeOK, TypeOK', DumpInv, UNCHANGED <<run, base, mem, gen>>,
         NEW p \in Pids, GoesOn(p, "open", "synced"),
         NEW d \in {dumper[p].snap, Truncated, Partial}, Holds(p, d),
         d = Partial => ~dumper[p].alone
  PROVE  DumpInv'
<1> USE Constants, PidFacts
<1> DEFINE n == dumper[p].file
<1>0. \A q \in Pids : SnapOk(q) /\ OpenOk(q) /\ FreshOk(q) /\ WrittenOk(q)
  BY DEF DumpInv, ProcessInv
<1>1. dumper[p].at = "open" /\ dumper[p] \in Dumpers /\ n \in Names \cup {NoName}
  BY DEF GoesOn, TypeOK, Dumpers
<1>2. /\ dumper'[p].at = "synced" /\ dumper'[p].snap = dumper[p].snap /\ dumper'[p].file = NoName
      /\ \A q \in Pids : q # p => dumper'[q] = dumper[q]
  <2>1. dumper' = [dumper EXCEPT ![p] = Dumper("synced", dumper[p].snap, dumper[p].child)]
    BY DEF GoesOn
  <2>2. dumper[p].snap \in Versions /\ dumper[p].child \in BOOLEAN /\ "synced" \in Steps
    BY <1>1 DEF Dumpers, Steps
  <2> DEFINE e == Dumper("synced", dumper[p].snap, dumper[p].child)
  <2>3. e.at = "synced" /\ e.snap = dumper[p].snap /\ e.file = NoName
    BY DEF Dumper
  <2>4. QED
    BY <2>1, <2>3 DEF TypeOK
<1>3. /\ \A m \in Names : disk'[m].hands = disk[m].hands /\ (disk'[m].there <=> disk[m].there)
      /\ \A m \in Names : m # n => disk'[m] = disk[m]
      /\ n # NoName => disk'[n].data = d
  <2>1. CASE n = NoName
    BY <2>1 DEF Holds
  <2>2. CASE n # NoName
    <3>1. disk' = [disk EXCEPT ![n] = [disk[n] EXCEPT !.data = d]] /\ disk[n] \in FileRecs
      BY <1>1, <2>2 DEF Holds, TypeOK
    <3>2. QED
      BY <1>1, <2>2, <3>1 DEF TypeOK, FileRecs
  <2>3. QED
    BY <2>1, <2>2
<1>4. \A m \in Names : Shared(disk'[m]) <=> Shared(disk[m])
  BY <1>3 DEF Shared
<1>5. \A q \in Pids : ToCome(q)' <=> ToCome(q)
  BY DEF ToCome
<1>6. n # NoName => n \in Names /\ Run(p) \in disk[n].hands /\ (n \in Gens => n = Gen(p))
  BY <1>0, <1>1 DEF OpenOk
<1>7. n # NoName /\ d = Partial => Shared(disk[n])
  BY <1>0 DEF OpenOk
<1>8. ProcessInv'
  <2> SUFFICES ASSUME NEW q \in Pids
               PROVE  (SnapOk(q) /\ OpenOk(q) /\ FreshOk(q) /\ WrittenOk(q))'
    BY DEF ProcessInv, DumpInv
  <2>1. SnapOk(q)' /\ FreshOk(q)'
    BY <1>0, <1>1, <1>2, <1>3, <1>5 DEF SnapOk, FreshOk
  <2>2. OpenOk(q)'
    <3>1. CASE q = p
      BY <1>2, <3>1 DEF OpenOk
    <3>2. CASE q # p
      <4>1. dumper[q].file \in Names \cup {NoName}
        BY DEF TypeOK, Dumpers
      <4>2. dumper'[q] = dumper[q] /\ OpenOk(q) /\ Gen(q) \in Names
        BY <1>0, <1>2, <3>2
      <4>3. CASE dumper[q].file = NoName
        BY <1>3, <4>2, <4>3 DEF OpenOk
      <4>4. CASE dumper[q].file # NoName
        <5>1. Shared(disk'[dumper[q].file]) <=> Shared(disk[dumper[q].file])
          BY <1>4, <4>1, <4>4
        <5>2. QED
          BY <1>3, <4>1, <4>2, <4>4, <5>1 DEF OpenOk
      <4>5. QED
        BY <4>3, <4>4
    <3>3. QED
      BY <3>1, <3>2
  <2>3. WrittenOk(q)'
    <3>1. CASE q = p
      <4>1. Run(p) \in disk[Gen(p)].hands => n = Gen(p)
        BY <1>0, <1>1 DEF OpenOk
      <4>2. Run(p) \in disk[Gen(p)].hands /\ ~Shared(disk[Gen(p)]) =>
              disk'[Gen(p)].data \in {dumper'[p].snap, Truncated}
        BY <1>2, <1>3, <1>7, <4>1
      <4>3. QED
        BY <1>3, <1>4, <3>1, <4>2 DEF WrittenOk
    <3>2. CASE q # p /\ Gen(q) # n
      BY <1>0, <1>2, <1>3, <1>4, <3>2 DEF WrittenOk
    <3>3. CASE q # p /\ Gen(q) = n
      <4>1. Run(q) # Run(p) /\ n # NoName /\ n \in Names
        BY <1>6, <3>3
      <4>2. Run(q) \in disk[n].hands => Shared(disk[n])
        BY <1>6, <4>1 DEF Shared
      <4>3. QED
        BY <1>3, <1>4, <3>3, <4>2 DEF WrittenOk
    <3>4. QED
      BY <3>1, <3>2, <3>3
  <2>4. QED
    BY <2>1, <2>2, <2>3
<1>9. FileInv'
  <2> SUFFICES ASSUME NEW m \in Names PROVE FileOk(m)'
    BY DEF FileInv
  <2>1. FileOk(m)
    BY DEF DumpInv, FileInv
  <2>2. m = n /\ (\A r \in disk[m].hands : r = run) /\ d \in Versions => d >= base
    BY <1>0, <1>1, <1>6 DEF SnapOk
  <2>3. QED
    BY <1>3, <2>1, <2>2 DEF FileOk
<1>10. OutputInv'
  <2>1. \A m \in {Dump, Input} : ~Shared(disk[m]) => m # n
    BY DEF DumpInv, OutputInv
  <2>2. \A q \in Pids : dumper'[q].file \in {dumper[q].file, NoName}
    BY <1>2
  <2>3. QED
    BY <1>3, <1>4, <2>1, <2>2 DEF DumpInv, OutputInv
<1>11. QED
  BY <1>8, <1>9, <1>10 DEF DumpInv

\* A process that opens its temporary name: whoever has that file open, or wrote
\* it, is of another run.
LEMMA OpenKeeps ==
  ASSUME TypeOK, TypeOK', DumpInv, NEW p \in Pids, OpenTemp(p)
  PROVE  DumpInv'
<1> USE Constants, PidFacts
<1> DEFINE n == Gen(p)
           others == {q \in Pids : dumper[q].file = n}
<1>0. \A q \in Pids : SnapOk(q) /\ OpenOk(q) /\ FreshOk(q) /\ WrittenOk(q)
  BY DEF DumpInv, ProcessInv
<1>1. /\ dumper[p].at = "forked" /\ dumper[p].file = NoName /\ p \notin others
      /\ n \in Gens /\ n \in Names
  <2>1. dumper[p].at = "forked"
    BY DEF OpenTemp
  <2>2. n \in Gens /\ n \in Names
    OBVIOUS
  <2>3. dumper[p].file = NoName
    BY <1>0, <2>1 DEF OpenOk
  <2>4. QED
    BY <2>1, <2>2, <2>3
<1>2. /\ dumper'[p].at = "open" /\ dumper'[p].file = n /\ dumper'[p].snap = dumper[p].snap
      /\ dumper'[p].alone = (others = {})
      /\ \A q \in Pids : q # p => /\ dumper'[q].at = dumper[q].at /\ dumper'[q].file = dumper[q].file
                                  /\ dumper'[q].snap = dumper[q].snap
                                  /\ q \notin others => dumper'[q] = dumper[q]
  <2>1. \A q \in Pids : dumper[q] \in Dumpers
    BY DEF TypeOK
  <2>2. dumper' = [q \in Pids |->
          IF q = p THEN [dumper[q] EXCEPT !.at = "open", !.file = n, !.alone = (others = {})]
          ELSE IF q \in others THEN [dumper[q] EXCEPT !.alone = FALSE]
          ELSE dumper[q]]
    BY DEF OpenTemp
  <2>3. /\ dumper'[p].at = "open" /\ dumper'[p].file = n /\ dumper'[p].snap = dumper[p].snap
        /\ dumper'[p].alone = (others = {})
    <3>1. dumper'[p] = [dumper[p] EXCEPT !.at = "open", !.file = n, !.alone = (others = {})]
      BY <2>2
    <3>2. QED
      BY <2>1, <3>1 DEF Dumpers
  <2>4. ASSUME NEW q \in Pids, q # p
        PROVE  /\ dumper'[q].at = dumper[q].at /\ dumper'[q].file = dumper[q].file
               /\ dumper'[q].snap = dumper[q].snap
               /\ q \notin others => dumper'[q] = dumper[q]
    <3>1. dumper'[q] = IF q \in others THEN [dumper[q] EXCEPT !.alone = FALSE] ELSE dumper[q]
      BY <2>2, <2>4
    <3>2. QED
      BY <2>1, <3>1 DEF Dumpers
  <2>5. QED
    BY <2>3, <2>4
<1>3. /\ disk'[n].hands = disk[n].hands \cup {Run(p)} /\ disk'[n].there /\ disk'[n].data = Partial
      /\ \A m \in Names : m # n => disk'[m] = disk[m]
  <2>1. disk' = [disk EXCEPT ![n] = File(Partial, disk[n].hands \cup {Run(p)})]
    BY DEF OpenTemp
  <2> DEFINE f == File(Partial, disk[n].hands \cup {Run(p)})
  <2>2. f.hands = disk[n].hands \cup {Run(p)} /\ f.there /\ f.data = Partial
    BY DEF File
  <2>3. disk \in [Names -> FileRecs]
    BY DEF TypeOK
  <2> HIDE DEF f
  <2>4. disk'[n] = f /\ \A m \in Names : m # n => disk'[m] = disk[m]
    BY <1>1, <2>1, <2>3 DEF f
  <2>5. QED
    BY <2>2, <2>4
<1>4. UNCHANGED <<run, base, mem, gen>>
  BY DEF OpenTemp
<1>5. \A q \in Pids : ToCome(q)' <=> ToCome(q)
  BY <1>4 DEF ToCome
<1>6. \A q \in Pids : q # p /\ Gen(q) = n => Run(q) # Run(p)
  OBVIOUS
<1>7. \A q \in Pids : q # p /\ Gen(q) = n /\ Run(q) \in disk'[n].hands => Shared(disk'[n])
  BY <1>3, <1>6 DEF Shared
<1>8. others # {} => Shared(disk'[n])
  <2> SUFFICES ASSUME NEW q \in others PROVE Shared(disk'[n])
    OBVIOUS
  <2>1. q # p /\ Gen(q) = n /\ Run(q) \in disk[n].hands
    BY <1>0, <1>1 DEF OpenOk
  <2>2. QED
    BY <1>3, <1>7, <2>1
<1>9. ProcessInv'
  <2> SUFFICES ASSUME NEW q \in Pids
               PROVE  (SnapOk(q) /\ OpenOk(q) /\ FreshOk(q) /\ WrittenOk(q))'
    BY <1>4 DEF ProcessInv, DumpInv
  <2>0. SnapOk(q) /\ OpenOk(q) /\ FreshOk(q) /\ WrittenOk(q)
    BY <1>0
  <2>1. SnapOk(q)'
    BY <1>1, <1>2, <1>4, <1>5, <2>0, <1>0 DEF SnapOk
  <2>2. FreshOk(q)'
    <3>1. CASE q = p
      BY <1>1, <1>2, <1>3, <1>5, <2>0, <3>1 DEF FreshOk, SnapOk
    <3>2. CASE q # p
      BY <1>1, <1>2, <1>3, <1>5, <1>6, <2>0, <3>2 DEF FreshOk, SnapOk
    <3>3. QED
      BY <3>1, <3>2
  <2>3. WrittenOk(q)'
    BY <1>2, <1>3, <1>7, <2>0 DEF WrittenOk
  <2>4. OpenOk(q)'
    <3>1. CASE q = p
      BY <1>1, <1>2, <1>3, <1>8, <3>1 DEF OpenOk
    <3>2. CASE q # p /\ dumper[q].file = n
      <4>1. dumper[q].at = "open" /\ Run(q) \in disk[n].hands /\ Gen(q) = n
        BY <1>1, <2>0, <3>2 DEF OpenOk
      <4>2. Shared(disk'[n])
        BY <1>3, <1>7, <3>2, <4>1
      <4>3. QED
        BY <1>1, <1>2, <1>3, <3>2, <4>1, <4>2 DEF OpenOk
    <3>3. CASE q # p /\ dumper[q].file # n
      <4>1. dumper'[q] = dumper[q] /\ dumper[q].file \in Names \cup {NoName}
        BY <1>2, <3>3 DEF TypeOK, Dumpers
      <4>2. dumper[q].at = "open" /\ Run(q) \in disk'[Gen(q)].hands => dumper[q].file = Gen(q)
        BY <1>3, <1>6, <2>0, <3>3 DEF OpenOk
      <4>3. QED
        BY <1>3, <2>0, <3>3, <4>1, <4>2 DEF OpenOk
    <3>4. QED
      BY <3>1, <3>2, <3>3
  <2>5. QED
    BY <2>1, <2>2, <2>3, <2>4
<1>10. FileInv'
  <2> SUFFICES ASSUME NEW m \in Names PROVE FileOk(m)'
    BY DEF FileInv
  <2>1. FileOk(m)
    BY DEF DumpInv, FileInv
  <2>2. Run(p) <= run
    <3>1. ~ToCome(p) /\ Run(p) \in Nat /\ run \in Nat
      BY <1>0, <1>1 DEF SnapOk, TypeOK
    <3>2. QED
      BY <3>1 DEF ToCome
  <2>3. QED
    BY <1>1, <1>3, <1>4, <2>1, <2>2 DEF FileOk
<1>11. OutputInv'
  BY <1>1, <1>2, <1>3, <1>4 DEF DumpInv, OutputInv
<1>12. QED
  BY <1>9, <1>10, <1>11 DEF DumpInv

\* A process that renames its temporary name.  If only one run had to do with the
\* file, this is the process that wrote it, and nobody has it open.
LEMMA RenameKeeps ==
  ASSUME TypeOK, TypeOK', DumpInv, NEW p \in Pids, Rename(p)
  PROVE  DumpInv'
<1> USE Constants, PidFacts
<1> DEFINE n == Gen(p)
<1>0. \A q \in Pids : SnapOk(q) /\ OpenOk(q) /\ FreshOk(q) /\ WrittenOk(q)
  BY DEF DumpInv, ProcessInv
<1>1. dumper[p].at = "removed" /\ disk[n].there /\ n \in Gens /\ n \in Names /\ n # Dump /\ n # Input
  BY DEF Rename
<1>2. /\ dumper'[p].at = "gone" /\ dumper'[p].file = NoName
      /\ \A q \in Pids : q # p =>
           /\ dumper'[q].at = dumper[q].at /\ dumper'[q].snap = dumper[q].snap
           /\ dumper'[q].alone = dumper[q].alone
           /\ dumper'[q].file = IF dumper[q].file = n THEN Dump
                                ELSE IF dumper[q].file = Dump THEN NoName ELSE dumper[q].file
  <2>1. dumper' = [q \in Pids |-> IF q = p THEN Gone ELSE Follows(dumper[q], n, Dump)]
    BY DEF Rename
  <2>2. \A q \in Pids : dumper[q] \in Dumpers
    BY DEF TypeOK
  <2>3. ASSUME NEW q \in Pids, q # p
        PROVE  /\ dumper'[q].at = dumper[q].at /\ dumper'[q].snap = dumper[q].snap
               /\ dumper'[q].alone = dumper[q].alone
               /\ dumper'[q].file = IF dumper[q].file = n THEN Dump
                                    ELSE IF dumper[q].file = Dump THEN NoName ELSE dumper[q].file
    <3>1. dumper'[q] = Follows(dumper[q], n, Dump) /\ dumper[q] \in Dumpers
      BY <2>1, <2>2, <2>3
    <3>2. QED
      BY <1>1, <3>1 DEF Follows, Dumpers
  <2>4. QED
    BY <2>1, <2>3, GoneFacts
<1>3. /\ disk'[n] = NoFile
      /\ disk'[Dump].hands = disk[n].hands \cup {Run(p)}
      /\ disk'[Dump].there /\ disk'[Dump].data = disk[n].data
      /\ \A m \in Names : m # n /\ m # Dump => disk'[m] = disk[m]
  <2> DEFINE f == File(disk[n].data, disk[n].hands \cup {Run(p)})
  <2>1. disk' = [disk EXCEPT ![n] = NoFile, ![Dump] = f]
    BY DEF Rename
  <2>2. f.hands = disk[n].hands \cup {Run(p)} /\ f.there /\ f.data = disk[n].data
    BY DEF File
  <2>3. QED
    BY <1>1, <2>1, <2>2 DEF TypeOK
<1>4. UNCHANGED <<run, base, mem, gen>>
  BY DEF Rename
<1>5. \A q \in Pids : ToCome(q)' <=> ToCome(q)
  BY <1>4 DEF ToCome
<1>6. disk[n].hands # {} /\ FileOk(n)
  BY <1>1 DEF DumpInv, FileInv, FileOk
<1>7. Shared(disk[n]) => Shared(disk'[Dump])
  BY <1>3 DEF Shared
<1>8. ProcessInv'
  <2> SUFFICES ASSUME NEW q \in Pids
               PROVE  (SnapOk(q) /\ OpenOk(q) /\ FreshOk(q) /\ WrittenOk(q))'
    BY <1>4 DEF ProcessInv, DumpInv
  <2>0. SnapOk(q) /\ OpenOk(q) /\ FreshOk(q) /\ WrittenOk(q)
    BY <1>0
  <2>1. SnapOk(q)'
    BY <1>1, <1>2, <1>4, <1>5, <2>0 DEF SnapOk
  <2>2. disk'[Gen(q)] = disk[Gen(q)] \/ (disk'[Gen(q)] = NoFile /\ Gen(q) = n)
    BY <1>1, <1>3
  <2>3. FreshOk(q)'
    BY <1>0, <1>1, <1>2, <1>5, <2>0, <2>2, NoFileFacts DEF FreshOk, SnapOk
  <2>4. WrittenOk(q)'
    BY <1>2, <2>0, <2>2, NoFileFacts DEF WrittenOk
  <2>5. OpenOk(q)'
    <3>1. CASE q = p
      BY <1>2, <3>1 DEF OpenOk
    <3>2. CASE q # p
      <4>1. dumper'[q].at = "open" /\ Run(q) \in disk'[Gen(q)].hands => dumper'[q].file = Gen(q)
        <5>1. CASE Gen(q) = n
          BY <1>3, <5>1, NoFileFacts
        <5>2. CASE Gen(q) # n
          BY <1>1, <1>2, <2>0, <2>2, <3>2, <5>2 DEF OpenOk
        <5>3. QED
          BY <5>1, <5>2
      <4>2. CASE dumper[q].file = n
        BY <1>2, <1>3, <1>7, <2>0, <3>2, <4>1, <4>2 DEF OpenOk
      <4>3. CASE dumper[q].file = Dump
        BY <1>1, <1>2, <3>2, <4>1, <4>3 DEF OpenOk
      <4>4. CASE dumper[q].file # n /\ dumper[q].file # Dump
        <5>1. dumper'[q].file = dumper[q].file /\ dumper[q].file \in Names \cup {NoName}
          BY <1>2, <3>2, <4>4 DEF TypeOK, Dumpers
        <5>2. dumper[q].file # NoName => disk'[dumper[q].file] = disk[dumper[q].file]
          BY <1>3, <4>4, <5>1
        <5>3. QED
          BY <1>2, <2>0, <3>2, <4>1, <5>1, <5>2 DEF OpenOk
      <4>5. QED
        BY <4>2, <4>3, <4>4
    <3>3. QED
      BY <3>1, <3>2
  <2>6. QED
    BY <2>1, <2>3, <2>4, <2>5
<1>9. FileInv'
  <2> SUFFICES ASSUME NEW m \in Names PROVE FileOk(m)'
    BY DEF FileInv
  <2>1. CASE m = n
    BY <1>1, <1>3, <2>1, NoFileFacts DEF FileOk
  <2>2. CASE m = Dump
    <3>1. Run(p) <= run
      <4>1. ~ToCome(p) /\ Run(p) \in Nat /\ run \in Nat
        BY <1>0, <1>1 DEF SnapOk, TypeOK
      <4>2. QED
        BY <4>1 DEF ToCome
    <3>2. QED
      BY <1>3, <1>4, <1>6, <2>2, <3>1 DEF FileOk
  <2>3. CASE m # n /\ m # Dump
    BY <1>3, <1>4, <2>3 DEF FileOk, DumpInv, FileInv
  <2>4. QED
    BY <2>1, <2>2, <2>3
<1>10. OutputInv'
  <2>1. disk'[Input] = disk[Input] /\ \A q \in Pids : dumper'[q].file = Input => dumper[q].file = Input
    BY <1>1, <1>2, <1>3
  <2>2. ASSUME ~Shared(disk'[Dump])
        PROVE  (\A q \in Pids : dumper'[q].file # Dump) /\ disk'[Dump].data # Partial
    <3>1. \A r \in disk[n].hands : r = Run(p)
      BY <1>3, <2>2 DEF Shared
    <3>2. Run(p) \in disk[n].hands /\ ~Shared(disk[n])
      BY <1>6, <3>1 DEF Shared
    <3>3. disk[n].data \in {dumper[p].snap, Truncated}
      BY <1>0, <1>1, <3>2 DEF WrittenOk
    <3>4. disk[n].data # Partial
      BY <3>3 DEF TypeOK, Dumpers
    <3>5. ASSUME NEW q \in Pids, dumper'[q].file = Dump PROVE FALSE
      <4>1. q # p /\ dumper[q].file = n
        BY <1>1, <1>2, <3>5
      <4>2. Run(q) \in disk[n].hands /\ Gen(q) = n
        BY <1>0, <1>1, <4>1 DEF OpenOk
      <4>3. QED
        BY <3>1, <4>1, <4>2
    <3>6. QED
      BY <1>3, <3>4, <3>5
  <2>3. QED
    BY <1>4, <2>1, <2>2 DEF DumpInv, OutputInv, Shared
<1>11. QED
  BY <1>8, <1>9, <1>10 DEF DumpInv

\* The input of the next run: whoever has the output open goes on writing it under
\* its new name.  Either nothing starts, since it does not load, or a run starts
\* from what it holds.
LEMMA RestartKeeps ==
  ASSUME TypeOK, TypeOK', DumpInv, MoveOutput,
         \/ ~Loads(NextInput) /\ UNCHANGED <<run, base, mem, gen>>
         \/ /\ Loads(NextInput)
            /\ run' = run + 1 /\ gen' = 0
            /\ base' = NextInput.data /\ mem' = NextInput.data
  PROVE  DumpInv'
<1> USE Constants, PidFacts
<1>0. \A q \in Pids : SnapOk(q) /\ OpenOk(q) /\ FreshOk(q) /\ WrittenOk(q)
  BY DEF DumpInv, ProcessInv
<1>1. /\ \A q \in Pids :
           /\ dumper'[q].at = dumper[q].at /\ dumper'[q].snap = dumper[q].snap
           /\ dumper'[q].alone = dumper[q].alone
           /\ dumper'[q].file = IF ~disk[Dump].there THEN dumper[q].file
                                ELSE IF dumper[q].file = Dump THEN Input
                                ELSE IF dumper[q].file = Input THEN NoName ELSE dumper[q].file
      /\ \A m \in Gens : disk'[m] = disk[m]
      /\ disk'[Input] = NextInput
      /\ IF disk[Dump].there THEN disk'[Dump] = NoFile ELSE disk'[Dump] = disk[Dump]
  <2>1. CASE disk[Dump].there
    <3>1. /\ disk' = [disk EXCEPT ![Dump] = NoFile, ![Input] = disk[Dump]]
          /\ dumper' = [q \in Pids |-> Follows(dumper[q], Dump, Input)]
      BY <2>1 DEF MoveOutput, Renamed
    <3>2. \A q \in Pids : dumper[q] \in Dumpers
      BY DEF TypeOK
    <3>3. \A q \in Pids :
            /\ dumper'[q].at = dumper[q].at /\ dumper'[q].snap = dumper[q].snap
            /\ dumper'[q].alone = dumper[q].alone
            /\ dumper'[q].file = IF dumper[q].file = Dump THEN Input
                                 ELSE IF dumper[q].file = Input THEN NoName ELSE dumper[q].file
      <4> TAKE q \in Pids
      <4>1. dumper'[q] = Follows(dumper[q], Dump, Input) /\ dumper[q] \in Dumpers
        BY <3>1, <3>2
      <4>2. QED
        BY <4>1, FollowsFacts
    <3>4. QED
      BY <2>1, <3>1, <3>3 DEF NextInput, TypeOK
  <2>2. CASE ~disk[Dump].there
    BY <2>2 DEF MoveOutput, NextInput
  <2>3. QED
    BY <2>1, <2>2
<1>2. /\ NextInput.there
      /\ disk[Dump].there => NextInput = disk[Dump]
      /\ ~disk[Dump].there => NextInput = disk[Input]
  BY DEF NextInput, DumpInv, OutputInv
<1>3. run \in Nat /\ gen \in Nat /\ base \in Nat
  BY CheckpointAssumption DEF TypeOK
<1>4. /\ \A q \in Pids : ToCome(q)' => ToCome(q)
      /\ run' # run => \A q \in Pids : Run(q) = run' => ToCome(q)
  <2> SUFFICES ASSUME NEW q \in Pids
               PROVE  (ToCome(q)' => ToCome(q)) /\ (run' # run /\ Run(q) = run' => ToCome(q))
    OBVIOUS
  <2>1. Run(q) \in Nat /\ Gen(q) \in Nat
    OBVIOUS
  <2>2. QED
    BY <1>3, <2>1 DEF ToCome
<1>5. run' = run \/ run' = run + 1
  OBVIOUS
<1>6. ProcessInv'
  <2>1. (mem >= base)'
    <3>1. CASE UNCHANGED <<base, mem>>
      BY <3>1 DEF DumpInv, ProcessInv
    <3>2. CASE base' = mem'
      BY <3>2 DEF TypeOK
    <3>3. QED
      BY <3>1, <3>2
  <2> SUFFICES ASSUME NEW q \in Pids
               PROVE  (SnapOk(q) /\ OpenOk(q) /\ FreshOk(q) /\ WrittenOk(q))'
    BY <2>1 DEF ProcessInv
  <2>0. SnapOk(q) /\ OpenOk(q) /\ FreshOk(q) /\ WrittenOk(q) /\ disk'[Gen(q)] = disk[Gen(q)]
    BY <1>0, <1>1
  <2>2. SnapOk(q)'
    <3>1. CASE run' = run
      BY <1>1, <1>3, <1>4, <2>0, <3>1 DEF SnapOk
    <3>2. CASE run' # run
      BY <1>1, <1>4, <2>0, <3>2 DEF SnapOk
    <3>3. QED
      BY <3>1, <3>2
  <2>3. FreshOk(q)'
    BY <1>1, <1>4, <2>0 DEF FreshOk
  <2>4. WrittenOk(q)'
    BY <1>1, <2>0 DEF WrittenOk, Shared
  <2>5. OpenOk(q)'
    <3>1. dumper'[q].at = "open" /\ Run(q) \in disk'[Gen(q)].hands => dumper'[q].file = Gen(q)
      BY <1>1, <2>0 DEF OpenOk
    <3>2. CASE ~disk[Dump].there
      <4>1. dumper'[q].file = dumper[q].file /\ dumper[q].file \in Names \cup {NoName}
        BY <1>1, <3>2 DEF TypeOK, Dumpers
      <4>2. \A m \in Names : disk'[m] = disk[m]
        BY <1>1, <1>2, <3>2 DEF Names
      <4>3. QED
        BY <1>1, <2>0, <3>1, <4>1, <4>2 DEF OpenOk, Shared
    <3>3. CASE disk[Dump].there /\ dumper[q].file \in {Dump, Input}
      BY <1>1, <1>2, <2>0, <3>1, <3>3 DEF OpenOk, Shared
    <3>4. CASE disk[Dump].there /\ dumper[q].file \notin {Dump, Input}
      <4>1. dumper'[q].file = dumper[q].file /\ dumper[q].file \in Gens \cup {NoName}
        BY <1>1, <3>4 DEF TypeOK, Dumpers, Names
      <4>2. QED
        BY <1>1, <2>0, <3>1, <4>1 DEF OpenOk, Shared
    <3>5. QED
      BY <3>2, <3>3, <3>4
  <2>6. QED
    BY <2>2, <2>3, <2>4, <2>5
<1>7. FileInv'
  <2> SUFFICES ASSUME NEW m \in Names PROVE FileOk(m)'
    BY DEF FileInv
  <2>1. \A k \in Names : FileOk(k)
    BY DEF DumpInv, FileInv
  <2>2. \/ disk'[m] = NoFile /\ m # Input
        \/ disk'[m] = disk[m]
        \/ m = Input /\ disk'[m] = disk[Dump]
    BY <1>1, <1>2 DEF Names
  <2>3. disk[m].hands \in SUBSET Nat /\ disk[Dump].hands \in SUBSET Nat
    BY DEF TypeOK, FileRecs
  <2>4. CASE run' = run
    <3>1. base' = base
      BY <1>3, <2>4
    <3>2. QED
      BY <2>1, <2>2, <2>4, <3>1, NoFileFacts DEF FileOk
  <2>5. CASE run' = run + 1
    <3>1. \A r \in disk'[m].hands : r \in Nat /\ r <= run
      BY <2>1, <2>2, <2>3, NoFileFacts DEF FileOk
    <3>2. m # Input => (disk'[m].there <=> disk'[m].hands # {})
      BY <2>1, <2>2, NoFileFacts DEF FileOk
    <3>3. \A r \in disk'[m].hands : r <= run' /\ r # run'
      BY <1>3, <2>5, <3>1
    <3>4. QED
      BY <3>2, <3>3 DEF FileOk
  <2>6. QED
    BY <1>5, <2>4, <2>5
<1>8. OutputInv'
  <2>1. ~Shared(disk'[Dump]) => /\ \A q \in Pids : dumper'[q].file # Dump
                                /\ disk'[Dump].there => disk'[Dump].data # Partial
    <3>1. CASE disk[Dump].there
      BY <1>1, <3>1, NoFileFacts
    <3>2. CASE ~disk[Dump].there
      BY <1>1, <3>2 DEF DumpInv, OutputInv
    <3>3. QED
      BY <3>1, <3>2
  <2>2. ~Shared(NextInput) => (\A q \in Pids : dumper'[q].file # Input) /\ NextInput.data # Partial
    <3>1. CASE disk[Dump].there
      BY <1>1, <1>2, <3>1 DEF DumpInv, OutputInv
    <3>2. CASE ~disk[Dump].there
      BY <1>1, <1>2, <3>2 DEF DumpInv, OutputInv
    <3>3. QED
      BY <3>1, <3>2
  <2>3. ~Shared(NextInput) => NextInput.data \in {base', Truncated}
    BY <2>2 DEF Loads
  <2>4. QED
    BY <1>1, <1>2, <2>1, <2>2, <2>3 DEF OutputInv, Shared
<1>9. QED
  BY <1>6, <1>7, <1>8 DEF DumpInv

\* `Remove previous checkpoint' takes the name from whoever has the file open.
LEMMA PreviousRemoved ==
  ASSUME TypeOK, RemovePrevious
  PROVE  /\ disk' \in [Names -> FileRecs]
         /\ \A m \in Names : \/ disk'[m] = disk[m]
                             \/ m = gen /\ m \in Gens /\ disk'[m] = NoFile
         /\ \A q \in Pids :
              LET d == AfterRemovePrevious(dumper[q]) IN
              /\ d \in Dumpers
              /\ d.at = dumper[q].at /\ d.snap = dumper[q].snap /\ d.alone = dumper[q].alone
              /\ \/ d.file = dumper[q].file /\ (d.file = gen => gen = 0)
                 \/ d.file = NoName /\ disk'[dumper[q].file] = NoFile
<1> USE Constants
<1>1. \A q \in Pids : dumper[q] \in Dumpers
  BY DEF TypeOK
<1>2. CASE gen = 0
  BY <1>1, <1>2 DEF RemovePrevious, AfterRemovePrevious, TypeOK
<1>3. CASE gen # 0
  <2>1. gen \in Gens /\ gen \in Names
    BY <1>3, CheckpointAssumption DEF TypeOK, Gens
  <2>2. disk' = [disk EXCEPT ![gen] = NoFile]
    BY <1>3 DEF RemovePrevious, Removed
  <2>3. disk' \in [Names -> FileRecs] /\ disk'[gen] = NoFile /\ \A m \in Names : m # gen => disk'[m] = disk[m]
    BY <2>1, <2>2, NoFileFacts DEF TypeOK
  <2>4. ASSUME NEW q \in Pids
        PROVE  /\ AfterRemovePrevious(dumper[q]) \in Dumpers
               /\ AfterRemovePrevious(dumper[q]).at = dumper[q].at
               /\ AfterRemovePrevious(dumper[q]).snap = dumper[q].snap
               /\ AfterRemovePrevious(dumper[q]).alone = dumper[q].alone
               /\ AfterRemovePrevious(dumper[q]).file = IF dumper[q].file = gen THEN NoName ELSE dumper[q].file
    <3>1. AfterRemovePrevious(dumper[q]) = Follows(dumper[q], gen, NoName) /\ dumper[q] \in Dumpers
      BY <1>1, <1>3 DEF AfterRemovePrevious
    <3>2. QED
      BY <2>1, <3>1 DEF Follows, Dumpers
  <2>5. QED
    BY <2>1, <2>3, <2>4
<1>4. QED
  BY <1>2, <1>3

\* So does any other removal of a name.
LEMMA NameRemoved ==
  ASSUME TypeOK, NEW n \in Names, disk' = Removed(n)
  PROVE  /\ disk' \in [Names -> FileRecs]
         /\ \A m \in Names : disk'[m] = disk[m] \/ (m = n /\ disk'[m] = NoFile)
         /\ \A q \in Pids :
              LET d == Follows(dumper[q], n, NoName) IN
              /\ d \in Dumpers
              /\ d.at = dumper[q].at /\ d.snap = dumper[q].snap /\ d.alone = dumper[q].alone
              /\ \/ d.file = dumper[q].file /\ d.file # n
                 \/ d.file = NoName /\ disk'[dumper[q].file] = NoFile
<1> USE Constants
<1>1. \A q \in Pids : dumper[q] \in Dumpers
  BY DEF TypeOK
<1>2. disk' \in [Names -> FileRecs] /\ disk'[n] = NoFile /\ \A m \in Names : m # n => disk'[m] = disk[m]
  BY NoFileFacts DEF TypeOK, Removed
<1>3. ASSUME NEW q \in Pids
      PROVE  /\ Follows(dumper[q], n, NoName) \in Dumpers
             /\ Follows(dumper[q], n, NoName).at = dumper[q].at
             /\ Follows(dumper[q], n, NoName).snap = dumper[q].snap
             /\ Follows(dumper[q], n, NoName).alone = dumper[q].alone
             /\ Follows(dumper[q], n, NoName).file = IF dumper[q].file = n THEN NoName ELSE dumper[q].file
  BY <1>1 DEF Follows, Dumpers
<1>4. QED
  BY <1>2, <1>3

\* A generation that may begin is one.
LEMMA NextGen == TypeOK /\ MayDump => gen + 1 \in Gens /\ gen + 1 \in 0..MaxGen
<1> SUFFICES ASSUME TypeOK, MayDump PROVE gen + 1 \in Gens /\ gen + 1 \in 0..MaxGen
  OBVIOUS
<1>1. scope.gens[run] \in 0..MaxGen /\ gen \in 0..MaxGen
  BY CheckpointAssumption DEF TypeOK
<1>2. QED
  BY <1>1, CheckpointAssumption DEF MayDump, Gens

\* The server's own steps.
LEMMA ServerKeeps ==
  ASSUME TypeOK, DumpInv,
         \/ Modify \/ Request \/ StartCheckpoint \/ ForkCheckpointer \/ ForkFails
         \/ Shutdown \/ FinalDump \/ Panic \/ PanicDumped \/ Kill \/ Crash
         \/ Restart \/ RestartFails
  PROVE  TypeOK' /\ DumpInv'
<1> USE Constants, PidFacts, GoneFacts
<1>0. mem >= base /\ base \in Nat /\ mem \in Nat
  BY DEF DumpInv, ProcessInv, TypeOK
<1>1. CASE Modify
  <2>1. mem' \in Versions /\ mem' >= base
    BY <1>0, <1>1, CheckpointAssumption DEF Modify, TypeOK, Versions
  <2>2. TypeOK'
    BY <1>1, <2>1 DEF Modify, TypeOK
  <2>3. QED
    BY <1>1, <2>1, <2>2, LosesKeeps DEF Modify
<1>2. CASE Request \/ StartCheckpoint \/ Shutdown \/ PanicDumped
  <2>1. TypeOK'
    BY <1>2 DEF Request, StartCheckpoint, Shutdown, PanicDumped, TypeOK, ServerStates
  <2>2. UNCHANGED <<run, base, mem, gen, dumper, disk>>
    BY <1>2 DEF Request, StartCheckpoint, Shutdown, PanicDumped
  <2>3. QED
    BY <1>0, <2>1, <2>2, LosesKeeps
<1>3. ASSUME NEW c \in BOOLEAN, BeginDump(c), UNCHANGED <<scope, run, base, mem, shutdown, requested>>,
             server' \in ServerStates, unanswered' \in BOOLEAN
      PROVE  TypeOK' /\ DumpInv'
  <2> DEFINE p0 == <<run, gen + 1>>
             f == Dumper("forked", mem, c)
  <2>1. gen + 1 \in Gens /\ gen + 1 \in 0..MaxGen /\ gen' = gen + 1 /\ RemovePrevious
    BY <1>3, NextGen DEF BeginDump
  <2>2. p0 \in Pids /\ Run(p0) = run /\ Gen(p0) = gen + 1
    BY <2>1 DEF TypeOK
  <2>3. f \in Dumpers /\ f.at = "forked" /\ f.snap = mem /\ f.file = NoName
    BY <1>3 DEF Dumper, Dumpers, Steps, TypeOK
  <2>4. dumper' = [p \in Pids |-> IF p = p0 THEN f ELSE AfterRemovePrevious(dumper[p])]
    BY <1>3 DEF BeginDump, Forked
  <2>5. TypeOK'
    <3>1. dumper' \in [Pids -> Dumpers]
      BY <2>1, <2>3, <2>4, PreviousRemoved
    <3>2. disk' \in [Names -> FileRecs]
      BY <2>1, PreviousRemoved
    <3>3. QED
      BY <1>3, <2>1, <3>1, <3>2 DEF TypeOK
  <2>6. \A q \in Pids :
           \/ /\ Run(q) = run /\ gen' = gen + 1 /\ Gen(q) = gen'
              /\ dumper'[q].at = "forked" /\ dumper'[q].snap = mem'
              /\ dumper'[q].file = NoName
           \/ /\ dumper'[q].snap = dumper[q].snap /\ dumper'[q].alone = dumper[q].alone
              /\ \/ dumper'[q].file = dumper[q].file
                 \/ dumper'[q].file = NoName /\ disk'[dumper[q].file] = NoFile
              /\ dumper'[q].at = dumper[q].at
    <3> TAKE q \in Pids
    <3>1. CASE q = p0
      BY <1>3, <2>1, <2>2, <2>3, <2>4, <3>1
    <3>2. CASE q # p0
      BY <2>1, <2>4, <3>2, PreviousRemoved
    <3>3. QED
      BY <3>1, <3>2
  <2>7. \A q \in Pids : dumper'[q].file = gen => gen = 0
    <3> TAKE q \in Pids
    <3>1. CASE q = p0
      BY <2>2, <2>3, <2>4, <3>1 DEF TypeOK, NoName
    <3>2. CASE q # p0
      <4>1. dumper'[q] = AfterRemovePrevious(dumper[q])
        BY <2>4, <3>2
      <4>2. QED
        BY <2>1, <4>1, PreviousRemoved DEF TypeOK, NoName
    <3>3. QED
      BY <3>1, <3>2
  <2>8. \A m \in Names : \/ disk'[m] = disk[m]
                         \/ /\ m # Input /\ disk'[m] = NoFile
                            /\ \A q \in Pids : dumper'[q].file # m
    BY <2>1, <2>7, PreviousRemoved DEF Gens
  <2>9. QED
    BY <1>0, <1>3, <2>1, <2>5, <2>6, <2>8, LosesKeeps
<1>4. CASE ForkCheckpointer \/ FinalDump
  BY <1>3, <1>4 DEF ForkCheckpointer, FinalDump, ServerStates, TypeOK
<1>5. CASE ForkFails \/ Panic
  <2>1. /\ RemovePrevious /\ dumper' = [p \in Pids |-> AfterRemovePrevious(dumper[p])]
        /\ UNCHANGED <<scope, run, base, mem, shutdown, requested>>
        /\ server' \in ServerStates /\ unanswered' \in BOOLEAN
    BY <1>5 DEF ForkFails, Panic, ServerStates, TypeOK
  <2>2. gen' \in 0..MaxGen /\ (gen' = gen \/ gen' = gen + 1)
    BY <1>5, NextGen DEF ForkFails, Panic, TypeOK
  <2>3. TypeOK'
    <3>1. dumper' \in [Pids -> Dumpers]
      BY <2>1, PreviousRemoved
    <3>2. disk' \in [Names -> FileRecs]
      BY <2>1, PreviousRemoved
    <3>3. QED
      BY <2>1, <2>2, <3>1, <3>2 DEF TypeOK
  <2>4. \A q \in Pids :
              /\ dumper'[q].snap = dumper[q].snap /\ dumper'[q].alone = dumper[q].alone
              /\ \/ dumper'[q].file = dumper[q].file
                 \/ dumper'[q].file = NoName /\ disk'[dumper[q].file] = NoFile
              /\ dumper'[q].at = dumper[q].at
    BY <2>1, PreviousRemoved
  <2>5. \A q \in Pids : dumper'[q].file = gen => gen = 0
    <3> TAKE q \in Pids
    <3>1. dumper'[q] = AfterRemovePrevious(dumper[q])
      BY <2>1
    <3>2. QED
      BY <2>1, <3>1, PreviousRemoved DEF TypeOK, NoName
  <2>6. \A m \in Names : \/ disk'[m] = disk[m]
                         \/ /\ m # Input /\ disk'[m] = NoFile
                            /\ \A q \in Pids : dumper'[q].file # m
    BY <2>1, <2>5, PreviousRemoved DEF Gens
  <2>7. QED
    BY <1>0, <2>1, <2>2, <2>3, <2>4, <2>6, LosesKeeps
<1>6. CASE Kill \/ Crash
  <2>1. /\ \A q \in Pids : dumper'[q] = dumper[q] \/ dumper'[q] = Gone
        /\ dumper' \in [Pids -> Dumpers]
    BY <1>6 DEF Kill, Crash, TypeOK
  <2>2. UNCHANGED <<scope, run, base, mem, gen, disk, shutdown, requested, unanswered>> /\ server' = "down"
    BY <1>6 DEF Kill, Crash
  <2>3. TypeOK'
    BY <2>1, <2>2 DEF TypeOK, ServerStates
  <2>4. QED
    BY <1>0, <2>1, <2>2, <2>3, LosesKeeps
<1>7. CASE Restart \/ RestartFails
  <2>1. MoveOutput /\ MayStart
    BY <1>7 DEF Restart, RestartFails
  <2>2. dumper' \in [Pids -> Dumpers] /\ disk' \in [Names -> FileRecs]
    <3>1. CASE ~disk[Dump].there
      BY <2>1, <3>1 DEF MoveOutput, TypeOK
    <3>2. CASE disk[Dump].there
      <4>1. \A q \in Pids : dumper[q] \in Dumpers
        BY DEF TypeOK
      <4>2. \A q \in Pids : Follows(dumper[q], Dump, Input) \in Dumpers
        BY <4>1 DEF Follows, Dumpers
      <4>3. QED
        BY <2>1, <3>2, <4>2, NoFileFacts DEF MoveOutput, Renamed, TypeOK
    <3>3. QED
      BY <3>1, <3>2
  <2>3. NextInput \in FileRecs
    BY DEF NextInput, TypeOK
  <2>4. CASE Restart
    <3>1. NextInput.data \in Versions
      BY <2>3, <2>4 DEF Restart, Loads, FileRecs
    <3>2. run + 1 \in Runs
      <4>1. scope.runs \in Runs /\ run \in Runs
        BY CheckpointAssumption DEF TypeOK
      <4>2. QED
        BY <2>1, <4>1, CheckpointAssumption DEF MayStart, Runs
    <3>3. TypeOK'
      <4>1. gen' \in 0..MaxGen /\ server' \in ServerStates
        BY <2>4, CheckpointAssumption DEF Restart, StartWith, ServerStates
      <4>2. /\ scope' = scope /\ run' = run + 1
            /\ base' = NextInput.data /\ mem' = NextInput.data
            /\ shutdown' = FALSE /\ requested' = FALSE /\ unanswered' = FALSE
        BY <2>4 DEF Restart, StartWith
      <4>3. QED
        BY <2>2, <3>1, <3>2, <4>1, <4>2 DEF TypeOK
    <3>4. QED
      BY <2>1, <2>4, <3>3, RestartKeeps DEF Restart, StartWith
  <2>5. CASE RestartFails
    <3>1. TypeOK'
      BY <2>2, <2>5 DEF RestartFails, TypeOK
    <3>2. QED
      BY <2>1, <2>5, <3>1, RestartKeeps DEF RestartFails
  <2>6. QED
    BY <1>7, <2>4, <2>5
<1>8. QED
  BY <1>1, <1>2, <1>4, <1>5, <1>6, <1>7

\* The steps of the processes in dump_database.
LEMMA DumperKeeps ==
  ASSUME TypeOK, DumpInv, NEW p \in Pids, DumpStep(p)
  PROVE  TypeOK' /\ DumpInv'
<1> USE Constants, PidFacts, GoneFacts
<1>0. mem >= base /\ base \in Nat /\ mem \in Nat /\ mem \in Versions
  BY DEF DumpInv, ProcessInv, TypeOK
<1>a. dumper[p] \in Dumpers /\ dumper[p].snap \in Versions /\ dumper[p].child \in BOOLEAN
        /\ dumper[p].file \in Names \cup {NoName}
  BY DEF TypeOK, Dumpers
<1>b. Gen(p) \in Gens /\ Gen(p) \in Names /\ disk[Gen(p)] \in FileRecs
  BY DEF TypeOK
<1>1. CASE OpenTemp(p)
  <2>1. disk' \in [Names -> FileRecs]
    <3>1. File(Partial, disk[Gen(p)].hands \cup {Run(p)}) \in FileRecs
      BY <1>b DEF File, FileRecs
    <3>2. QED
      BY <1>1, <3>1 DEF OpenTemp, TypeOK
  <2>2. dumper' \in [Pids -> Dumpers]
    <3>1. \A q \in Pids : dumper[q] \in Dumpers
      BY DEF TypeOK
    <3>2. \A q \in Pids, b \in BOOLEAN :
            [dumper[q] EXCEPT !.at = "open", !.file = Gen(p), !.alone = b] \in Dumpers
      BY <1>b, <3>1 DEF Dumpers, Steps
    <3>3. \A q \in Pids : [dumper[q] EXCEPT !.alone = FALSE] \in Dumpers
      BY <3>1 DEF Dumpers
    <3>4. QED
      BY <1>1, <3>1, <3>2, <3>3 DEF OpenTemp
  <2>3. TypeOK'
    BY <1>1, <2>1, <2>2 DEF OpenTemp, TypeOK
  <2>4. QED
    BY <1>1, <2>3, OpenKeeps
<1>2. ASSUME NEW from, Exits(p, from), UNCHANGED <<scope, run, requested, unanswered, base, mem, gen, disk>>,
             shutdown' \in BOOLEAN
      PROVE  TypeOK' /\ DumpInv'
  <2>1. dumper' = [dumper EXCEPT ![p] = Gone] /\ server' \in {server, "down"}
    BY <1>2 DEF Exits
  <2>2. dumper' \in [Pids -> Dumpers] /\ \A q \in Pids : dumper'[q] = dumper[q] \/ dumper'[q] = Gone
    BY <2>1 DEF TypeOK
  <2>3. TypeOK'
    BY <1>2, <2>1, <2>2 DEF TypeOK, ServerStates
  <2>4. QED
    BY <1>0, <1>2, <2>2, <2>3, LosesKeeps
<1>3. CASE OpenFails(p) \/ ChildPanics(p) \/ RenameFails(p)
  <2>1. \E from \in Steps : Exits(p, from)
    BY <1>3 DEF OpenFails, ChildPanics, RenameFails, Steps
  <2>2. UNCHANGED <<scope, run, requested, unanswered, base, mem, gen, disk>> /\ shutdown' \in BOOLEAN
    BY <1>3 DEF OpenFails, ChildPanics, RenameFails, TypeOK
  <2>3. QED
    BY <1>2, <2>1, <2>2
<1>4. CASE WriteTemp(p) \/ FlushFails(p)
  <2>1. /\ GoesOn(p, "open", "synced")
        /\ UNCHANGED <<scope, run, shutdown, requested, unanswered, base, mem, gen>>
    BY <1>4 DEF WriteTemp, FlushFails
  <2>2. PICK d \in {dumper[p].snap, Truncated, Partial} :
          Holds(p, d) /\ (d = Partial => ~dumper[p].alone)
    BY <1>4, <1>a DEF WriteTemp, FlushFails
  <2>3. disk' \in [Names -> FileRecs]
    <3>1. \A n \in Names : [disk[n] EXCEPT !.data = d] \in FileRecs
      BY <1>a DEF TypeOK, FileRecs
    <3>2. QED
      BY <1>a, <2>2, <3>1 DEF Holds, TypeOK
  <2>4. dumper' \in [Pids -> Dumpers] /\ server' = server
    <3>1. Dumper("synced", dumper[p].snap, dumper[p].child) \in Dumpers
      BY <1>a DEF Dumper, Dumpers, Steps
    <3>2. QED
      BY <2>1, <3>1 DEF GoesOn, TypeOK
  <2>5. TypeOK'
    BY <2>1, <2>3, <2>4 DEF TypeOK
  <2>6. QED
    BY <2>1, <2>2, <2>5, WriteKeeps
<1>5. CASE WriteFails(p)
  <2>1. /\ disk' = Removed(Gen(p))
        /\ dumper' = [q \in Pids |-> IF q = p THEN Gone ELSE Follows(dumper[q], Gen(p), NoName)]
        /\ UNCHANGED <<scope, run, server, shutdown, requested, unanswered, base, mem, gen>>
    BY <1>5 DEF WriteFails
  <2>2. \A q \in Pids :
          /\ dumper'[q] \in Dumpers /\ dumper'[q].file # Gen(p)
          /\ \/ dumper'[q].at = "gone" /\ dumper'[q].file = NoName
             \/ /\ dumper'[q].snap = dumper[q].snap /\ dumper'[q].alone = dumper[q].alone
                /\ \/ dumper'[q].file = dumper[q].file
                   \/ dumper'[q].file = NoName /\ disk'[dumper[q].file] = NoFile
                /\ dumper'[q].at = dumper[q].at
    BY <1>b, <2>1, NameRemoved
  <2>3. TypeOK'
    <3>1. disk' \in [Names -> FileRecs]
      BY <1>b, <2>1, NameRemoved
    <3>2. dumper' \in [Pids -> Dumpers]
      BY <2>1, <2>2
    <3>3. QED
      BY <2>1, <3>1, <3>2 DEF TypeOK
  <2>4. \A m \in Names : \/ disk'[m] = disk[m]
                         \/ /\ m # Input /\ disk'[m] = NoFile
                            /\ \A q \in Pids : dumper'[q].file # m
    <3>1. \A m \in Names : disk'[m] = disk[m] \/ (m = Gen(p) /\ disk'[m] = NoFile)
      BY <1>b, <2>1, NameRemoved
    <3>2. QED
      BY <1>b, <2>2, <3>1
  <2>5. QED
    BY <1>0, <2>1, <2>2, <2>3, <2>4, LosesKeeps
<1>6. CASE RetryDump(p)
  <2> DEFINE p0 == <<run, gen + 1>>
             f == Dumper("forked", mem, FALSE)
  <2>1. /\ disk' = Removed(Gen(p)) /\ gen' = gen + 1 /\ MayDump
        /\ dumper' = [q \in Pids |-> IF q = p THEN Gone ELSE IF q = p0 THEN f
                                     ELSE Follows(dumper[q], Gen(p), NoName)]
        /\ UNCHANGED <<scope, run, server, shutdown, requested, unanswered, base, mem>>
    BY <1>6 DEF RetryDump, Forked
  <2>2. gen + 1 \in Gens /\ gen + 1 \in 0..MaxGen
    BY <2>1, NextGen
  <2>3. p0 \in Pids /\ Run(p0) = run /\ Gen(p0) = gen + 1
    BY <2>2 DEF TypeOK
  <2>4. f \in Dumpers /\ f.at = "forked" /\ f.snap = mem /\ f.file = NoName
    BY <1>0 DEF Dumper, Dumpers, Steps
  <2>5. \A q \in Pids :
          /\ dumper'[q] \in Dumpers /\ dumper'[q].file # Gen(p)
          /\ \/ dumper'[q].at = "gone" /\ dumper'[q].file = NoName
             \/ /\ Run(q) = run /\ gen' = gen + 1 /\ Gen(q) = gen'
                /\ dumper'[q].at = "forked" /\ dumper'[q].snap = mem'
                /\ dumper'[q].file = NoName
             \/ /\ dumper'[q].snap = dumper[q].snap /\ dumper'[q].alone = dumper[q].alone
                /\ \/ dumper'[q].file = dumper[q].file
                   \/ dumper'[q].file = NoName /\ disk'[dumper[q].file] = NoFile
                /\ dumper'[q].at = dumper[q].at
    <3> TAKE q \in Pids
    <3>1. CASE q = p
      BY <1>b, <2>1, <3>1
    <3>2. CASE q # p /\ q = p0
      BY <1>b, <2>1, <2>3, <2>4, <3>2
    <3>3. CASE q # p /\ q # p0
      <4>1. dumper'[q] = Follows(dumper[q], Gen(p), NoName)
        BY <2>1, <3>3
      <4> DEFINE e == Follows(dumper[q], Gen(p), NoName)
      <4>2. /\ e \in Dumpers /\ e.at = dumper[q].at /\ e.snap = dumper[q].snap
            /\ e.alone = dumper[q].alone
            /\ \/ e.file = dumper[q].file /\ e.file # Gen(p)
               \/ e.file = NoName /\ disk'[dumper[q].file] = NoFile
        <5>1. dumper[q] \in Dumpers /\ disk'[Gen(p)] = NoFile
          BY <1>b, <2>1 DEF Removed, TypeOK
        <5>2. QED
          BY <1>b, <5>1 DEF Follows, Dumpers
      <4>3. QED
        BY <1>b, <4>1, <4>2
    <3>4. QED
      BY <3>1, <3>2, <3>3
  <2>6. TypeOK'
    <3>1. disk' \in [Names -> FileRecs]
      BY <1>b, <2>1, NameRemoved
    <3>2. dumper' \in [Pids -> Dumpers]
      BY <2>1, <2>5
    <3>3. QED
      BY <2>1, <2>2, <3>1, <3>2 DEF TypeOK
  <2>7. \A m \in Names : \/ disk'[m] = disk[m]
                         \/ /\ m # Input /\ disk'[m] = NoFile
                            /\ \A q \in Pids : dumper'[q].file # m
    <3>1. \A m \in Names : disk'[m] = disk[m] \/ (m = Gen(p) /\ disk'[m] = NoFile)
      BY <1>b, <2>1, NameRemoved
    <3>2. QED
      BY <1>b, <2>5, <3>1
  <2>8. QED
    BY <1>0, <2>1, <2>5, <2>6, <2>7, LosesKeeps
<1>7. CASE RemoveOld(p)
  <2>1. /\ disk' = Removed(Dump) /\ dumper[p].at = "synced"
        /\ dumper' = [q \in Pids |-> IF q = p THEN [dumper[q] EXCEPT !.at = "removed"]
                                     ELSE Follows(dumper[q], Dump, NoName)]
        /\ UNCHANGED <<scope, run, server, shutdown, requested, unanswered, base, mem, gen>>
    BY <1>7 DEF RemoveOld
  <2>2. dumper[p].file = NoName
    BY <2>1 DEF DumpInv, ProcessInv, OpenOk
  <2>3. \A q \in Pids :
          /\ dumper'[q] \in Dumpers /\ dumper'[q].file # Dump
          /\ dumper'[q].snap = dumper[q].snap /\ dumper'[q].alone = dumper[q].alone
          /\ \/ dumper'[q].file = dumper[q].file
             \/ dumper'[q].file = NoName /\ disk'[dumper[q].file] = NoFile
          /\ \/ dumper'[q].at = dumper[q].at
             \/ dumper[q].at = "synced" /\ dumper'[q].at = "removed"
    <3> TAKE q \in Pids
    <3>1. CASE q = p
      <4>1. dumper'[p] = [dumper[p] EXCEPT !.at = "removed"]
        BY <2>1
      <4>2. QED
        BY <1>a, <2>1, <2>2, <3>1, <4>1 DEF Dumpers, Steps
    <3>2. CASE q # p
      BY <2>1, <3>2, NameRemoved
    <3>3. QED
      BY <3>1, <3>2
  <2>4. TypeOK'
    <3>1. disk' \in [Names -> FileRecs]
      BY <2>1, NameRemoved
    <3>2. dumper' \in [Pids -> Dumpers]
      BY <2>1, <2>3
    <3>3. QED
      BY <2>1, <3>1, <3>2 DEF TypeOK
  <2>5. \A m \in Names : \/ disk'[m] = disk[m]
                         \/ /\ m # Input /\ disk'[m] = NoFile
                            /\ \A q \in Pids : dumper'[q].file # m
    BY <2>1, <2>3, NameRemoved
  <2>6. QED
    BY <1>0, <2>1, <2>3, <2>4, <2>5, LosesKeeps
<1>8. CASE Rename(p)
  <2>1. disk' \in [Names -> FileRecs]
    <3>1. File(disk[Gen(p)].data, disk[Gen(p)].hands \cup {Run(p)}) \in FileRecs
      BY <1>b DEF File, FileRecs
    <3>2. QED
      BY <1>8, <1>b, <3>1, NoFileFacts DEF Rename, TypeOK
  <2>2. dumper' \in [Pids -> Dumpers]
    <3>1. \A q \in Pids : dumper[q] \in Dumpers
      BY DEF TypeOK
    <3>2. \A q \in Pids : Follows(dumper[q], Gen(p), Dump) \in Dumpers
      BY <1>b, <3>1 DEF Follows, Dumpers
    <3>3. QED
      BY <1>8, <3>2 DEF Rename
  <2>3. TypeOK'
    BY <1>8, <2>1, <2>2 DEF Rename, TypeOK, ServerStates
  <2>4. QED
    BY <1>8, <2>3, RenameKeeps
<1>9. QED
  BY <1>1, <1>3, <1>4, <1>5, <1>6, <1>7, <1>8 DEF DumpStep

\* Every step keeps the types and the invariant.
LEMMA NextKeeps == TypeOK /\ DumpInv /\ [Next]_vars => (TypeOK /\ DumpInv)'
<1> SUFFICES ASSUME TypeOK, DumpInv, [Next]_vars PROVE (TypeOK /\ DumpInv)'
  OBVIOUS
<1>1. CASE \E p \in Pids : DumpStep(p)
  BY <1>1, DumperKeeps
<1>2. CASE UNCHANGED vars
  <2>1. TypeOK'
    BY <1>2 DEF vars, TypeOK
  <2>2. mem >= base
    BY DEF DumpInv, ProcessInv
  <2>3. UNCHANGED <<run, base, mem, gen, dumper, disk>>
    BY <1>2 DEF vars
  <2>4. QED
    BY <2>1, <2>2, <2>3, LosesKeeps
<1>3. CASE Next /\ ~(\E p \in Pids : DumpStep(p))
  BY <1>3, ServerKeeps DEF Next
<1>4. QED
  BY <1>1, <1>2, <1>3

\* The variables keep their types: in particular the server never loads a
\* version from a file that does not hold one.  Stated with the invariant on
\* processes, files and the output that the next two theorems rest on.
THEOREM TypeCorrect == Spec => [](TypeOK /\ DumpInv)
  BY InitHolds, NextKeeps, PTL DEF Spec

\* A file that is still being written or was given up gets the name of the
\* database only where dumpers of two runs met on one temporary name, whatever
\* fails and however many checkpointers overlap: dump_database only renames a
\* temporary file that it has written and synced, and dump_generation keeps the
\* dumpers of a run apart.
THEOREM DumpsAreWhole == Spec => []NeverTorn
<1>1. DumpInv => NeverTorn
  BY DEF DumpInv, OutputInv, NeverTorn
<1>2. QED
  BY <1>1, TypeCorrect, PTL

\* What a restart finds.
LEMMA BaseStep == TypeOK /\ DumpInv /\ [Next]_vars => base' >= base \/ Outlived
<1> SUFFICES ASSUME TypeOK, DumpInv, [Next]_vars PROVE base' >= base \/ Outlived
  OBVIOUS
<1> USE Constants
<1>0. base \in Nat /\ run \in Nat
  BY DEF TypeOK
<1>1. CASE Restart
  <2> SUFFICES ASSUME ~Outlived PROVE base' >= base
    OBVIOUS
  <2>1. base' = NextInput.data /\ NextInput.data \notin {Partial, Truncated} /\ ~Shared(NextInput)
    BY <1>1 DEF Restart, StartWith, Loads, Outlived
  <2>2. CASE disk[Dump].there
    <3>1. NextInput = disk[Dump] /\ FileOk(Dump) /\ disk[Dump] \in FileRecs
      BY <2>2 DEF NextInput, DumpInv, FileInv, TypeOK
    <3>2. \A r \in disk[Dump].hands : r \in Nat /\ r <= run /\ ~(r < run)
      BY <2>2, <3>1 DEF Outlived, FileOk, FileRecs
    <3>3. \A r \in disk[Dump].hands : r = run
      BY <1>0, <3>2
    <3>4. disk[Dump].data \in Versions
      BY <2>1, <3>1 DEF FileRecs
    <3>5. QED
      BY <2>1, <2>2, <3>1, <3>3, <3>4 DEF FileOk
  <2>3. CASE ~disk[Dump].there
    BY <1>0, <2>1, <2>3 DEF NextInput, DumpInv, OutputInv
  <2>4. QED
    BY <2>2, <2>3
<1>2. CASE base' = base
  BY <1>0, <1>2
<1>3. CASE \E p \in Pids : DumpStep(p)
  <2>1. base' = base
    BY <1>3 DEF DumpStep, OpenTemp, OpenFails, WriteTemp, FlushFails, WriteFails, RetryDump,
       ChildPanics, RemoveOld, Rename, RenameFails
  <2>2. QED
    BY <1>2, <2>1
<1>4. QED
  BY <1>1, <1>2, <1>3 DEF Next, Modify, Request, StartCheckpoint, ForkCheckpointer, ForkFails,
     Shutdown, FinalDump, Panic, PanicDumped, Kill, Crash, RestartFails, vars

\* A run starts from an older database than the run before only from a file that a
\* dumper of an earlier run had its hands on after its run had ended, or that
\* dumpers of two runs wrote: restart.sh moves whatever has the output's name, and
\* db_shutdown waits for no checkpointer, so nothing stronger holds.
THEOREM InputMonotone == Spec => InputNeverOlder
<1>1. TypeOK /\ DumpInv /\ [Next]_vars => [base' >= base \/ Outlived]_vars
  BY BaseStep
<1>2. QED
  BY <1>1, TypeCorrect, PTL DEF Spec, InputNeverOlder

\* No request for a checkpoint is lost: main_loop clears checkpoint_requested
\* before it runs #0:checkpoint_started and takes the snapshot after it, or says
\* that the checkpoint failed.
THEOREM RequestsServed == Spec => []NoLostRequest
<1>1. Init => RequestInv
  BY DEF Init, RequestInv
<1>2. RequestInv /\ [Next]_vars => RequestInv'
  <2> SUFFICES ASSUME RequestInv, [Next]_vars PROVE RequestInv'
    OBVIOUS
  <2> USE DEF RequestInv
  <2>1. CASE \E p \in Pids : DumpStep(p)
    <3>1. UNCHANGED <<requested, unanswered>> /\ server' \in {server, "down"}
      BY <2>1 DEF DumpStep, OpenTemp, OpenFails, WriteTemp, FlushFails, WriteFails, RetryDump,
         ChildPanics, RemoveOld, Rename, RenameFails, GoesOn, Exits
    <3>2. QED
      BY <3>1
  <2>2. CASE Modify \/ Request \/ StartCheckpoint \/ Shutdown
    BY <2>2 DEF Modify, Request, StartCheckpoint, Shutdown
  <2>3. CASE ForkCheckpointer \/ ForkFails \/ FinalDump
    BY <2>3 DEF ForkCheckpointer, ForkFails, FinalDump
  <2>4. CASE Panic \/ PanicDumped \/ Kill \/ Crash
    BY <2>4 DEF Panic, PanicDumped, Kill, Crash
  <2>5. CASE Restart \/ RestartFails
    BY <2>5 DEF Restart, StartWith, RestartFails
  <2>6. CASE UNCHANGED vars
    BY <2>6 DEF vars
  <2>7. QED
    BY <2>1, <2>2, <2>3, <2>4, <2>5, <2>6 DEF Next
<1>3. RequestInv => NoLostRequest
  BY DEF RequestInv, NoLostRequest
<1>4. QED
  BY <1>1, <1>2, <1>3, PTL DEF Spec
=============================================================================
