--------------------------- MODULE RunOutputProofs --------------------------
(***************************************************************************)
(* What a run leaves on the disk, proved for any number of boards, rows,   *)
(* files and failures: waveforms aligned with events, totals in every      *)
(* file, books that agree, and losses that show in the integrity check.    *)
(*                                                                         *)
(* The operations of the writer come first: each leaves every board's rows *)
(* where they were (Kept), or adds rows of one board at the end of the     *)
(* last file (Grown). From that follows what a step does to the rows of a  *)
(* board and to their alignment, and from that that every step keeps IInv. *)
(***************************************************************************)
EXTENDS RunOutput, FiniteSetTheorems, SequenceTheorems, TLAPS

Blank(f) == \A b \in Boards : f.events[b] = <<>> /\ f.waves[b] = <<>>

(* the rows are the same, and no dataset appears beside rows that lack it *)
NoNewTraces(f, g, b) == b \in g.traces /\ f.events[b] # <<>> => b \in f.traces

Same(f, g, b) ==
  g.events[b] = f.events[b] /\ g.waves[b] = f.waves[b] /\ NoNewTraces(f, g, b)

(* The files hold the same rows of board b before and after a step: a file  *)
(* that comes or goes has none.                                             *)
Kept(b) ==
  /\ \A i \in DOMAIN files' :
       \/ i \in DOMAIN files /\ Same(files[i], files'[i], b)
       \/ i \notin DOMAIN files /\ files'[i].events[b] = <<>> /\ files'[i].waves[b] = <<>>
  /\ \A i \in DOMAIN files : i \in DOMAIN files'

(* They hold more rows of it, at the end of the last file. *)
Grown(b, ev, wv) ==
  LET n == Len(files') IN
    /\ n \in DOMAIN files' /\ \A i \in DOMAIN files : i \in DOMAIN files'
    /\ \A i \in DOMAIN files' : i # n => i \in DOMAIN files /\ Same(files[i], files'[i], b)
    /\ IF n \in DOMAIN files
         THEN /\ files'[n].events[b] = files[n].events[b] \o ev
              /\ files'[n].waves[b] = files[n].waves[b] \o wv
              /\ NoNewTraces(files[n], files'[n], b)
         ELSE files'[n].events[b] = ev /\ files'[n].waves[b] = wv

(* Files that are closed are flushed. *)
Flushed ==
  \A i \in DOMAIN files, b \in Boards :
    i < Len(files) \/ ~opened => files[i].safe[b] = Len(files[i].events[b])

Synchronized == \A i \in DOMAIN files, b \in Boards : files[i].safe[b] = Len(files[i].events[b])

(* A step flushes nothing; a file that comes has nothing flushed. *)
Unsynced ==
  \A i \in DOMAIN files', b \in Boards :
    files'[i].safe[b] = IF i \in DOMAIN files THEN files[i].safe[b] ELSE 0

(* No _open failed. *)
AllGroups == \A i \in DOMAIN files : files[i].groups = Boards /\ files[i].tables = Boards

(* A reader that died has written what it counted. *)
LosesNone == \A b \in Boards : reader[b] = "dead" => 1..events[b] \subseteq Rows(b)

-----------------------------------------------------------------------------
(* The operations of the writer *)

LEMMA FilesType ==
  ASSUME WriterTypeOK
  PROVE  /\ files \in Seq(File) /\ Len(files) \in Nat /\ DOMAIN files = 1..Len(files)
         /\ \A i \in DOMAIN files : files[i] \in File
         /\ opened => Len(files) \in DOMAIN files
  BY EmptySeq, LenProperties, ElementOfSeq DEF WriterTypeOK

LEMMA NewFileType ==
  ASSUME NEW g \in 0..NBoards, NEW t \in 0..NBoards, NEW w \in 0..NBoards, w <= t, t <= g
  PROVE  /\ NewFile(g, t, w) \in File /\ FileOK(NewFile(g, t, w)) /\ Blank(NewFile(g, t, w))
         /\ NewFile(g, t, w).made
         /\ \A b \in Boards : NewFile(g, t, w).safe[b] = Len(NewFile(g, t, w).events[b])
<1>1. NBoards \in Nat /\ 1..g \subseteq Boards /\ 1..t \subseteq 1..g /\ 1..w \subseteq 1..t
  BY RunWriterAssumption DEF Boards
<1> QED
  BY <1>1, EmptySeq DEF NewFile, File, FileOK, Blank

LEMMA WholeFileType ==
  /\ WholeFile \in File /\ FileOK(WholeFile) /\ Blank(WholeFile) /\ WholeFile.made
  /\ WholeFile.groups = Boards /\ WholeFile.tables = Boards
  /\ \A b \in Boards : WholeFile.safe[b] = Len(WholeFile.events[b])
<1>1. NBoards \in 0..NBoards /\ NBoards <= NBoards
  BY RunWriterAssumption
<1>2. WholeFile.groups = Boards /\ WholeFile.tables = Boards
  BY DEF WholeFile, NewFile, Boards
<1> QED
  BY <1>1, <1>2, NewFileType DEF WholeFile

LEMMA NoFileType ==
  /\ NoFile \in File /\ FileOK(NoFile) /\ Blank(NoFile)
  /\ \A b \in Boards : NoFile.safe[b] = Len(NoFile.events[b])
<1> DEFINE f == NewFile(0, 0, 0)
<1>1. /\ f \in File /\ FileOK(f) /\ Blank(f)
      /\ \A b \in Boards : f.safe[b] = Len(f.events[b])
  <2>1. 0 \in 0..NBoards /\ 0 <= 0
    BY RunWriterAssumption
  <2> QED
    BY <2>1, NewFileType
<1>4. f.groups = {}
  BY DEF NewFile
<1>2. NoFile = [f EXCEPT !.made = FALSE]
  BY Zenon DEF NoFile
<1> HIDE DEF f
<1>3. /\ NoFile \in File /\ NoFile.groups = f.groups /\ NoFile.events = f.events
      /\ NoFile.tables = f.tables /\ NoFile.traces = f.traces
      /\ NoFile.waves = f.waves /\ NoFile.safe = f.safe /\ NoFile.summary = f.summary
  BY <1>1, <1>2 DEF File
<1> QED
  BY <1>1, <1>3, <1>4 DEF FileOK, Blank

(* the paths that an _open finds are those of files that have been made;    *)
(* the one that it takes again has no rows                                  *)
LEMMA PathsType ==
  ASSUME WriterTypeOK
  PROVE  /\ Paths \in Seq(File) /\ Len(Paths) \in Nat
         /\ \/ Len(Paths) = Len(files)
            \/ Len(Paths) = Len(files) - 1 /\ Len(files) \in DOMAIN files /\ Blank(files[Len(files)])
         /\ \A i \in 1..Len(Paths) : Paths[i] = files[i]
<1> USE FilesType
<1>1. CASE Paths = files
  BY <1>1, SMTT(40)
<1>2. CASE files # <<>> /\ ~Last(files).made /\ Paths = Front(files)
  <2> DEFINE n == Len(files) - 1
  <2>1. Len(files) \in Nat /\ Len(files) > 0 /\ n \in Nat
    BY <1>2, EmptySeq
  <2>2. \A i \in 1..n : files[i] \in File
    BY <2>1
  <2>3. Front(files) = SubSeq(files, 1, n)
    BY Zenon DEF Front
  <2>4. Blank(files[Len(files)])
    BY <1>2, <2>1 DEF WriterTypeOK, FileOK, Blank, Last
  <2> HIDE DEF n
  <2>5. /\ SubSeq(files, 1, n) \in Seq(File)
        /\ Len(SubSeq(files, 1, n)) = IF 1 <= n THEN n - 1 + 1 ELSE 0
        /\ \A i \in 1..n - 1 + 1 : SubSeq(files, 1, n)[i] = files[1 + i - 1]
    BY <2>1, <2>2, SubSeqProperties
  <2>6. Len(SubSeq(files, 1, n)) = n /\ \A i \in 1..n : SubSeq(files, 1, n)[i] = files[i]
    BY <2>1, <2>5
  <2>7. Paths = SubSeq(files, 1, n) /\ Len(Paths) = n
    BY <1>2, <2>3, <2>6
  <2>8. Len(files) \in DOMAIN files /\ n = Len(files) - 1
    BY <2>1 DEF n
  <2>9. Paths \in Seq(File) /\ \A i \in 1..Len(Paths) : Paths[i] = files[i]
    BY <2>5, <2>6, <2>7
  <2> QED
    BY <2>1, <2>4, <2>7, <2>8, <2>9
<1> QED
  BY <1>1, <1>2 DEF Paths

LEMMA NextIndex ==
  ASSUME NEW n \in Nat, NEW m \in Nat, m = n \/ m = n - 1, NEW r, r = m + 1
  PROVE  /\ r \in Nat \ {0} /\ \A i \in 1..n : i <= r
         /\ \A i \in 1..(r - 1) : i \in 1..m /\ i \in 1..n
         /\ r \in 1..n => r = n /\ m = n - 1
         /\ \A i \in 1..r : i = r \/ i \in 1..(r - 1)
  OBVIOUS

LEMMA ReadyFiles ==
  ASSUME WriterTypeOK
  PROVE  /\ Ready \in Seq(File) /\ Len(Ready) \in Nat \ {0}
         /\ \A i \in DOMAIN files : i <= Len(Ready)
         /\ \A i \in 1..(Len(Ready) - 1) : i \in DOMAIN files /\ Ready[i] = files[i]
         /\ opened => Ready = files
         /\ ~opened => /\ Ready[Len(Ready)] = WholeFile
                       /\ Len(Ready) \in DOMAIN files => Blank(files[Len(Ready)])
<1>1. CASE opened
  BY <1>1, FilesType, SMTT(40) DEF Ready
<1>2. CASE ~opened
  <2>1. WholeFile \in File
    BY WholeFileType
  <2>2. Ready = Append(Paths, WholeFile)
    BY <1>2 DEF Ready
  <2>3. /\ Ready \in Seq(File) /\ Len(Ready) = Len(Paths) + 1
        /\ Ready[Len(Ready)] = WholeFile
        /\ \A i \in 1..Len(Paths) : Ready[i] = Paths[i]
    BY <2>1, <2>2, PathsType, AppendProperties, SMTT(40)
  <2> DEFINE n == Len(files)  m == Len(Paths)  r == Len(Ready)
  <2>4. n \in Nat /\ m \in Nat /\ (m = n \/ m = n - 1) /\ r = m + 1 /\ DOMAIN files = 1..n
    BY <2>3, PathsType, FilesType
  <2>5. \A i \in 1..m : Ready[i] = files[i]
    BY <2>3, PathsType
  <2>6. m = n \/ Blank(files[n])
    BY PathsType
  <2> HIDE DEF n, m, r
  <2>7. /\ r \in Nat \ {0} /\ \A i \in 1..n : i <= r
        /\ \A i \in 1..(r - 1) : i \in 1..m /\ i \in 1..n
        /\ r \in 1..n => r = n /\ m = n - 1
    BY <2>4, NextIndex
  <2>8. \A i \in 1..(r - 1) : i \in DOMAIN files /\ Ready[i] = files[i]
    BY <2>4, <2>5, <2>7
  <2>9. r \in DOMAIN files => Blank(files[r])
    BY <2>4, <2>6, <2>7
  <2> QED
    BY <1>2, <2>3, <2>4, <2>7, <2>8, <2>9 DEF n, m, r
<1> QED
  BY <1>1, <1>2

LEMMA BlankSafe ==
  ASSUME WriterTypeOK, NEW i \in DOMAIN files, Blank(files[i]), NEW b \in Boards
  PROVE  files[i].safe[b] = 0
<1>1. files[i] \in File /\ FileOK(files[i])
  BY FilesType DEF WriterTypeOK
<1>2. files[i].safe[b] \in Nat /\ files[i].safe[b] <= Len(files[i].events[b])
  BY <1>1 DEF File, FileOK
<1>3. Len(files[i].events[b]) = 0
  BY EmptySeq DEF Blank
<1> QED
  BY <1>2, <1>3

(* _open without append: a file without rows *)
LEMMA NewPath ==
  ASSUME WriterTypeOK, Flushed, ~opened,
         NEW x \in File, FileOK(x), Blank(x), \A b \in Boards : x.safe[b] = Len(x.events[b]),
         files' = Append(Paths, x), opened' \in BOOLEAN, opened' => x.made
  PROVE  WriterTypeOK' /\ Flushed' /\ Unsynced /\ \A b \in Boards : Kept(b)
<1> DEFINE n == Len(files)  m == Len(Paths)  r == m + 1
<1>1. n \in Nat /\ m \in Nat /\ (m = n \/ m = n - 1) /\ DOMAIN files = 1..n
  BY PathsType, FilesType
<1>2. m = n \/ Blank(files[n])
  BY PathsType
<1>3. /\ files' \in Seq(File) /\ Len(files') = r /\ files'[r] = x
      /\ \A i \in 1..m : files'[i] = files[i]
      /\ DOMAIN files' = 1..r
  BY PathsType, AppendProperties
<1> HIDE DEF n, m, r
<1>4. /\ r \in Nat \ {0} /\ \A i \in 1..n : i <= r
      /\ \A i \in 1..(r - 1) : i \in 1..m /\ i \in 1..n
      /\ r \in 1..n => r = n /\ m = n - 1
      /\ \A i \in 1..r : i = r \/ i \in 1..(r - 1)
  BY <1>1, NextIndex DEF r
<1>5. \A i \in DOMAIN files' : i = r \/ (i \in DOMAIN files /\ files'[i] = files[i])
  BY <1>1, <1>3, <1>4
<1>6. r \in DOMAIN files => Blank(files[r])
  BY <1>1, <1>2, <1>4
<1>7. WriterTypeOK'
  BY <1>3, <1>4, <1>5, EmptySeq DEF WriterTypeOK, Last
<1>8. Flushed'
  BY <1>3, <1>5 DEF Flushed
<1>9. ASSUME NEW b \in Boards PROVE Kept(b)
  <2>1. ASSUME NEW i \in DOMAIN files PROVE i \in DOMAIN files'
    <3>1. i \in 1..n /\ i \in Nat /\ i > 0 /\ i <= r /\ r \in Nat
      BY <1>1, <1>4
    <3> QED
      BY <1>3, <3>1
  <2>2. ASSUME NEW i \in DOMAIN files'
        PROVE  \/ i \in DOMAIN files /\ Same(files[i], files'[i], b)
               \/ i \notin DOMAIN files /\ files'[i].events[b] = <<>> /\ files'[i].waves[b] = <<>>
    BY <1>3, <1>5, <1>6 DEF Same, NoNewTraces, Blank
  <2> QED
    BY <2>1, <2>2 DEF Kept
<1>10. Unsynced
  <2>1. \A b \in Boards : x.safe[b] = 0
    BY EmptySeq DEF Blank
  <2>2. r \in DOMAIN files => \A b \in Boards : files[r].safe[b] = 0
    BY <1>6, BlankSafe
  <2> QED
    BY <1>3, <1>5, <2>1, <2>2 DEF Unsynced
<1> QED
  BY <1>7, <1>8, <1>9, <1>10, SMTT(40)

(* the operations on a file that is open write its last state to the disk *)
LEMMA SyncStep ==
  ASSUME WriterTypeOK, Flushed, opened, files' = Synced, opened' \in BOOLEAN
  PROVE  /\ WriterTypeOK' /\ Flushed' /\ \A b \in Boards : Kept(b)
         /\ (AllGroups => AllGroups') /\ Synchronized'
<1> DEFINE n == Len(files)
           lengths == [b \in Boards |-> Len(files[n].events[b])]
           f == files[n]
           g == [f EXCEPT !.safe = lengths]
<1>1. /\ files \in Seq(File) /\ n \in Nat /\ DOMAIN files = 1..n /\ n \in 1..n /\ f \in File
      /\ FileOK(f)
  BY FilesType DEF WriterTypeOK
<1>2. lengths \in [Boards -> Nat]
  BY <1>1, LenProperties DEF File
<1>3. files' = [files EXCEPT ![n] = g]
  BY Zenon DEF Synced, Last
<1> HIDE DEF lengths, f
<1>4. /\ g \in File /\ g.made = f.made /\ g.groups = f.groups /\ g.events = f.events
      /\ g.tables = f.tables /\ g.traces = f.traces
      /\ g.waves = f.waves /\ g.safe = lengths /\ g.summary = f.summary
  BY <1>1, <1>2 DEF File
<1> HIDE DEF g, n
<1>5. /\ files' \in Seq(File) /\ Len(files') = n /\ DOMAIN files' = 1..n /\ files'[n] = g
      /\ \A i \in 1..n : i # n => files'[i] = files[i]
  <2>1. files \in Seq(File) /\ n \in 1..Len(files) /\ n = Len(files)
    BY <1>1 DEF n
  <2>2. /\ files' \in Seq(File) /\ Len(files') = n
        /\ \A i \in 1..Len(files) : files'[i] = IF i = n THEN g ELSE files[i]
    BY <1>3, <1>4, <2>1, ExceptSeq
  <2> QED
    BY <1>1, <2>1, <2>2, LenProperties
<1>6. \A b \in Boards : lengths[b] = Len(g.events[b])
  BY <1>4 DEF lengths, f
<1>7. FileOK(g)
  BY <1>1, <1>2, <1>4, <1>6, SMTT(40) DEF FileOK
<1>8. WriterTypeOK'
  BY <1>1, <1>4, <1>5, <1>7, EmptySeq DEF WriterTypeOK, Last, f, n
<1>9. Flushed' /\ Synchronized'
  <2>1. \A i \in 1..n, b \in Boards : i < n => files[i].safe[b] = Len(files[i].events[b])
    BY <1>1 DEF Flushed, n
  <2>2. \A b \in Boards : files'[n].safe[b] = Len(files'[n].events[b])
    BY <1>4, <1>5, <1>6
  <2>3. \A i \in 1..n : i = n \/ (i < n /\ files'[i] = files[i])
    <3>1. \A i \in 1..n : i = n \/ i < n
      BY <1>1
    <3> QED
      BY <1>5, <3>1
  <2> QED
    BY <1>5, <2>1, <2>2, <2>3 DEF Flushed, Synchronized
<1>10. \A b \in Boards : Kept(b)
  BY <1>1, <1>4, <1>5 DEF Kept, Same, NoNewTraces, f
<1>11. AllGroups => AllGroups'
  BY <1>1, <1>4, <1>5 DEF AllGroups, f
<1> QED
  BY <1>8, <1>9, <1>10, <1>11

LEMMA LongerType ==
  ASSUME NEW rows \in [Boards -> Seq(Nat)], NEW b \in Boards, NEW new \in Seq(Nat)
  PROVE  /\ Longer(rows, b, new) \in [Boards -> Seq(Nat)]
         /\ Longer(rows, b, new)[b] = rows[b] \o new
         /\ \A c \in Boards : c # b => Longer(rows, b, new)[c] = rows[c]
  BY ConcatProperties DEF Longer

(* append, as far as it gets: rows at the end of the last file *)
LEMMA ExtendStep ==
  ASSUME WriterTypeOK, Flushed, NEW b \in Boards, NEW ev \in Seq(Nat), NEW wv \in Seq(Nat),
         HasTable(b), Extend(b, ev, wv), opened' = TRUE,
         HasTraces(b) \/ wv = <<>>
  PROVE  /\ WriterTypeOK' /\ Flushed' /\ (AllGroups => AllGroups')
         /\ Grown(b, ev, wv) /\ Unsynced /\ \A c \in Boards : c # b => Kept(c)
         /\ HasTraces(b) <=> b \in files'[Len(files')].traces
<1> DEFINE n == Len(files)  r == Len(Ready)  f == Ready[r]
           evs == Longer(f.events, b, ev)  wvs == Longer(f.waves, b, wv)
           g == [f EXCEPT !.events = evs, !.waves = wvs]
<1>1. /\ n \in Nat /\ DOMAIN files = 1..n /\ r \in Nat \ {0} /\ Ready \in Seq(File)
      /\ \A i \in 1..n : i <= r
      /\ \A i \in 1..(r - 1) : i \in 1..n /\ Ready[i] = files[i]
  BY ReadyFiles, FilesType
<1>2. f \in File /\ b \in f.tables /\ (HasTraces(b) <=> b \in f.traces)
  BY <1>1, ElementOfSeq DEF HasTable, HasTraces, Last
<1>3. FileOK(f) /\ f.made /\ (AllGroups => f.groups = Boards /\ f.tables = Boards)
  <2>1. CASE opened
    BY <2>1, ReadyFiles, FilesType DEF WriterTypeOK, Last, AllGroups
  <2>2. CASE ~opened
    BY <2>2, ReadyFiles, WholeFileType
  <2> QED
    BY <2>1, <2>2
<1>4. IF r \in 1..n
        THEN \A c \in Boards : f.events[c] = files[r].events[c] /\ f.waves[c] = files[r].waves[c]
        ELSE \A c \in Boards : f.events[c] = <<>> /\ f.waves[c] = <<>>
  <2>1. CASE opened
    BY <1>1, <2>1, ReadyFiles, FilesType
  <2>2. CASE ~opened
    BY <1>1, <2>2, ReadyFiles, WholeFileType, SMTT(40) DEF Blank
  <2> QED
    BY <2>1, <2>2
<1>5. /\ evs \in [Boards -> Seq(Nat)] /\ wvs \in [Boards -> Seq(Nat)]
      /\ evs[b] = f.events[b] \o ev /\ wvs[b] = f.waves[b] \o wv
      /\ \A c \in Boards : c # b => evs[c] = f.events[c] /\ wvs[c] = f.waves[c]
  <2>1. f.events \in [Boards -> Seq(Nat)] /\ f.waves \in [Boards -> Seq(Nat)]
    BY <1>2 DEF File
  <2> HIDE DEF f
  <2>2. /\ evs \in [Boards -> Seq(Nat)] /\ evs[b] = f.events[b] \o ev
        /\ \A c \in Boards : c # b => evs[c] = f.events[c]
    BY <2>1, LongerType, Zenon
  <2>3. /\ wvs \in [Boards -> Seq(Nat)] /\ wvs[b] = f.waves[b] \o wv
        /\ \A c \in Boards : c # b => wvs[c] = f.waves[c]
    BY <2>1, LongerType, Zenon
  <2> QED
    BY <2>2, <2>3
<1>18. r \in 1..n => \A c \in Boards : NoNewTraces(files[r], f, c)
  <2>1. CASE opened
    BY <1>1, <2>1, ReadyFiles, FilesType DEF NoNewTraces
  <2>2. CASE ~opened
    BY <1>1, <2>2, ReadyFiles DEF Blank, NoNewTraces
  <2> QED
    BY <2>1, <2>2
<1>6. files' = [Ready EXCEPT ![r] = g]
  BY DEF Extend, Last
<1>16. \A c \in Boards : f.safe[c] = IF r \in 1..n THEN files[r].safe[c] ELSE 0
  <2>1. CASE opened
    BY <1>1, <2>1, ReadyFiles, FilesType
  <2>2. CASE ~opened
    <3>1. \A c \in Boards : f.safe[c] = 0
      <4>1. f = WholeFile
        BY <2>2, ReadyFiles
      <4> HIDE DEF f
      <4>2. \A c \in Boards : f.safe[c] = Len(f.events[c]) /\ f.events[c] = <<>>
        BY <4>1, WholeFileType DEF Blank
      <4> QED
        BY <4>2, EmptySeq
    <3>2. r \in 1..n => \A c \in Boards : files[r].safe[c] = 0
      BY <1>1, <2>2, ReadyFiles, BlankSafe
    <3> QED
      BY <3>1, <3>2
  <2> QED
    BY <2>1, <2>2
<1> HIDE DEF f, evs, wvs
<1>7. /\ g \in File /\ g.made = f.made /\ g.groups = f.groups /\ g.events = evs
      /\ g.tables = f.tables /\ g.traces = f.traces
      /\ g.waves = wvs /\ g.safe = f.safe /\ g.summary = f.summary
  BY <1>2, <1>5 DEF File
<1> HIDE DEF g, n, r
<1>8. /\ files' \in Seq(File) /\ Len(files') = r /\ DOMAIN files' = 1..r /\ files'[r] = g
      /\ \A i \in 1..(r - 1) : i \in 1..r /\ files'[i] = files[i]
      /\ \A i \in 1..r : i = r \/ i \in 1..(r - 1)
  <2>1. r \in 1..Len(Ready) /\ r = Len(Ready)
    BY <1>1 DEF r
  <2>2. /\ files' \in Seq(File) /\ Len(files') = r
        /\ \A i \in 1..Len(Ready) : files'[i] = IF i = r THEN g ELSE Ready[i]
    BY <1>1, <1>6, <1>7, <2>1, ExceptSeq
  <2>3. /\ \A i \in 1..(r - 1) : i \in 1..r /\ i # r
        /\ \A i \in 1..r : i = r \/ i \in 1..(r - 1)
    BY <1>1
  <2> QED
    BY <1>1, <2>1, <2>2, <2>3, LenProperties
<1>9. FileOK(g)
  <2>1. ASSUME NEW c \in Boards PROVE g.safe[c] <= Len(g.events[c])
    <3>1. f.events[b] \in Seq(Nat) /\ f.safe[c] \in Nat /\ f.safe[c] <= Len(f.events[c])
      BY <1>2, <1>3 DEF FileOK, File
    <3>2. CASE c = b
      <4>1. /\ Len(f.events[b] \o ev) = Len(f.events[b]) + Len(ev)
            /\ Len(f.events[b]) \in Nat /\ Len(ev) \in Nat
        BY <3>1, ConcatProperties, LenProperties
      <4> QED
        BY <1>5, <1>7, <3>1, <3>2, <4>1
    <3> QED
      BY <1>5, <1>7, <3>1, <3>2
  <2>2. ASSUME NEW c \in Boards, c \notin g.tables PROVE g.events[c] = <<>>
    BY <1>2, <1>3, <1>5, <1>7, <2>2 DEF FileOK
  <2>3. ASSUME NEW c \in Boards, c \notin g.traces PROVE g.waves[c] = <<>>
    <3>1. f.waves[c] = <<>>
      BY <1>3, <1>7, <2>3 DEF FileOK
    <3>2. CASE c = b
      BY <1>2, <1>5, <1>7, <2>3, <3>1, <3>2, ConcatEmptySeq
    <3> QED
      BY <1>5, <1>7, <3>1, <3>2
  <2> QED
    BY <1>3, <1>7, <2>1, <2>2, <2>3 DEF FileOK
<1>10. WriterTypeOK'
  BY <1>1, <1>3, <1>7, <1>8, <1>9, EmptySeq DEF WriterTypeOK, Last
<1>11. Flushed'
  <2>1. \A i \in 1..(r - 1), c \in Boards : files[i].safe[c] = Len(files[i].events[c])
    <3>1. \A i \in 1..(r - 1) : i \in DOMAIN files /\ (i < n \/ ~opened)
      <4>1. opened => r = n
        BY ReadyFiles DEF r, n
      <4>2. \A i \in 1..(r - 1) : i < r
        BY <1>1
      <4> QED
        BY <1>1, <4>1, <4>2
    <3> QED
      BY <3>1 DEF Flushed, n
  <2>2. \A i \in 1..r : i < r => i \in 1..(r - 1)
    BY <1>1
  <2> QED
    BY <1>8, <2>1, <2>2 DEF Flushed
<1>12. AllGroups => AllGroups'
  BY <1>1, <1>3, <1>7, <1>8 DEF AllGroups
<1>13. ASSUME NEW i \in 1..n PROVE i \in 1..r
  <2>1. i \in Nat /\ i > 0 /\ r \in Nat
    BY <1>1
  <2>2. i <= r
    BY <1>1
  <2> QED
    BY <2>1, <2>2
<1>14. Grown(b, ev, wv)
  <2>1. r \in 1..n => /\ files'[r].events[b] = files[r].events[b] \o ev
                      /\ files'[r].waves[b] = files[r].waves[b] \o wv
                      /\ NoNewTraces(files[r], files'[r], b)
    BY <1>4, <1>5, <1>7, <1>8, <1>18 DEF NoNewTraces
  <2>2. r \notin 1..n => files'[r].events[b] = ev /\ files'[r].waves[b] = wv
    BY <1>4, <1>5, <1>7, <1>8, ConcatEmptySeq
  <2>3. \A i \in 1..r : i # r => i \in 1..n /\ Same(files[i], files'[i], b)
    BY <1>1, <1>8 DEF Same, NoNewTraces
  <2>4. r \in 1..r
    BY <1>1
  <2> QED
    BY <1>1, <1>8, <1>13, <2>1, <2>2, <2>3, <2>4 DEF Grown
<1>15. ASSUME NEW c \in Boards, c # b PROVE Kept(c)
  <2>1. r \in 1..n => Same(files[r], files'[r], c)
    BY <1>4, <1>5, <1>7, <1>8, <1>15, <1>18 DEF Same, NoNewTraces
  <2>2. r \notin 1..n => files'[r].events[c] = <<>> /\ files'[r].waves[c] = <<>>
    BY <1>4, <1>5, <1>7, <1>8, <1>15
  <2>3. \A i \in 1..(r - 1) : i \in 1..n /\ Same(files[i], files'[i], c)
    BY <1>1, <1>8 DEF Same, NoNewTraces
  <2> QED
    BY <1>1, <1>8, <1>13, <2>1, <2>2, <2>3 DEF Kept
<1>17. Unsynced
  BY <1>1, <1>7, <1>8, <1>16 DEF Unsynced
<1>19. HasTraces(b) <=> b \in files'[Len(files')].traces
  BY <1>2, <1>7, <1>8
<1> QED
  BY <1>10, <1>11, <1>12, <1>14, <1>15, <1>17, <1>19

(* add_run_summary for one board, as far as it gets: totals, and no rows *)
LEMMA SummaryStep ==
  ASSUME WriterTypeOK, Flushed, NEW b \in Boards, NEW n \in Nat, AddSummary(b, n),
         UNCHANGED opened
  PROVE  /\ WriterTypeOK' /\ Flushed' /\ (AllGroups => AllGroups')
         /\ Unsynced /\ \A c \in Boards : Kept(c)
         /\ DOMAIN files' = DOMAIN files
         /\ \A i \in DOMAIN files : files[i].summary \subseteq files'[i].summary
         /\ n = Len(files) /\ AllGroups => \A i \in DOMAIN files : b \in files'[i].summary
<1>1. ASSUME NEW i \in DOMAIN files
      PROVE  /\ files'[i] \in File /\ FileOK(files'[i]) /\ files'[i].groups = files[i].groups
             /\ files'[i].tables = files[i].tables /\ files'[i].traces = files[i].traces
             /\ files'[i].events = files[i].events /\ files'[i].waves = files[i].waves
             /\ files'[i].safe = files[i].safe /\ (files[i].made => files'[i].made)
             /\ files[i].summary \subseteq files'[i].summary
             /\ i <= n /\ b \in files[i].groups => b \in files'[i].summary
  <2> DEFINE f == files[i]
  <2>1. f \in File /\ FileOK(f) /\ i \in Nat
    BY FilesType DEF WriterTypeOK
  <2>2. CASE i > n
    BY <2>1, <2>2 DEF AddSummary
  <2>3. CASE ~(i > n) /\ b \in f.groups
    <3>1. files'[i] = [f EXCEPT !.summary = @ \union {b}]
      BY <2>3 DEF AddSummary
    <3> HIDE DEF f
    <3>2. f.summary \union {b} \in SUBSET Boards
      BY <2>1 DEF File
    <3>3. /\ files'[i] \in File /\ files'[i].groups = f.groups /\ files'[i].events = f.events
          /\ files'[i].tables = f.tables /\ files'[i].traces = f.traces
          /\ files'[i].waves = f.waves /\ files'[i].safe = f.safe /\ files'[i].made = f.made
          /\ files'[i].summary = f.summary \union {b}
      BY <2>1, <3>1, <3>2 DEF File
    <3>4. FileOK(files'[i])
      BY <2>1, <2>3, <3>3 DEF FileOK
    <3> QED
      BY <3>3, <3>4 DEF f
  <2>4. CASE ~(i > n) /\ b \notin f.groups
    <3>1. files'[i] = [f EXCEPT !.made = TRUE]
      BY <2>4 DEF AddSummary
    <3> HIDE DEF f
    <3>2. /\ files'[i] \in File /\ files'[i].groups = f.groups /\ files'[i].events = f.events
          /\ files'[i].tables = f.tables /\ files'[i].traces = f.traces
          /\ files'[i].waves = f.waves /\ files'[i].safe = f.safe /\ files'[i].made = TRUE
          /\ files'[i].summary = f.summary
      BY <2>1, <3>1 DEF File
    <3>3. FileOK(files'[i])
      BY <2>1, <3>2 DEF FileOK
    <3> QED
      BY <2>4, <3>2, <3>3 DEF f
  <2> QED
    BY <2>2, <2>3, <2>4
<1>2. /\ DOMAIN files' = DOMAIN files /\ Len(files) \in Nat /\ DOMAIN files = 1..Len(files)
      /\ files' = [i \in 1..Len(files) |-> files'[i]]
  BY FilesType DEF AddSummary
<1>3. files' \in Seq(File) /\ Len(files') = Len(files)
  BY <1>1, <1>2
<1>4. WriterTypeOK'
  BY <1>1, <1>2, <1>3, FilesType, EmptySeq DEF WriterTypeOK, Last
<1>5. Flushed' /\ (AllGroups => AllGroups')
  BY <1>1, <1>2, <1>3 DEF Flushed, AllGroups
<1>6. Unsynced /\ \A c \in Boards : Kept(c)
  BY <1>1, <1>2 DEF Kept, Same, NoNewTraces, Unsynced
<1>7. n = Len(files) /\ AllGroups => \A i \in DOMAIN files : b \in files'[i].summary
  BY <1>1, <1>2 DEF AllGroups
<1> QED
  BY <1>1, <1>2, <1>4, <1>5, <1>6, <1>7

(* flush, which may end a file, and close *)
LEMMA FlushStep ==
  ASSUME WriterTypeOK, Flushed, Flush \/ CloseFile \/ UNCHANGED writer
  PROVE  /\ WriterTypeOK' /\ Flushed' /\ (AllGroups => AllGroups')
         /\ \A b \in Boards : Kept(b)
         /\ CloseFile => ~opened'
         /\ Flush \/ CloseFile => Synchronized'
         /\ UNCHANGED writer => Unsynced
<1>1. CASE opened /\ files' = Synced
  <2>1. opened' \in BOOLEAN
    BY <1>1, Zenon DEF Flush, CloseFile, writer, WriterTypeOK
  <2>2. CloseFile => ~opened'
    BY <1>1 DEF CloseFile
  <2>3. UNCHANGED writer => Unsynced
    BY DEF writer, Unsynced
  <2> QED
    BY <1>1, <2>1, <2>2, <2>3, SyncStep
<1>2. CASE UNCHANGED writer /\ ~(opened /\ files' = Synced)
  <2>1. /\ WriterTypeOK' /\ Flushed' /\ (AllGroups => AllGroups')
        /\ (\A b \in Boards : Kept(b)) /\ Unsynced
    BY <1>2 DEF writer, WriterTypeOK, FileOK, Flushed, AllGroups, Kept, Same, NoNewTraces,
       Unsynced
  <2>2. Flush \/ CloseFile => ~opened
    BY <1>2 DEF Flush, CloseFile
  <2>3. ~opened => Synchronized'
    BY <1>2 DEF writer, Flushed, Synchronized
  <2>4. CloseFile => ~opened'
    BY <1>2, <2>2 DEF writer
  <2> QED
    BY <2>1, <2>2, <2>3, <2>4
<1> QED
  BY <1>1, <1>2 DEF Flush, CloseFile

(* the failures of _open, the first that append finds *)
LEMMA OpenFailsStep ==
  ASSUME WriterTypeOK, Flushed, OpenFails
  PROVE  WriterTypeOK' /\ Flushed' /\ Unsynced /\ \A b \in Boards : Kept(b)
<1>1. ~opened /\ opened \in BOOLEAN
  BY DEF OpenFails, WriterTypeOK
<1>2. CASE files' = Append(Paths, NoFile) /\ UNCHANGED opened
  BY <1>1, <1>2, NoFileType, NewPath
<1>5. 0 \in 0..NBoards /\ 0 <= 0
  BY RunWriterAssumption
<1>3. CASE files' = Append(Paths, NewFile(0, 0, 0)) /\ UNCHANGED opened
  BY <1>1, <1>3, <1>5, NewFileType, NewPath
<1>4. ASSUME NEW g \in 0..NBoards, NEW t \in 0..NBoards, NEW w \in 0..NBoards,
             w <= t, t <= g, files' = Append(Paths, NewFile(g, t, w)), opened' = TRUE
      PROVE  WriterTypeOK' /\ Flushed' /\ Unsynced /\ \A b \in Boards : Kept(b)
  BY <1>1, <1>4, NewFileType, NewPath
<1> QED
  BY <1>2, <1>3, <1>4 DEF OpenFails

-----------------------------------------------------------------------------
(* The rows of a board *)

AlignedFor(b) ==
  \A i \in DOMAIN files :
    LET ev == files[i].events[b]  wv == files[i].waves[b] IN
      /\ Len(wv) <= Len(ev)
      /\ \A k \in DOMAIN wv : wv[k] \in {0, ev[k]}

EqualFor(b) ==
  \A i \in DOMAIN files :
    b \in files[i].traces => Len(files[i].waves[b]) = Len(files[i].events[b])

(* where there are no events, there are no waveforms *)
LEMMA NoRows ==
  ASSUME WriterTypeOK, NEW i \in DOMAIN files, NEW b \in Boards, AlignedFor(b),
         files[i].events[b] = <<>>
  PROVE  Len(files[i].waves[b]) = Len(files[i].events[b])
<1>1. Len(files[i].waves[b]) \in Nat /\ Len(files[i].events[b]) = 0
  BY FilesType, LenProperties, EmptySeq DEF File
<1>2. Len(files[i].waves[b]) <= Len(files[i].events[b])
  BY DEF AlignedFor
<1> QED
  BY <1>1, <1>2

LEMMA KeptRows ==
  ASSUME WriterTypeOK, WriterTypeOK', NEW b \in Boards, Kept(b)
  PROVE  /\ Rows(b)' = Rows(b)
         /\ InOrder(b) => InOrder(b)'
         /\ AlignedFor(b) => AlignedFor(b)'
         /\ AlignedFor(b) /\ EqualFor(b) => EqualFor(b)'
<1>1. ASSUME NEW i \in DOMAIN files'
      PROVE  \/ i \in DOMAIN files /\ Same(files[i], files'[i], b)
             \/ files'[i].events[b] = <<>> /\ files'[i].waves[b] = <<>>
  BY DEF Kept
<1>2. ASSUME NEW i \in DOMAIN files PROVE i \in DOMAIN files' /\ Same(files[i], files'[i], b)
  BY DEF Kept
<1>3. ASSUME NEW r PROVE r \in Rows(b)' <=> r \in Rows(b)
  BY <1>1, <1>2 DEF Rows, Range, Same
<1>4. Rows(b)' = Rows(b)
  BY <1>3
<1>5. ASSUME InOrder(b) PROVE InOrder(b)'
  BY <1>1, <1>2, <1>5 DEF InOrder, Same
<1>6. ASSUME AlignedFor(b) PROVE AlignedFor(b)'
  <2>1. ASSUME NEW i \in DOMAIN files'
        PROVE  /\ Len(files'[i].waves[b]) <= Len(files'[i].events[b])
               /\ \A k \in DOMAIN files'[i].waves[b] :
                    files'[i].waves[b][k] \in {0, files'[i].events[b][k]}
    <3>1. CASE i \in DOMAIN files /\ Same(files[i], files'[i], b)
      BY <1>6, <3>1 DEF AlignedFor, Same
    <3>2. CASE files'[i].events[b] = <<>> /\ files'[i].waves[b] = <<>>
      BY <3>2
    <3> QED
      BY <1>1, <3>1, <3>2
  <2> QED
    BY <2>1 DEF AlignedFor
<1>7. ASSUME AlignedFor(b), EqualFor(b) PROVE EqualFor(b)'
  <2>1. ASSUME NEW i \in DOMAIN files', b \in files'[i].traces
        PROVE  Len(files'[i].waves[b]) = Len(files'[i].events[b])
    <3>1. CASE i \in DOMAIN files /\ Same(files[i], files'[i], b)
      <4>1. CASE files[i].events[b] = <<>>
        BY <1>7, <3>1, <4>1, NoRows DEF AlignedFor, Same
      <4> QED
        BY <1>7, <2>1, <3>1, <4>1 DEF EqualFor, Same, NoNewTraces
    <3>2. CASE files'[i].events[b] = <<>> /\ files'[i].waves[b] = <<>>
      BY <3>2
    <3> QED
      BY <1>1, <3>1, <3>2
  <2> QED
    BY <2>1 DEF EqualFor
<1> QED
  BY <1>4, <1>5, <1>6, <1>7

LEMMA OneMore ==
  ASSUME NEW s \in Seq(Nat), NEW v \in Nat
  PROVE  /\ Len(s) \in Nat /\ DOMAIN s = 1..Len(s)
         /\ Len(s \o <<v>>) = Len(s) + 1 /\ DOMAIN (s \o <<v>>) = 1..(Len(s) + 1)
         /\ (s \o <<v>>)[Len(s) + 1] = v
         /\ \A k \in 1..Len(s) : (s \o <<v>>)[k] = s[k]
  BY ConcatProperties, LenProperties

(* what Grown says of each place in the files *)
LEMMA GrownCells ==
  ASSUME WriterTypeOK, WriterTypeOK', NEW b \in Boards, NEW v \in Nat, NEW wv,
         Grown(b, <<v>>, wv)
  PROVE  LET n == Len(files')  m == Len(files'[n].events[b]) IN
           /\ n \in DOMAIN files' /\ n \in Nat
           /\ m \in DOMAIN files'[n].events[b] /\ files'[n].events[b][m] = v
           /\ \A i \in DOMAIN files : \A k \in DOMAIN files[i].events[b] :
                /\ i \in DOMAIN files' /\ k \in DOMAIN files'[i].events[b]
                /\ files'[i].events[b][k] = files[i].events[b][k]
                /\ i < n \/ (i = n /\ k < m)
           /\ m > 0 /\ (n \in DOMAIN files => m > files[n].safe[b])
           /\ \A i \in DOMAIN files' : \A k \in DOMAIN files'[i].events[b] :
                \/ i \in DOMAIN files /\ k \in DOMAIN files[i].events[b] /\ (i < n \/ (i = n /\ k < m))
                \/ i = n /\ k = m
<1> DEFINE n == Len(files')
           old == IF n \in DOMAIN files THEN files[n].events[b] ELSE <<>>
           new == files'[n].events[b]
<1>1. /\ n \in DOMAIN files' /\ n \in Nat /\ DOMAIN files' = 1..n
      /\ \A i \in DOMAIN files : i \in DOMAIN files'
      /\ \A i \in DOMAIN files' : i # n => i \in DOMAIN files /\ files'[i].events[b] = files[i].events[b]
  BY LenProperties DEF Grown, Same, WriterTypeOK
<1>2. old \in Seq(Nat)
  <2> HIDE DEF n
  <2>1. n \in DOMAIN files => files[n].events[b] \in Seq(Nat)
    BY FilesType DEF File
  <2>2. <<>> \in Seq(Nat)
    BY EmptySeq
  <2> QED
    BY <2>1, <2>2
<1>3. new = old \o <<v>>
  <2>1. CASE n \in DOMAIN files
    BY <2>1 DEF Grown
  <2>2. CASE n \notin DOMAIN files
    <3>1. new = <<v>> /\ old = <<>>
      BY <2>2 DEF Grown
    <3> HIDE DEF new, old
    <3>2. <<v>> \in Seq(Nat)
      OBVIOUS
    <3> QED
      BY <3>1, <3>2, ConcatEmptySeq
  <2> QED
    BY <2>1, <2>2
<1>4. \A i \in 1..n : i # n => i < n
  <2> HIDE DEF n
  <2> QED
    BY <1>1
<1>5. /\ n \in DOMAIN files => old = files[n].events[b]
      /\ n \notin DOMAIN files => old = <<>>
  OBVIOUS
<1> HIDE DEF old
<1>6. /\ Len(old) \in Nat /\ DOMAIN old = 1..Len(old)
      /\ Len(new) = Len(old) + 1 /\ DOMAIN new = 1..(Len(old) + 1)
      /\ new[Len(old) + 1] = v
      /\ \A k \in 1..Len(old) : new[k] = old[k]
  BY <1>2, <1>3, OneMore
<1>7. /\ Len(new) \in DOMAIN new /\ new[Len(new)] = v
      /\ \A k \in DOMAIN old : k \in DOMAIN new /\ new[k] = old[k] /\ k < Len(new)
      /\ Len(new) > Len(old) /\ Len(new) > 0
      /\ \A k \in DOMAIN new : k = Len(new) \/ (k \in DOMAIN old /\ k < Len(new))
  <2> DEFINE m == Len(old)
  <2> HIDE DEF m
  <2>1. /\ m \in Nat /\ DOMAIN old = 1..m /\ Len(new) = m + 1 /\ DOMAIN new = 1..(m + 1)
        /\ new[m + 1] = v /\ \A k \in 1..m : new[k] = old[k]
    BY <1>6 DEF m
  <2> HIDE DEF new
  <2> QED
    BY <2>1
<1>8. ASSUME NEW i \in DOMAIN files, NEW k \in DOMAIN files[i].events[b]
      PROVE  /\ i \in DOMAIN files' /\ k \in DOMAIN files'[i].events[b]
             /\ files'[i].events[b][k] = files[i].events[b][k]
             /\ i < n \/ (i = n /\ k < Len(new))
  <2>1. CASE i = n
    BY <1>1, <1>5, <1>7, <2>1, SMTT(40)
  <2>2. CASE i # n
    BY <1>1, <1>4, <2>2
  <2> QED
    BY <2>1, <2>2
<1>10. n \in DOMAIN files => Len(new) > files[n].safe[b]
  <2>1. ASSUME n \in DOMAIN files PROVE files[n].safe[b] \in Nat /\ files[n].safe[b] <= Len(old)
    BY <1>5, <2>1, FilesType DEF File, FileOK, WriterTypeOK
  <2> QED
    BY <1>6, <2>1
<1>9. ASSUME NEW i \in DOMAIN files', NEW k \in DOMAIN files'[i].events[b]
      PROVE  \/ i \in DOMAIN files /\ k \in DOMAIN files[i].events[b]
                /\ (i < n \/ (i = n /\ k < Len(new)))
             \/ i = n /\ k = Len(new)
  <2>1. CASE i # n
    BY <1>1, <1>4, <2>1
  <2>2. CASE i = n /\ k # Len(new)
    <3>1. k \in DOMAIN old /\ k < Len(new)
      BY <1>7, <2>2
    <3>2. n \in DOMAIN files
      BY <1>5, <3>1
    <3> QED
      BY <1>5, <2>2, <3>1, <3>2
  <2> QED
    BY <2>1, <2>2
<1> QED
  BY <1>1, <1>7, <1>8, <1>9, <1>10

LEMMA RowsMember ==
  ASSUME NEW b \in Boards, NEW r
  PROVE  /\ r \in Rows(b) <=>
              r # 0 /\ \E i \in DOMAIN files : \E k \in DOMAIN files[i].events[b] : r = files[i].events[b][k]
         /\ r \in Rows(b)' <=>
              r # 0 /\ \E i \in DOMAIN files' : \E k \in DOMAIN files'[i].events[b] : r = files'[i].events[b][k]
<1>1. r \in Rows(b) <=> r # 0 /\ \E i \in DOMAIN files : r \in Range(files[i].events[b])
  <2> DEFINE U == {Range(files[i].events[b]) : i \in DOMAIN files}
  <2>1. Rows(b) = (UNION U) \ {0}
    BY DEF Rows
  <2>2. \A x : x \in U <=> \E i \in DOMAIN files : x = Range(files[i].events[b])
    OBVIOUS
  <2> HIDE DEF U
  <2>3. r \in UNION U <=> \E x \in U : r \in x
    OBVIOUS
  <2> QED
    BY <2>1, <2>2, <2>3
<1>2. r \in Rows(b)' <=> r # 0 /\ \E i \in DOMAIN files' : r \in Range(files'[i].events[b])
  <2> DEFINE U == {Range(files'[i].events[b]) : i \in DOMAIN files'}
  <2>1. Rows(b)' = (UNION U) \ {0}
    BY DEF Rows
  <2>2. \A x : x \in U <=> \E i \in DOMAIN files' : x = Range(files'[i].events[b])
    OBVIOUS
  <2> HIDE DEF U
  <2>3. r \in UNION U <=> \E x \in U : r \in x
    OBVIOUS
  <2> QED
    BY <2>1, <2>2, <2>3
<1> QED
  BY <1>1, <1>2 DEF Range

LEMMA GrownRows ==
  ASSUME WriterTypeOK, WriterTypeOK', NEW b \in Boards, NEW v \in Nat, NEW wv,
         Grown(b, <<v>>, wv)
  PROVE  /\ Rows(b)' = Rows(b) \union ({v} \ {0})
         /\ InOrder(b) /\ (v = 0 \/ \A r \in Rows(b) : r < v) => InOrder(b)'
<1> DEFINE n == Len(files')  m == Len(files'[n].events[b])
<1>1. /\ n \in DOMAIN files' /\ n \in Nat /\ m \in DOMAIN files'[n].events[b]
      /\ files'[n].events[b][m] = v
  BY GrownCells
<1>2. \A i \in DOMAIN files : \A k \in DOMAIN files[i].events[b] :
        /\ i \in DOMAIN files' /\ k \in DOMAIN files'[i].events[b]
        /\ files'[i].events[b][k] = files[i].events[b][k]
  BY GrownCells
<1>3. \A i \in DOMAIN files' : \A k \in DOMAIN files'[i].events[b] :
        \/ i \in DOMAIN files /\ k \in DOMAIN files[i].events[b] /\ (i < n \/ (i = n /\ k < m))
        \/ i = n /\ k = m
  BY GrownCells
<1> HIDE DEF n, m
<1>4. ASSUME NEW r PROVE r \in Rows(b)' <=> r \in Rows(b) \union ({v} \ {0})
  <2>1. ASSUME r \in Rows(b)' PROVE r \in Rows(b) \union ({v} \ {0})
    <3>1. r # 0
      BY <2>1, RowsMember
    <3>2. PICK i \in DOMAIN files' : \E k \in DOMAIN files'[i].events[b] : r = files'[i].events[b][k]
      BY <2>1, RowsMember
    <3>3. PICK k \in DOMAIN files'[i].events[b] : r = files'[i].events[b][k]
      BY <3>2
    <3> QED
      BY <1>1, <1>2, <1>3, <3>1, <3>3, RowsMember
  <2>2. ASSUME r \in Rows(b) PROVE r \in Rows(b)'
    BY <1>2, <2>2, RowsMember
  <2>3. ASSUME r = v, v # 0 PROVE r \in Rows(b)'
    BY <1>1, <2>3, RowsMember
  <2> QED
    BY <2>1, <2>2, <2>3
<1>5. ASSUME InOrder(b), v = 0 \/ \A r \in Rows(b) : r < v PROVE InOrder(b)'
  <2> SUFFICES ASSUME NEW i \in DOMAIN files', NEW j \in DOMAIN files',
                      NEW k \in DOMAIN files'[i].events[b], NEW l \in DOMAIN files'[j].events[b],
                      i < j \/ (i = j /\ k < l),
                      files'[i].events[b][k] > 0, files'[j].events[b][l] > 0
               PROVE  files'[i].events[b][k] < files'[j].events[b][l]
    BY DEF InOrder
  <2>1. i \in Nat /\ j \in Nat /\ k \in Nat /\ l \in Nat /\ m \in Nat
    <3>1. \A x \in DOMAIN files' : x \in Nat /\ DOMAIN files'[x].events[b] \subseteq Nat
      <4>1. files' \in Seq(File)
        BY DEF WriterTypeOK
      <4>2. ASSUME NEW x \in DOMAIN files' PROVE x \in Nat /\ files'[x] \in File
        BY <4>1, LenProperties, ElementOfSeq
      <4>3. ASSUME NEW f \in File PROVE DOMAIN f.events[b] \subseteq Nat
        <5>1. f.events[b] \in Seq(Nat)
          BY DEF File
        <5> QED
          BY <5>1, LenProperties
      <4> QED
        BY <4>2, <4>3
    <3> QED
      BY <1>1, <3>1
  <2>2. CASE i = n /\ k = m
    BY <1>1, <1>3, <2>1, <2>2
  <2>3. CASE j = n /\ l = m /\ ~(i = n /\ k = m)
    <3>1. i \in DOMAIN files /\ k \in DOMAIN files[i].events[b]
      BY <1>3, <2>3
    <3>2. files'[i].events[b][k] \in Rows(b)
      <4>1. files'[i].events[b][k] # 0
        BY <1>1, <2>1
      <4> QED
        BY <1>2, <3>1, <4>1, RowsMember
    <3> QED
      BY <1>1, <1>5, <2>3, <3>2
  <2>4. CASE ~(i = n /\ k = m) /\ ~(j = n /\ l = m)
    BY <1>2, <1>3, <1>5, <2>4 DEF InOrder
  <2> QED
    BY <2>2, <2>3, <2>4
<1> QED
  BY <1>4, <1>5

LEMMA GrownNothing ==
  ASSUME WriterTypeOK, NEW b \in Boards, Grown(b, <<>>, <<>>)
  PROVE  Kept(b)
<1> DEFINE n == Len(files')
<1>1. n \in DOMAIN files => files[n].events[b] \in Seq(Nat) /\ files[n].waves[b] \in Seq(Nat)
  BY FilesType DEF File
<1>2. n \in DOMAIN files => Same(files[n], files'[n], b)
  BY <1>1, ConcatEmptySeq DEF Grown, Same
<1> QED
  BY <1>2 DEF Grown, Kept

(* the rows and their places *)
LEMMA LineMember ==
  ASSUME NEW b \in Boards, NEW l
  PROVE  /\ l \in Lines(b) <=>
              \E i \in DOMAIN files : \E k \in DOMAIN files[i].events[b] :
                files[i].events[b][k] > 0 /\ l = [file |-> i, at |-> k, row |-> files[i].events[b][k]]
         /\ l \in Lines(b)' <=>
              \E i \in DOMAIN files' : \E k \in DOMAIN files'[i].events[b] :
                files'[i].events[b][k] > 0 /\ l = [file |-> i, at |-> k, row |-> files'[i].events[b][k]]
<1>1. l \in Lines(b) <=>
        \E i \in DOMAIN files : l \in {[file |-> i, at |-> k, row |-> files[i].events[b][k]] :
                    k \in {k \in DOMAIN files[i].events[b] : files[i].events[b][k] > 0}}
  BY Zenon DEF Lines
<1>2. l \in Lines(b)' <=>
        \E i \in DOMAIN files' : l \in {[file |-> i, at |-> k, row |-> files'[i].events[b][k]] :
                    k \in {k \in DOMAIN files'[i].events[b] : files'[i].events[b][k] > 0}}
  BY Zenon DEF Lines
<1>3. \A i \in DOMAIN files :
        l \in {[file |-> i, at |-> k, row |-> files[i].events[b][k]] :
                    k \in {k \in DOMAIN files[i].events[b] : files[i].events[b][k] > 0}}
        <=> \E k \in DOMAIN files[i].events[b] :
              files[i].events[b][k] > 0 /\ l = [file |-> i, at |-> k, row |-> files[i].events[b][k]]
  OBVIOUS
<1>4. \A i \in DOMAIN files' :
        l \in {[file |-> i, at |-> k, row |-> files'[i].events[b][k]] :
                    k \in {k \in DOMAIN files'[i].events[b] : files'[i].events[b][k] > 0}}
        <=> \E k \in DOMAIN files'[i].events[b] :
              files'[i].events[b][k] > 0 /\ l = [file |-> i, at |-> k, row |-> files'[i].events[b][k]]
  OBVIOUS
<1> QED
  BY <1>1, <1>2, <1>3, <1>4

LEMMA SafeMember ==
  ASSUME NEW b \in Boards, NEW l
  PROVE  /\ l \in SafeLines(b) <=> l \in Lines(b) /\ l.at <= files[l.file].safe[b]
         /\ l \in SafeLines(b)' <=> l \in Lines(b)' /\ l.at <= files'[l.file].safe[b]
  BY DEF SafeLines

LEMMA LineRows ==
  ASSUME WriterTypeOK, NEW b \in Boards
  PROVE  {l.row : l \in Lines(b)} = Rows(b)
<1>1. \A i \in DOMAIN files : \A k \in DOMAIN files[i].events[b] : files[i].events[b][k] \in Nat
  <2>1. \A i \in DOMAIN files : files[i].events[b] \in Seq(Nat)
    BY FilesType DEF File
  <2> QED
    BY <2>1, ElementOfSeq, LenProperties
<1>2. ASSUME NEW l \in Lines(b) PROVE l.row \in Rows(b)
  <2>1. PICK i \in DOMAIN files : \E k \in DOMAIN files[i].events[b] :
          files[i].events[b][k] > 0 /\ l = [file |-> i, at |-> k, row |-> files[i].events[b][k]]
    BY LineMember
  <2>2. PICK k \in DOMAIN files[i].events[b] :
          files[i].events[b][k] > 0 /\ l = [file |-> i, at |-> k, row |-> files[i].events[b][k]]
    BY <2>1
  <2>3. l.row = files[i].events[b][k] /\ l.row # 0
    BY <1>1, <2>2
  <2> QED
    BY <2>3, RowsMember
<1>3. ASSUME NEW r \in Rows(b) PROVE \E l \in Lines(b) : r = l.row
  <2>1. PICK i \in DOMAIN files : \E k \in DOMAIN files[i].events[b] : r = files[i].events[b][k] /\ r # 0
    BY RowsMember
  <2>2. PICK k \in DOMAIN files[i].events[b] : r = files[i].events[b][k] /\ r # 0
    BY <2>1
  <2>3. [file |-> i, at |-> k, row |-> r] \in Lines(b)
    <3>1. files[i].events[b][k] > 0
      BY <1>1, <2>2
    <3> QED
      BY <2>2, <3>1, LineMember
  <2> QED
    BY <2>3
<1> QED
  BY <1>2, <1>3

LEMMA KeptLines ==
  ASSUME NEW b \in Boards, Kept(b)
  PROVE  Lines(b)' = Lines(b)
<1>1. ASSUME NEW l, l \in Lines(b)' PROVE l \in Lines(b)
  <2>1. PICK i \in DOMAIN files' : \E k \in DOMAIN files'[i].events[b] :
          files'[i].events[b][k] > 0 /\ l = [file |-> i, at |-> k, row |-> files'[i].events[b][k]]
    BY <1>1, LineMember
  <2>2. i \in DOMAIN files /\ files'[i].events[b] = files[i].events[b]
    <3>1. files'[i].events[b] # <<>>
      BY <2>1
    <3> QED
      BY <3>1 DEF Kept, Same
  <2> QED
    BY <2>1, <2>2, LineMember
<1>2. ASSUME NEW l, l \in Lines(b) PROVE l \in Lines(b)'
  <2>1. PICK i \in DOMAIN files : \E k \in DOMAIN files[i].events[b] :
          files[i].events[b][k] > 0 /\ l = [file |-> i, at |-> k, row |-> files[i].events[b][k]]
    BY <1>2, LineMember
  <2>2. i \in DOMAIN files' /\ files'[i].events[b] = files[i].events[b]
    BY DEF Kept, Same
  <2> QED
    BY <2>1, <2>2, LineMember
<1> QED
  BY <1>1, <1>2

(* without a flush, the rows that were safe are, and no others *)
LEMMA KeptSafe ==
  ASSUME NEW b \in Boards, Kept(b), Unsynced
  PROVE  SafeLines(b)' = SafeLines(b)
<1>1. ASSUME NEW l \in Lines(b) PROVE l.file \in DOMAIN files /\ l.file \in DOMAIN files'
  <2>1. PICK i \in DOMAIN files : \E k \in DOMAIN files[i].events[b] :
          l = [file |-> i, at |-> k, row |-> files[i].events[b][k]]
    BY LineMember
  <2> QED
    BY <2>1 DEF Kept
<1>2. \A l \in Lines(b) : files'[l.file].safe[b] = files[l.file].safe[b]
  BY <1>1 DEF Unsynced
<1> QED
  BY <1>2, KeptLines DEF SafeLines

LEMMA GrownLines ==
  ASSUME WriterTypeOK, WriterTypeOK', NEW b \in Boards, NEW v \in Nat, NEW wv,
         Grown(b, <<v>>, wv), Unsynced
  PROVE  LET line == [file |-> Len(files'), at |-> Len(files'[Len(files')].events[b]), row |-> v] IN
           /\ Lines(b)' = Lines(b) \union (IF v = 0 THEN {} ELSE {line})
           /\ SafeLines(b)' = SafeLines(b)
           /\ \A l \in Lines(b) :
                l.file < line.file \/ (l.file = line.file /\ l.at < line.at)
<1> DEFINE n == Len(files')  m == Len(files'[n].events[b])
           line == [file |-> n, at |-> m, row |-> v]
<1>1. /\ n \in DOMAIN files' /\ m \in DOMAIN files'[n].events[b] /\ files'[n].events[b][m] = v
      /\ m > 0 /\ (n \in DOMAIN files => m > files[n].safe[b])
  BY GrownCells
<1>2. \A i \in DOMAIN files : \A k \in DOMAIN files[i].events[b] :
        /\ i \in DOMAIN files' /\ k \in DOMAIN files'[i].events[b]
        /\ files'[i].events[b][k] = files[i].events[b][k]
        /\ i < n \/ (i = n /\ k < m)
  BY GrownCells
<1>3. \A i \in DOMAIN files' : \A k \in DOMAIN files'[i].events[b] :
        (i \in DOMAIN files /\ k \in DOMAIN files[i].events[b]) \/ (i = n /\ k = m)
  BY GrownCells
<1>4. m \in Nat
  BY <1>1, FilesType DEF File
<1> HIDE DEF n, m
<1>5. ASSUME NEW l \in Lines(b)
      PROVE  /\ l \in Lines(b)' /\ l.file \in DOMAIN files /\ l.file \in DOMAIN files'
             /\ l.file < n \/ (l.file = n /\ l.at < m)
  <2>1. PICK i \in DOMAIN files : \E k \in DOMAIN files[i].events[b] :
          files[i].events[b][k] > 0 /\ l = [file |-> i, at |-> k, row |-> files[i].events[b][k]]
    BY LineMember
  <2>2. PICK k \in DOMAIN files[i].events[b] :
          files[i].events[b][k] > 0 /\ l = [file |-> i, at |-> k, row |-> files[i].events[b][k]]
    BY <2>1
  <2> QED
    BY <1>2, <2>2, LineMember
<1>6. ASSUME NEW l \in Lines(b)' PROVE l \in Lines(b) \/ (v # 0 /\ l = line)
  <2>1. PICK i \in DOMAIN files' : \E k \in DOMAIN files'[i].events[b] :
          files'[i].events[b][k] > 0 /\ l = [file |-> i, at |-> k, row |-> files'[i].events[b][k]]
    BY LineMember
  <2>2. PICK k \in DOMAIN files'[i].events[b] :
          files'[i].events[b][k] > 0 /\ l = [file |-> i, at |-> k, row |-> files'[i].events[b][k]]
    BY <2>1
  <2>3. CASE i \in DOMAIN files /\ k \in DOMAIN files[i].events[b]
    BY <1>2, <2>2, <2>3, LineMember
  <2>4. CASE i = n /\ k = m
    BY <1>1, <2>2, <2>4
  <2> QED
    BY <1>3, <2>3, <2>4
<1>7. v # 0 => line \in Lines(b)'
  <2>1. v # 0 => v > 0
    OBVIOUS
  <2> QED
    BY <1>1, <2>1, LineMember
<1>8. Lines(b)' = Lines(b) \union (IF v = 0 THEN {} ELSE {line})
  BY <1>5, <1>6, <1>7
<1>9. ~(line.at <= files'[line.file].safe[b])
  <2>1. files'[n].safe[b] = IF n \in DOMAIN files THEN files[n].safe[b] ELSE 0
    BY <1>1 DEF Unsynced
  <2>2. n \in DOMAIN files => files[n].safe[b] \in Nat
    BY FilesType DEF File
  <2> QED
    BY <1>1, <1>4, <2>1, <2>2
<1>10. \A l \in Lines(b) : files'[l.file].safe[b] = files[l.file].safe[b]
  BY <1>5 DEF Unsynced
<1>11. SafeLines(b)' = SafeLines(b)
  <2> HIDE DEF line
  <2>1. ASSUME NEW l PROVE l \in SafeLines(b)' <=> l \in SafeLines(b)
    BY <1>8, <1>9, <1>10, SafeMember
  <2> QED
    BY <2>1
<1>12. \A l \in Lines(b) : l.file < line.file \/ (l.file = line.file /\ l.at < line.at)
  BY <1>5
<1> QED
  BY <1>8, <1>11, <1>12 DEF n, m

(* once all files are flushed every row is safe *)
LEMMA AllSafe ==
  ASSUME NEW b \in Boards
  PROVE  /\ WriterTypeOK /\ Synchronized => SafeLines(b) = Lines(b)
         /\ WriterTypeOK' /\ Synchronized' => SafeLines(b)' = Lines(b)'
<1>1. ASSUME WriterTypeOK, Synchronized, NEW l \in Lines(b)
      PROVE  l.at <= files[l.file].safe[b]
  <2>1. PICK i \in DOMAIN files : \E k \in DOMAIN files[i].events[b] :
          l = [file |-> i, at |-> k, row |-> files[i].events[b][k]]
    BY LineMember
  <2>2. files[i].events[b] \in Seq(Nat) /\ files[i].safe[b] = Len(files[i].events[b])
    BY <1>1, FilesType DEF File, Synchronized
  <2>3. \A k \in DOMAIN files[i].events[b] : k <= files[i].safe[b]
    BY <2>2, LenProperties
  <2> QED
    BY <2>1, <2>3
<1>2. ASSUME WriterTypeOK', Synchronized', NEW l \in Lines(b)'
      PROVE  l.at <= files'[l.file].safe[b]
  <2>1. PICK i \in DOMAIN files' : \E k \in DOMAIN files'[i].events[b] :
          l = [file |-> i, at |-> k, row |-> files'[i].events[b][k]]
    BY LineMember
  <2>2. files'[i].events[b] \in Seq(Nat) /\ files'[i].safe[b] = Len(files'[i].events[b])
    <3>1. files' \in Seq(File)
      BY <1>2 DEF WriterTypeOK
    <3>2. files'[i] \in File
      BY <3>1, LenProperties, ElementOfSeq
    <3> QED
      BY <1>2, <3>2 DEF File, Synchronized
  <2>3. \A k \in DOMAIN files'[i].events[b] : k <= files'[i].safe[b]
    BY <2>2, LenProperties
  <2> QED
    BY <2>1, <2>3
<1> QED
  BY <1>1, <1>2, SafeMember

(* a row and its waveform, or the part of them that was stored *)
LEMMA PairMore ==
  ASSUME NEW e \in Seq(Nat), NEW w \in Seq(Nat), Len(w) <= Len(e),
         \A k \in DOMAIN w : w[k] \in {0, e[k]},
         NEW v \in Nat, NEW wv \in {<<>>, << 0 >>, <<v>>}, wv = <<>> \/ Len(w) = Len(e)
  PROVE  /\ Len(w \o wv) <= Len(e \o <<v>>)
         /\ \A k \in DOMAIN (w \o wv) : (w \o wv)[k] \in {0, (e \o <<v>>)[k]}
         /\ wv # <<>> => Len(w \o wv) = Len(e \o <<v>>)
<1> DEFINE e2 == e \o <<v>>  w2 == w \o wv
<1>1. /\ Len(e) \in Nat /\ DOMAIN e = 1..Len(e)
      /\ Len(e2) = Len(e) + 1 /\ DOMAIN e2 = 1..(Len(e) + 1)
      /\ e2[Len(e) + 1] = v
      /\ \A k \in 1..Len(e) : e2[k] = e[k]
  BY OneMore
<1>2. DOMAIN w = 1..Len(w)
  BY LenProperties
<1>3. CASE wv = <<>>
  <2>1. w2 = w
    BY <1>3, ConcatEmptySeq
  <2> QED
    BY <1>1, <1>2, <1>3, <2>1
<1>4. ASSUME NEW x \in {0, v}, wv = <<x>>
      PROVE  Len(w2) = Len(e2) /\ \A k \in DOMAIN w2 : w2[k] \in {0, e2[k]}
  <2>1. /\ Len(w2) = Len(w) + 1 /\ DOMAIN w2 = 1..(Len(w) + 1)
        /\ w2[Len(w) + 1] = x
        /\ \A k \in 1..Len(w) : w2[k] = w[k]
    BY <1>4, OneMore
  <2> DEFINE n == Len(e)
  <2>2. n \in Nat /\ Len(w) = n
    BY <1>1, <1>4
  <2> HIDE DEF n
  <2>3. \A k \in 1..(n + 1) : k = n + 1 \/ k \in 1..n
    BY <2>2
  <2> QED
    BY <1>1, <1>2, <1>4, <2>1, <2>2, <2>3 DEF n
<1> HIDE DEF e2, w2
<1>5. Len(e2) \in Nat
  BY <1>1
<1>6. wv = <<>> \/ \E x \in {0, v} : wv = <<x>>
  OBVIOUS
<1> QED
  BY <1>3, <1>4, <1>5, <1>6, SMTT(40) DEF e2, w2

LEMMA ShortRows ==
  ASSUME NEW v \in Nat
  PROVE  {<<>>, << 0 >>, <<v>>} \subseteq Seq(Nat)
  OBVIOUS

LEMMA GrownWaves ==
  ASSUME WriterTypeOK, WriterTypeOK', NEW b \in Boards, NEW v \in Nat, NEW wv \in {<<>>, << 0 >>, <<v>>},
         Grown(b, <<v>>, wv), AlignedFor(b), EqualFor(b),
         wv # <<>> => b \in files'[Len(files')].traces
  PROVE  AlignedFor(b)' /\ (wv # <<>> \/ b \notin files'[Len(files')].traces => EqualFor(b)')
<1> DEFINE n == Len(files')
           e == IF n \in DOMAIN files THEN files[n].events[b] ELSE <<>>
           w == IF n \in DOMAIN files THEN files[n].waves[b] ELSE <<>>
           e2 == files'[n].events[b]  w2 == files'[n].waves[b]
<1>1. e \in Seq(Nat) /\ w \in Seq(Nat)
  BY FilesType, EmptySeq DEF File
<1>2. Len(w) <= Len(e) /\ \A k \in DOMAIN w : w[k] \in {0, e[k]}
  BY EmptySeq DEF AlignedFor
<1>7. wv = <<>> \/ Len(w) = Len(e)
  <2>1. CASE n \in DOMAIN files /\ wv # <<>>
    <3>1. NoNewTraces(files[n], files'[n], b) /\ b \in files'[n].traces
      BY <2>1 DEF Grown
    <3>2. CASE files[n].events[b] = <<>>
      BY <2>1, <3>2, NoRows
    <3>3. CASE files[n].events[b] # <<>>
      BY <2>1, <3>1, <3>3 DEF NoNewTraces, EqualFor
    <3> QED
      BY <3>2, <3>3
  <2> QED
    BY <2>1
<1>3. e2 = e \o <<v>> /\ w2 = w \o wv
  <2>1. CASE n \in DOMAIN files
    BY <2>1 DEF Grown
  <2>2. CASE n \notin DOMAIN files
    <3>1. e2 = <<v>> /\ w2 = wv /\ e = <<>> /\ w = <<>>
      BY <2>2 DEF Grown
    <3> HIDE DEF e2, w2, e, w
    <3>2. <<v>> \in Seq(Nat) /\ wv \in Seq(Nat)
      BY ShortRows
    <3> QED
      BY <3>1, <3>2, ConcatEmptySeq
  <2> QED
    BY <2>1, <2>2
<1>4. \A i \in DOMAIN files' : i # n => i \in DOMAIN files /\ Same(files[i], files'[i], b)
  BY DEF Grown
<1> HIDE DEF e, w, n
<1>5. /\ Len(w2) <= Len(e2)
      /\ \A k \in DOMAIN w2 : w2[k] \in {0, e2[k]}
      /\ wv # <<>> => Len(w2) = Len(e2)
  <2> HIDE DEF e2, w2
  <2> QED
    BY <1>1, <1>2, <1>3, <1>7, PairMore
<1>6. ASSUME NEW i \in DOMAIN files'
      PROVE  /\ Len(files'[i].waves[b]) <= Len(files'[i].events[b])
             /\ \A k \in DOMAIN files'[i].waves[b] :
                  files'[i].waves[b][k] \in {0, files'[i].events[b][k]}
             /\ (wv # <<>> \/ b \notin files'[n].traces) /\ b \in files'[i].traces =>
                  Len(files'[i].waves[b]) = Len(files'[i].events[b])
  <2>1. CASE i = n
    BY <1>5, <2>1
  <2>2. CASE i # n
    <3>1. i \in DOMAIN files /\ Same(files[i], files'[i], b)
      BY <1>4, <2>2
    <3>2. b \in files'[i].traces => Len(files'[i].waves[b]) = Len(files'[i].events[b])
      <4>1. CASE files[i].events[b] = <<>>
        BY <3>1, <4>1, NoRows DEF Same
      <4>2. CASE files[i].events[b] # <<>>
        BY <3>1, <4>2 DEF EqualFor, Same, NoNewTraces
      <4> QED
        BY <4>1, <4>2
    <3> QED
      BY <3>1, <3>2 DEF AlignedFor, Same
  <2> QED
    BY <2>1, <2>2
<1> QED
  BY <1>6 DEF AlignedFor, EqualFor, n

(* append of a row, with all rows of its board in place *)
LEMMA RowWritten ==
  ASSUME WriterTypeOK, Flushed, NEW b \in Boards, NEW row \in Nat \ {0},
         EqualFor(b), AlignedFor(b), InOrder(b), Rows(b) = 1..(row - 1),
         AppendRow(b, row)
  PROVE  /\ WriterTypeOK' /\ Flushed' /\ (AllGroups => AllGroups')
         /\ \A c \in Boards : c # b => Kept(c)
         /\ EqualFor(b)' /\ AlignedFor(b)' /\ InOrder(b)' /\ Rows(b)' = 1..row
<1> DEFINE wv == IF HasTraces(b) THEN <<row>> ELSE <<>>
<1>1. /\ WriterTypeOK' /\ Flushed' /\ (AllGroups => AllGroups')
      /\ Grown(b, <<row>>, wv) /\ \A c \in Boards : c # b => Kept(c)
      /\ HasTraces(b) <=> b \in files'[Len(files')].traces
  <2>1. <<row>> \in Seq(Nat) /\ wv \in Seq(Nat)
    BY ShortRows
  <2>2. HasTable(b) /\ Extend(b, <<row>>, wv) /\ opened' = TRUE /\ (HasTraces(b) \/ wv = <<>>)
    BY DEF AppendRow
  <2> HIDE DEF wv
  <2> QED
    BY <2>1, <2>2, ExtendStep
<1>2. EqualFor(b)' /\ AlignedFor(b)'
  <2>1. wv \in {<<>>, << 0 >>, <<row>>} /\ (HasTraces(b) <=> wv # <<>>)
    OBVIOUS
  <2> HIDE DEF wv
  <2> QED
    BY <1>1, <2>1, GrownWaves
<1> HIDE DEF wv
<1>3. \A r \in Rows(b) : r < row
  OBVIOUS
<1>4. Rows(b)' = Rows(b) \union ({row} \ {0}) /\ InOrder(b)'
  BY <1>1, <1>3, GrownRows
<1>5. (1..(row - 1)) \union ({row} \ {0}) = 1..row
  OBVIOUS
<1> QED
  BY <1>1, <1>2, <1>4, <1>5

(* an append that fails: the row is there, or it is not *)
LEMMA RowFailed ==
  ASSUME WriterTypeOK, Flushed, NEW b \in Boards, NEW row \in Nat \ {0},
         EqualFor(b), AlignedFor(b), InOrder(b), Rows(b) = 1..(row - 1),
         OpenFails \/ ExtendFails(b, row) \/ KeyError(b)
  PROVE  /\ WriterTypeOK' /\ Flushed' /\ \A c \in Boards : c # b => Kept(c)
         /\ AlignedFor(b)' /\ InOrder(b)'
         /\ Rows(b)' = 1..(row - 1) \/ Rows(b)' = 1..row
<1>1. CASE OpenFails
  BY <1>1, OpenFailsStep, KeptRows
<1>2. CASE KeyError(b)
  BY <1>2, FlushStep, KeptRows DEF KeyError
<1>3. ASSUME NEW v \in {0, row}, NEW wv \in {<<>>, << 0 >>, <<v>>},
             HasTable(b), Extend(b, <<v>>, wv), opened' = TRUE, HasTraces(b) \/ wv = <<>>
      PROVE  /\ WriterTypeOK' /\ Flushed' /\ \A c \in Boards : c # b => Kept(c)
             /\ AlignedFor(b)' /\ InOrder(b)'
             /\ Rows(b)' = 1..(row - 1) \/ Rows(b)' = 1..row
  <2>0. v \in Nat /\ <<v>> \in Seq(Nat) /\ wv \in Seq(Nat)
    <3>1. v \in Nat
      OBVIOUS
    <3> QED
      BY <3>1, ShortRows
  <2>1. /\ WriterTypeOK' /\ Flushed' /\ Grown(b, <<v>>, wv) /\ \A c \in Boards : c # b => Kept(c)
        /\ wv # <<>> => b \in files'[Len(files')].traces
    BY <1>3, <2>0, ExtendStep
  <2>2. AlignedFor(b)'
    BY <2>0, <2>1, GrownWaves
  <2>3. v = 0 \/ \A r \in Rows(b) : r < v
    OBVIOUS
  <2>4. Rows(b)' = Rows(b) \union ({v} \ {0}) /\ InOrder(b)'
    BY <2>0, <2>1, <2>3, GrownRows
  <2>5. (1..(row - 1)) \union ({v} \ {0}) \in {1..(row - 1), 1..row}
    <3>1. CASE v = 0
      BY <3>1
    <3>2. CASE v = row
      <4>1. (1..(row - 1)) \union ({row} \ {0}) = 1..row
        OBVIOUS
      <4> QED
        BY <3>2, <4>1
    <3> QED
      BY <3>1, <3>2
  <2> QED
    BY <2>1, <2>2, <2>4, <2>5
<1>4. CASE HasTable(b) /\ Extend(b, <<>>, <<>>) /\ opened' = TRUE
  <2>1. <<>> \in Seq(Nat)
    BY EmptySeq
  <2>2. WriterTypeOK' /\ Flushed' /\ Grown(b, <<>>, <<>>) /\ \A c \in Boards : c # b => Kept(c)
    BY <1>4, <2>1, ExtendStep
  <2> QED
    BY <2>2, GrownNothing, KeptRows
<1>5. ExtendFails(b, row) =>
        /\ HasTable(b) /\ opened' = TRUE
        /\ \/ Extend(b, <<>>, <<>>)
           \/ \E v \in {0, row} : \E wv \in {<<>>, << 0 >>, <<v>>} :
                Extend(b, <<v>>, wv) /\ (HasTraces(b) \/ wv = <<>>)
  BY Zenon DEF ExtendFails
<1> QED
  BY <1>1, <1>2, <1>3, <1>4, <1>5

-----------------------------------------------------------------------------
(* The invariant, board by board *)

LEMMA Aligned ==
  /\ AlignedInv <=> \A b \in Boards : AlignedFor(b) /\ (reader[b] # "dead" => EqualFor(b))
  /\ AlignedInv' <=> \A b \in Boards : AlignedFor(b)' /\ (reader[b]' # "dead" => EqualFor(b)')
  BY DEF AlignedInv, WavesAligned, AlignedFor, EqualFor

LEMMA Files ==
  /\ FilesInv <=> Flushed /\ (~lost_disk => AllGroups /\ LosesNone)
  /\ FilesInv' <=> Flushed' /\ (~lost_disk' => AllGroups' /\ LosesNone')
  BY DEF FilesInv, Flushed, AllGroups, LosesNone

Ledger(b) ==
  /\ left[b] <= bank[b] /\ compared[b] <= events[b]
  /\ reader[b] \in {"wait", "off"} => bank[b] = 0
  /\ reader[b] = "write" => compared[b] + bank[b] - left[b] <= events[b]
  /\ reader[b] = "dead" =>
       \/ left[b] = 0 /\ 1..events[b] \subseteq Rows(b)
       \/ left[b] < bank[b] /\ (b \in Checked => Open(b))
  /\ b \in Checked =>
       /\ reader[b] \in {"wait", "off"} => hits[b] = compared[b]
       /\ reader[b] = "write" => Open(b)

LEMMA Ledgers ==
  (LedgerInv <=> \A b \in Boards : Ledger(b)) /\ (LedgerInv' <=> \A b \in Boards : Ledger(b)')
  BY DEF LedgerInv, Ledger

(* While its reader lives, the rows of a board are those counted. *)
LEMMA LivingRows ==
  ASSUME TypeOK, RowsInv, NEW b \in Boards, reader[b] # "dead"
  PROVE  Rows(b) = 1..events[b]
  BY DEF RowsInv

(* a step that takes no row away and leaves the readers alone *)
LEMMA KeptStep ==
  ASSUME TypeOK, AlignedInv, RowsInv, LedgerInv, WriterTypeOK',
         \A b \in Boards : Kept(b), UNCHANGED <<readers, bookkeeping>>
  PROVE  AlignedInv' /\ RowsInv' /\ LedgerInv' /\ (LosesNone => LosesNone')
<1>1. ASSUME NEW b \in Boards
      PROVE  /\ Rows(b)' = Rows(b) /\ (InOrder(b) => InOrder(b)')
             /\ (AlignedFor(b) => AlignedFor(b)')
             /\ (AlignedFor(b) /\ EqualFor(b) => EqualFor(b)')
  BY KeptRows DEF TypeOK
<1>2. UNCHANGED <<reader, bank, left, counted, hits, events, compared>>
  BY DEF readers, bookkeeping
<1>3. AlignedInv'
  BY <1>1, <1>2, Aligned
<1>4. RowsInv'
  BY <1>1, <1>2 DEF RowsInv
<1>5. LedgerInv'
  BY <1>1, <1>2 DEF LedgerInv, Open
<1>6. LosesNone => LosesNone'
  BY <1>1, <1>2 DEF LosesNone
<1> QED
  BY <1>3, <1>4, <1>5, <1>6

(* While a reader is at work nothing is promised of stop(), unless it gave  *)
(* up waiting.                                                              *)
LEMMA ActiveReader ==
  ASSUME StopInv, NEW b \in Boards, reader[b] \in {"wait", "write"},
         UNCHANGED <<stop, next, csv, lost_csv, overrun>>
  PROVE  StopInv'
<1>1. stop \in {"idle", "readers"} \/ overrun
  BY DEF StopInv
<1> QED
  BY <1>1 DEF StopInv

(* TypeOK but for the files *)
RestOK ==
  /\ running \in BOOLEAN /\ stats \in {"sleep", "row", "off", "dead"}
  /\ reader \in [Boards -> {"wait", "write", "off", "dead"}]
  /\ final \in [Boards -> BOOLEAN] /\ counted \in [Boards -> BOOLEAN]
  /\ bank \in [Boards -> Nat] /\ left \in [Boards -> Nat]
  /\ hits \in [Boards -> Nat] /\ events \in [Boards -> Nat] /\ compared \in [Boards -> Nat]
  /\ stop \in {"idle", "readers", "stats", "close", "row", "write row", "check csv",
               "close csv", "summary", "attach", "done", "close raised", "row raised"}
  /\ stop \in {"attach", "done"} => summary \in [Boards -> Totals]
  /\ next \in 1..(NBoards + 1) /\ csv \in BOOLEAN /\ last_row \in [Boards -> Nat \X Nat]
  /\ given \in 0..MaxRows /\ faults \in 0..MaxFaults
  /\ lost_disk \in BOOLEAN /\ lost_csv \in BOOLEAN /\ overrun \in BOOLEAN

LEMMA Rest ==
  (TypeOK <=> WriterTypeOK /\ RestOK) /\ (TypeOK' <=> WriterTypeOK' /\ RestOK')
  BY DEF TypeOK, RestOK

LEMMA FaultType ==
  ASSUME faults \in 0..MaxFaults, Fault
  PROVE  faults' \in 0..MaxFaults
  BY RunOutputAssumption DEF Fault

(* a bank comes from the board *)
LEMMA TakeBankStep ==
  ASSUME IInv, NEW b \in Boards, TakeBank(b)
  PROVE  IInv'
<1>1. RestOK /\ WriterTypeOK /\ Flushed
  BY Rest, Files DEF IInv
<1>2. /\ UNCHANGED <<files, opened, running, events, compared, stats, stop, next, summary, csv>>
      /\ UNCHANGED <<last_row, lost_csv, faults, lost_disk, overrun>>
      /\ reader[b] = "wait" /\ reader' = [reader EXCEPT ![b] = "write"]
      /\ final' = [final EXCEPT ![b] = ~running]
  BY DEF TakeBank, writer, stopping, scalers, Fine
<1>3. PICK n \in 0..(MaxRows - given), known \in BOOLEAN :
        /\ bank' = [bank EXCEPT ![b] = n]
        /\ left' = [left EXCEPT ![b] = n]
        /\ given' = given + n
        /\ counted' = [counted EXCEPT ![b] = known]
        /\ \E seen \in IF b \in Checked THEN {n} ELSE 0..n :
             hits' = IF known THEN [hits EXCEPT ![b] = @ + seen] ELSE hits
  BY DEF TakeBank
<1>14. PICK seen \in IF b \in Checked THEN {n} ELSE 0..n :
         hits' = IF known THEN [hits EXCEPT ![b] = @ + seen] ELSE hits
  BY <1>3
<1>4. /\ WriterTypeOK' /\ Flushed' /\ (AllGroups => AllGroups')
      /\ \A c \in Boards : Kept(c)
  BY <1>1, <1>2, FlushStep DEF writer
<1>5. ASSUME NEW c \in Boards
      PROVE  /\ Rows(c)' = Rows(c) /\ (InOrder(c) => InOrder(c)')
             /\ (AlignedFor(c) => AlignedFor(c)')
             /\ (AlignedFor(c) /\ EqualFor(c) => EqualFor(c)')
  BY <1>1, <1>4, KeptRows
<1>6. n \in Nat /\ given + n \in 0..MaxRows
  <2>1. given \in 0..MaxRows /\ MaxRows \in Nat
    BY <1>1, RunOutputAssumption DEF RestOK
  <2>2. n \in 0..(MaxRows - given)
    OBVIOUS
  <2> QED
    BY <2>1, <2>2
<1>7. TypeOK'
  <2>1. final' \in [Boards -> BOOLEAN]
    BY <1>1, <1>2, Zenon DEF RestOK
  <2>2. counted' \in [Boards -> BOOLEAN]
    BY <1>1, <1>3, Zenon DEF RestOK
  <2>3. hits' \in [Boards -> Nat]
    <3>1. [hits EXCEPT ![b] = @ + seen] \in [Boards -> Nat] /\ hits \in [Boards -> Nat]
      <4>1. hits \in [Boards -> Nat]
        BY <1>1 DEF RestOK
      <4>2. hits[b] + seen \in Nat
        BY <1>6, <4>1
      <4> QED
        BY <4>1, <4>2
    <3> QED
      BY <1>14, <3>1, Zenon
  <2>4. RestOK'
    BY <1>1, <1>2, <1>3, <1>6, <2>1, <2>2, <2>3, ZenonT(60) DEF RestOK
  <2> QED
    BY <1>4, <2>4, Rest
<1>8. /\ reader'[b] = "write" /\ \A c \in Boards : c # b => reader'[c] = reader[c]
  BY <1>1, <1>2 DEF RestOK
<1>9. AlignedInv'
  BY <1>2, <1>5, <1>8, Aligned DEF IInv
<1>10. RowsInv'
  BY <1>2, <1>5, <1>8 DEF IInv, RowsInv
<1>11. LedgerInv'
  <2>1. ASSUME NEW c \in Boards, c # b
        PROVE  UNCHANGED <<reader[c], left[c], bank[c], counted[c], hits[c], compared[c], events[c]>>
    BY <1>1, <1>2, <1>3, <1>8, <1>14, <2>1 DEF RestOK
  <2>2. /\ left'[b] = n /\ bank'[b] = n /\ counted'[b] = known
        /\ b \in Checked => hits'[b] = (IF known THEN hits[b] + n ELSE hits[b])
        /\ compared'[b] = compared[b]
    BY <1>1, <1>2, <1>3, <1>14 DEF RestOK
  <2>3. (b \in Checked => hits[b] = compared[b]) /\ compared[b] <= events[b] /\ hits[b] \in Nat /\ events[b] \in Nat
    BY <1>1, <1>2 DEF IInv, LedgerInv, RestOK
  <2>4. /\ left'[b] <= bank'[b] /\ compared'[b] <= events'[b]
        /\ compared'[b] + bank'[b] - left'[b] <= events'[b]
    <3>1. compared[b] \in Nat /\ events'[b] = events[b]
      BY <1>1, <1>2 DEF RestOK
    <3> QED
      BY <1>6, <2>2, <2>3, <3>1
  <2>5. b \in Checked => Open(b)'
    <3>1. compared[b] \in Nat /\ n \in Nat
      BY <1>1, <1>6 DEF RestOK
    <3>2. ASSUME b \in Checked
          PROVE  hits'[b] = compared'[b] + (IF counted'[b] THEN bank'[b] ELSE 0)
      BY <2>2, <2>3, <3>1, <3>2
    <3> QED
      BY <3>2 DEF Open
  <2> QED
    BY <1>5, <1>8, <2>1, <2>4, <2>5 DEF IInv, LedgerInv, Open
<1>15. LosesNone => LosesNone'
  BY <1>2, <1>5, <1>8 DEF LosesNone
<1>12. FilesInv'
  BY <1>2, <1>4, <1>15, Files DEF IInv
<1>13. StopInv'
  BY <1>2, ActiveReader DEF IInv
<1> QED
  BY <1>7, <1>9, <1>10, <1>11, <1>12, <1>13 DEF IInv

(* a row is written, or its reader dies *)
LEMMA WriteRowStep ==
  ASSUME IInv, NEW b \in Boards, WriteRow(b)
  PROVE  IInv'
<1> DEFINE row == events[b] + 1
<1>1. RestOK /\ WriterTypeOK /\ Flushed
  BY Rest, Files DEF IInv
<1>2. /\ UNCHANGED <<running, final, bank, counted, hits, compared, stats, stop, next, summary, csv>>
      /\ UNCHANGED <<last_row, lost_csv, given, overrun>>
      /\ reader[b] = "write" /\ left[b] > 0
      /\ left' = [left EXCEPT ![b] = @ - 1] /\ events' = [events EXCEPT ![b] = @ + 1]
  BY DEF WriteRow, stopping, scalers
<1>3. \/ AppendRow(b, row) /\ Fine /\ UNCHANGED reader
      \/ (OpenFails \/ ExtendFails(b, row)) /\ DiskFault /\ Dies(b)
      \/ KeyError(b) /\ Fine /\ Dies(b)
  BY DEF WriteRow
<1>4. row \in Nat \ {0} /\ events[b] = row - 1
  <2>1. events[b] \in Nat
    BY <1>1 DEF RestOK
  <2> QED
    BY <2>1
<1>5. /\ EqualFor(b) /\ AlignedFor(b) /\ InOrder(b) /\ Rows(b) = 1..(row - 1)
  BY <1>2, <1>4, Aligned, LivingRows DEF IInv, RowsInv
<1> HIDE DEF row
<1>6. /\ WriterTypeOK' /\ Flushed' /\ \A c \in Boards : c # b => Kept(c)
      /\ AlignedFor(b)' /\ InOrder(b)'
      /\ \/ /\ UNCHANGED <<reader, lost_disk>> /\ (AllGroups => AllGroups')
            /\ EqualFor(b)' /\ Rows(b)' = 1..row
         \/ /\ Dies(b) /\ lost_disk'
            /\ Rows(b)' = 1..(row - 1) \/ Rows(b)' = 1..row
  <2>1. CASE AppendRow(b, row) /\ Fine /\ UNCHANGED reader
    BY <1>1, <1>4, <1>5, <2>1, RowWritten DEF Fine
  <2>2. CASE (OpenFails \/ ExtendFails(b, row)) /\ DiskFault /\ Dies(b)
    BY <1>1, <1>4, <1>5, <2>2, RowFailed DEF DiskFault
  <2>3. CASE KeyError(b) /\ Fine /\ Dies(b)
    <3>1. lost_disk
      <4>1. AllGroups => HasTable(b)
        <5>1. Ready \in Seq(File) /\ Len(Ready) \in Nat \ {0}
          BY <1>1, ReadyFiles
        <5>2. opened => Ready = files /\ Len(files) \in DOMAIN files
          BY <1>1, ReadyFiles, FilesType
        <5>3. ~opened => Ready[Len(Ready)] = WholeFile
          BY <1>1, ReadyFiles
        <5> QED
          BY <5>2, <5>3, WholeFileType DEF AllGroups, HasTable, Last
      <4> QED
        BY <2>3, <4>1, Files DEF IInv, KeyError
    <3> QED
      BY <1>1, <1>4, <1>5, <2>3, <3>1, RowFailed DEF Fine
  <2> QED
    BY <1>3, <2>1, <2>2, <2>3
<1>7. ASSUME NEW c \in Boards, c # b
      PROVE  /\ Rows(c)' = Rows(c) /\ (InOrder(c) => InOrder(c)')
             /\ (AlignedFor(c) => AlignedFor(c)')
             /\ (AlignedFor(c) /\ EqualFor(c) => EqualFor(c)')
  BY <1>1, <1>6, <1>7, KeptRows
<1>8. /\ reader'[b] \in {"write", "dead"} /\ \A c \in Boards : c # b => reader'[c] = reader[c]
      /\ reader' \in [Boards -> {"wait", "write", "off", "dead"}]
      /\ reader'[b] = "write" => /\ UNCHANGED lost_disk /\ (AllGroups => AllGroups')
                                /\ EqualFor(b)' /\ Rows(b)' = 1..row
  BY <1>1, <1>2, <1>6 DEF RestOK, Dies
<1>9. /\ left[b] \in Nat /\ left'[b] = left[b] - 1 /\ left'[b] \in Nat
      /\ events'[b] = row /\ left' \in [Boards -> Nat] /\ events' \in [Boards -> Nat]
      /\ \A c \in Boards : c # b => left'[c] = left[c] /\ events'[c] = events[c]
  <2>1. left[b] \in Nat /\ events[b] \in Nat /\ left[b] - 1 \in Nat /\ events[b] + 1 \in Nat
    <3>1. left[b] \in Nat /\ events[b] \in Nat
      BY <1>1 DEF RestOK
    <3> QED
      BY <1>2, <3>1
  <2> QED
    BY <1>1, <1>2, <2>1 DEF RestOK, row
<1>10. TypeOK'
  <2>1. faults' \in 0..MaxFaults /\ lost_disk' \in BOOLEAN
    BY <1>1, <1>3, FaultType DEF RestOK, Fine, DiskFault
  <2>2. RestOK'
    BY <1>1, <1>2, <1>8, <1>9, <2>1, ZenonT(60) DEF RestOK
  <2> QED
    BY <1>6, <2>2, Rest
<1>11. AlignedInv'
  BY <1>6, <1>7, <1>8, Aligned DEF IInv
<1>12. RowsInv'
  <2>1. /\ Rows(b)' \subseteq 1..row /\ 1..(row - 1) \subseteq Rows(b)'
        /\ Rows(b)' = 1..(row - 1) \/ Rows(b)' = 1..row
    BY <1>4, <1>6
  <2>2. reader'[b] # "dead" => 1..row \subseteq Rows(b)'
    BY <1>8
  <2> QED
    BY <1>6, <1>7, <1>8, <1>9, <2>1, <2>2 DEF IInv, RowsInv
<1>13. LedgerInv'
  <2>1. /\ left[b] <= bank[b] /\ compared[b] <= events[b] /\ (b \in Checked => Open(b))
        /\ compared[b] + bank[b] - left[b] <= events[b] /\ bank[b] \in Nat /\ compared[b] \in Nat
    BY <1>1, <1>2 DEF IInv, LedgerInv, RestOK
  <2>2. /\ left'[b] < bank'[b] /\ left'[b] <= bank'[b] /\ compared'[b] <= events'[b]
        /\ compared'[b] + bank'[b] - left'[b] <= events'[b] /\ (b \in Checked => Open(b)')
    BY <1>2, <1>4, <1>9, <2>1 DEF Open
  <2>3. ASSUME NEW c \in Boards, c # b
        PROVE  /\ Rows(c)' = Rows(c)
               /\ UNCHANGED <<reader[c], left[c], bank[c], counted[c], hits[c], compared[c], events[c]>>
    BY <1>2, <1>7, <1>8, <1>9, <2>3
  <2>4. Ledger(b)'
    BY <1>8, <2>2 DEF Ledger
  <2>5. ASSUME NEW c \in Boards, c # b PROVE Ledger(c)'
    BY <2>3, <2>5, Ledgers DEF IInv, Ledger, Open
  <2> QED
    BY <2>4, <2>5, Ledgers
<1>16. reader'[b] = "write" /\ LosesNone => LosesNone'
  BY <1>7, <1>8, <1>9 DEF LosesNone
<1>17. reader'[b] = "dead" => lost_disk'
  BY <1>1, <1>2, <1>6 DEF Dies, RestOK
<1>14. FilesInv'
  BY <1>6, <1>8, <1>16, <1>17, Files DEF IInv
<1>15. StopInv'
  BY <1>2, ActiveReader DEF IInv
<1> QED
  BY <1>10, <1>11, <1>12, <1>13, <1>14, <1>15 DEF IInv

(* the bank is done: the rest of its turn, or the reader dies at the flush *)
LEMMA EndBankStep ==
  ASSUME IInv, NEW b \in Boards, EndBank(b)
  PROVE  IInv'
<1>1. RestOK /\ WriterTypeOK /\ Flushed
  BY Rest, Files DEF IInv
<1>2. /\ UNCHANGED <<running, final, left, hits, events, stats, stop, next, summary, csv>>
      /\ UNCHANGED <<last_row, lost_csv, given, overrun>>
      /\ reader[b] = "write" /\ left[b] = 0
      /\ compared' = (IF counted[b] THEN [compared EXCEPT ![b] = @ + bank[b]] ELSE compared)
  BY DEF EndBank, stopping, scalers
<1>3. \/ /\ Flush /\ Fine
         /\ reader' = [reader EXCEPT ![b] = IF final[b] THEN "off" ELSE "wait"]
         /\ bank' = [bank EXCEPT ![b] = 0] /\ counted' = [counted EXCEPT ![b] = TRUE]
      \/ opened /\ DiskFault /\ Dies(b) /\ UNCHANGED <<writer, bank, counted>>
  BY DEF EndBank
<1>4. /\ WriterTypeOK' /\ Flushed' /\ (AllGroups => AllGroups')
      /\ \A c \in Boards : Kept(c)
  BY <1>1, <1>3, FlushStep
<1>5. ASSUME NEW c \in Boards
      PROVE  /\ Rows(c)' = Rows(c) /\ (InOrder(c) => InOrder(c)')
             /\ (AlignedFor(c) => AlignedFor(c)')
             /\ (AlignedFor(c) /\ EqualFor(c) => EqualFor(c)')
  BY <1>1, <1>4, KeptRows
<1>6. /\ reader' \in [Boards -> {"wait", "write", "off", "dead"}]
      /\ \A c \in Boards : c # b => UNCHANGED <<reader[c], bank[c], counted[c], compared[c]>>
      /\ bank' \in [Boards -> Nat] /\ counted' \in [Boards -> BOOLEAN]
      /\ \/ reader'[b] \in {"wait", "off"} /\ bank'[b] = 0 /\ UNCHANGED lost_disk
         \/ reader'[b] = "dead" /\ UNCHANGED bank /\ lost_disk'
  <2>1. CASE /\ Flush /\ Fine
             /\ reader' = [reader EXCEPT ![b] = IF final[b] THEN "off" ELSE "wait"]
             /\ bank' = [bank EXCEPT ![b] = 0] /\ counted' = [counted EXCEPT ![b] = TRUE]
    <3>1. counted' \in [Boards -> BOOLEAN]
      BY <1>1, <2>1, Zenon DEF RestOK
    <3> QED
      BY <1>1, <1>2, <2>1, <3>1 DEF RestOK, Fine
  <2>2. CASE opened /\ DiskFault /\ Dies(b) /\ UNCHANGED <<writer, bank, counted>>
    BY <1>1, <1>2, <2>2 DEF RestOK, DiskFault, Dies
  <2> QED
    BY <1>3, <2>1, <2>2
<1>7. /\ compared' \in [Boards -> Nat] /\ (b \in Checked => compared'[b] = hits[b])
      /\ hits'[b] = hits[b]
      /\ compared'[b] <= events[b]
  <2>1. /\ bank[b] \in Nat /\ compared[b] \in Nat /\ events[b] \in Nat /\ compared \in [Boards -> Nat]
        /\ compared[b] <= events[b] /\ compared[b] + bank[b] - left[b] <= events[b]
        /\ b \in Checked => hits[b] = compared[b] + (IF counted[b] THEN bank[b] ELSE 0)
    BY <1>1, <1>2 DEF IInv, LedgerInv, Open, RestOK
  <2>2. compared[b] + bank[b] \in Nat /\ compared[b] + bank[b] <= events[b]
    BY <1>2, <2>1
  <2>3. CASE counted[b]
    BY <1>2, <2>1, <2>2, <2>3
  <2>4. CASE ~counted[b]
    BY <1>2, <2>1, <2>4
  <2> QED
    BY <2>3, <2>4
<1>8. TypeOK'
  <2>1. faults' \in 0..MaxFaults /\ lost_disk' \in BOOLEAN
    BY <1>1, <1>3, FaultType DEF RestOK, Fine, DiskFault
  <2>2. RestOK'
    BY <1>1, <1>2, <1>6, <1>7, <2>1, ZenonT(60) DEF RestOK
  <2> QED
    BY <1>4, <2>2, Rest
<1>9. AlignedInv'
  BY <1>2, <1>5, <1>6, Aligned DEF IInv
<1>10. RowsInv'
  BY <1>2, <1>5, <1>6 DEF IInv, RowsInv
<1>11. LedgerInv'
  <2>1. Ledger(b)'
    <3>1. 1..events'[b] \subseteq Rows(b)' /\ left'[b] = 0 /\ bank[b] \in Nat
      BY <1>1, <1>2, <1>5 DEF IInv, RowsInv, RestOK
    <3> QED
      BY <1>2, <1>6, <1>7, <3>1 DEF Ledger
  <2>2. ASSUME NEW c \in Boards, c # b PROVE Ledger(c)'
    BY <1>2, <1>5, <1>6, <2>2, Ledgers DEF IInv, Ledger, Open
  <2> QED
    BY <2>1, <2>2, Ledgers
<1>14. reader'[b] # "dead" /\ LosesNone => LosesNone'
  BY <1>2, <1>5, <1>6 DEF LosesNone
<1>12. FilesInv'
  BY <1>4, <1>6, <1>14, Files DEF IInv
<1>13. StopInv'
  BY <1>2, ActiveReader DEF IInv
<1> QED
  BY <1>8, <1>9, <1>10, <1>11, <1>12, <1>13 DEF IInv

(* a reader that has no bank in hand ends *)
LEMMA LeaveStep ==
  ASSUME IInv, NEW b \in Boards, ReaderDies(b) \/ ReaderGivesUp(b)
  PROVE  IInv'
<1>1. RestOK /\ WriterTypeOK /\ Flushed
  BY Rest, Files DEF IInv
<1>2. /\ UNCHANGED <<files, opened, running, final, bank, left, counted, hits, events, compared>>
      /\ UNCHANGED <<stats, stop, next, summary, csv, last_row, lost_csv, given, lost_disk>>
      /\ UNCHANGED overrun
      /\ reader[b] = "wait"
      /\ reader' = [reader EXCEPT ![b] = "dead"] \/ reader' = [reader EXCEPT ![b] = "off"]
  BY DEF ReaderDies, ReaderGivesUp, Dies, writer, bookkeeping, stopping, scalers, Fine
<1>3. faults' \in 0..MaxFaults
  BY <1>1, FaultType DEF RestOK, ReaderDies, ReaderGivesUp, Fine
<1>4. /\ WriterTypeOK' /\ Flushed' /\ (AllGroups => AllGroups')
      /\ \A c \in Boards : Kept(c)
  BY <1>1, <1>2, FlushStep DEF writer
<1>5. ASSUME NEW c \in Boards
      PROVE  /\ Rows(c)' = Rows(c) /\ (InOrder(c) => InOrder(c)')
             /\ (AlignedFor(c) => AlignedFor(c)')
             /\ (AlignedFor(c) /\ EqualFor(c) => EqualFor(c)')
  BY <1>1, <1>4, KeptRows
<1>6. /\ reader'[b] \in {"dead", "off"} /\ \A c \in Boards : c # b => reader'[c] = reader[c]
      /\ reader' \in [Boards -> {"wait", "write", "off", "dead"}]
  BY <1>1, <1>2 DEF RestOK
<1>7. TypeOK'
  <2>1. RestOK'
    BY <1>1, <1>2, <1>3, <1>6, ZenonT(60) DEF RestOK
  <2> QED
    BY <1>4, <2>1, Rest
<1>8. AlignedInv'
  BY <1>2, <1>5, <1>6, Aligned DEF IInv
<1>9. RowsInv'
  BY <1>2, <1>5, <1>6 DEF IInv, RowsInv
<1>10. 1..events[b] \subseteq Rows(b) /\ left[b] = 0
  <2>1. left[b] \in Nat /\ left[b] <= bank[b] /\ bank[b] = 0
    BY <1>1, <1>2 DEF IInv, LedgerInv, RestOK
  <2> QED
    BY <1>2, <2>1 DEF IInv, RowsInv
<1>11. LedgerInv'
  <2>1. Ledger(b)'
    BY <1>2, <1>5, <1>6, <1>10, Ledgers DEF IInv, Ledger
  <2>2. ASSUME NEW c \in Boards, c # b PROVE Ledger(c)'
    BY <1>2, <1>5, <1>6, <2>2, Ledgers DEF IInv, Ledger, Open
  <2> QED
    BY <2>1, <2>2, Ledgers
<1>12. FilesInv'
  <2>1. LosesNone => LosesNone'
    BY <1>2, <1>5, <1>6, <1>10 DEF LosesNone
  <2> QED
    BY <1>2, <1>4, <2>1, Files DEF IInv
<1>13. StopInv'
  BY <1>2, ActiveReader DEF IInv
<1> QED
  BY <1>7, <1>8, <1>9, <1>11, <1>12, <1>13 DEF IInv

(* the statistics thread, and the steps of stop() that touch no file of the *)
(* run                                                                      *)
LEMMA OtherSteps ==
  ASSUME IInv, UNCHANGED <<writer, readers, bookkeeping, lost_disk>>
  PROVE  /\ WriterTypeOK' /\ AlignedInv' /\ RowsInv' /\ LedgerInv' /\ FilesInv'
<1>1. /\ WriterTypeOK' /\ Flushed' /\ (AllGroups => AllGroups') /\ \A c \in Boards : Kept(c)
  BY Files, Rest, FlushStep DEF IInv
<1> QED
  BY <1>1, KeptStep, Files DEF IInv, readers

LEMMA ScalersType ==
  ASSUME RestOK, WriteScalers, UNCHANGED <<hits, events>>
  PROVE  /\ csv' \in BOOLEAN /\ lost_csv' \in BOOLEAN /\ faults' \in 0..MaxFaults
         /\ last_row' \in [Boards -> Nat \X Nat]
         /\ ~lost_csv' => ~lost_csv /\ last_row' = [b \in Boards |-> RowOf(b)] /\ csv' = csv
<1>1. \A b \in Boards : RowOf(b) \in Nat \X Nat
  BY DEF RestOK, RowOf
<1>2. CASE /\ last_row' = [b \in Boards |-> RowOf(b)]
           /\ UNCHANGED <<csv, lost_csv, faults>>
  BY <1>1, <1>2 DEF RestOK
<1>3. CASE /\ Fault
           /\ \E n \in 0..(NBoards - 1) :
                last_row' = [b \in Boards |-> IF b <= n THEN RowOf(b) ELSE last_row[b]]
           /\ csv' = FALSE /\ lost_csv' = TRUE
  <2>1. PICK n \in 0..(NBoards - 1) :
          last_row' = [b \in Boards |-> IF b <= n THEN RowOf(b) ELSE last_row[b]]
    BY <1>3
  <2>2. last_row' \in [Boards -> Nat \X Nat]
    BY <1>1, <2>1 DEF RestOK
  <2> QED
    BY <1>3, <2>2, FaultType DEF RestOK
<1> QED
  BY <1>2, <1>3 DEF WriteScalers

LEMMA StatsStep ==
  ASSUME IInv, Stats
  PROVE  IInv'
<1>1. RestOK
  BY Rest DEF IInv
<1>2. /\ UNCHANGED <<writer, readers, bookkeeping, lost_disk>>
      /\ UNCHANGED <<running, stop, next, summary, overrun, given>>
      /\ UNCHANGED <<reader, final, bank, left, counted, hits, events, compared>>
  BY DEF Stats, StatsWakes, StatsRow, stopping, readers, bookkeeping
<1>3. /\ stats \in {"sleep", "row"} /\ stats' \in {"sleep", "row", "off", "dead"}
      /\ (UNCHANGED <<scalers, faults>> \/ WriteScalers)
  BY DEF Stats, StatsWakes, StatsRow
<1>4. /\ csv' \in BOOLEAN /\ lost_csv' \in BOOLEAN /\ faults' \in 0..MaxFaults
      /\ last_row' \in [Boards -> Nat \X Nat]
      /\ ~lost_csv' => ~lost_csv /\ csv' = csv
  <2>1. CASE UNCHANGED <<scalers, faults>>
    <3>1. UNCHANGED <<csv, last_row, lost_csv, faults>>
      BY <2>1 DEF scalers
    <3> QED
      BY <1>1, <3>1 DEF RestOK
  <2>2. CASE WriteScalers
    BY <1>1, <1>2, <2>2, ScalersType
  <2> QED
    BY <1>3, <2>1, <2>2
<1>5. WriterTypeOK' /\ AlignedInv' /\ RowsInv' /\ LedgerInv' /\ FilesInv'
  BY <1>2, OtherSteps
<1>6. RestOK'
  BY <1>1, <1>2, <1>3, <1>4 DEF RestOK
<1>7. StopInv'
  <2>1. stop \in {"idle", "readers", "stats"} \/ overrun
    BY <1>3 DEF IInv, StopInv
  <2> QED
    <3>1. /\ stop \in {"idle", "readers", "stats", "close", "row", "write row", "check csv"}
               /\ ~lost_csv => csv
          /\ stop = "attach" => next <= NBoards
          /\ stop = "row raised" => overrun
      BY DEF IInv, StopInv
    <3>2. CASE overrun
      BY <1>2, <1>4, <3>1, <3>2 DEF StopInv
    <3>3. CASE stop \in {"idle", "readers", "stats"}
      <4>1. stop \notin {"idle", "readers"} /\ ~overrun => \A b \in Boards : reader[b] \in {"off", "dead"}
        BY DEF IInv, StopInv
      <4> QED
        BY <1>2, <1>4, <3>1, <3>3, <4>1 DEF StopInv
    <3> QED
      BY <2>1, <3>2, <3>3
<1> QED
  BY <1>5, <1>6, <1>7, Rest DEF IInv

-----------------------------------------------------------------------------
(* stop() *)

(* the steps that leave the files of the run and the scaler file alone *)
LEMMA EarlyStop ==
  ASSUME IInv, StopRequest \/ JoinReaders \/ JoinStats \/ FinalCheck \/ CheckCsv
  PROVE  IInv'
<1>1. RestOK
  BY Rest DEF IInv
<1>2. /\ UNCHANGED <<writer, readers, bookkeeping, lost_disk>>
      /\ UNCHANGED <<files, opened, stats, given, csv, last_row, lost_csv, next, summary>>
      /\ UNCHANGED <<reader, final, bank, left, counted, hits, events, compared>>
  BY DEF StopRequest, JoinReaders, JoinStats, FinalCheck, CheckCsv, Join, Goto, Quiet, Fine, readers,
         bookkeeping, scalers, writer
<1>3. WriterTypeOK' /\ AlignedInv' /\ RowsInv' /\ LedgerInv' /\ FilesInv'
  BY <1>2, OtherSteps
<1>4. faults' \in 0..MaxFaults
  BY <1>1, FaultType DEF RestOK, StopRequest, JoinReaders, JoinStats, FinalCheck, CheckCsv,
     Fine
<1>5. CASE StopRequest
  <2>1. /\ stop = "idle" /\ stop' = "readers" /\ running' = FALSE /\ UNCHANGED overrun
    BY <1>5 DEF StopRequest, Goto
  <2>2. RestOK'
    BY <1>1, <1>2, <1>4, <2>1 DEF RestOK
  <2>3. StopInv'
    BY <1>2, <2>1 DEF IInv, StopInv
  <2> QED
    BY <1>3, <2>2, <2>3, Rest DEF IInv
<1>6. CASE JoinReaders
  <2>1. /\ stop = "readers" /\ stop' = "stats" /\ UNCHANGED running
        /\ \/ (\A b \in Boards : reader[b] \in {"off", "dead"}) /\ UNCHANGED overrun
           \/ overrun' = TRUE
    BY <1>6 DEF JoinReaders, Join, Goto
  <2>2. RestOK'
    BY <1>1, <1>2, <1>4, <2>1 DEF RestOK
  <2>3. StopInv'
    BY <1>2, <2>1 DEF IInv, StopInv
  <2> QED
    BY <1>3, <2>2, <2>3, Rest DEF IInv
<1>7. CASE JoinStats
  <2>1. /\ stop = "stats" /\ stop' = "close" /\ UNCHANGED running
        /\ (stats \in {"off", "dead"} /\ UNCHANGED overrun) \/ overrun' = TRUE
    BY <1>7 DEF JoinStats, Join, Goto
  <2>2. RestOK'
    BY <1>1, <1>2, <1>4, <2>1 DEF RestOK
  <2>3. StopInv'
    BY <1>2, <2>1 DEF IInv, StopInv
  <2> QED
    BY <1>3, <2>2, <2>3, Rest DEF IInv
<1>8. CASE FinalCheck
  <2>1. /\ stop = "row" /\ stop' = (IF csv THEN "write row" ELSE "summary")
        /\ UNCHANGED <<running, overrun>>
    BY <1>8 DEF FinalCheck, Goto
  <2>2. RestOK'
    BY <1>1, <1>2, <1>4, <2>1 DEF RestOK
  <2>3. StopInv'
    BY <1>2, <2>1 DEF IInv, StopInv
  <2> QED
    BY <1>3, <2>2, <2>3, Rest DEF IInv
<1>9. CASE CheckCsv
  <2>1. /\ stop = "check csv" /\ stop' = (IF csv THEN "close csv" ELSE "summary")
        /\ UNCHANGED <<running, overrun>>
    BY <1>9 DEF CheckCsv, Goto
  <2>2. RestOK'
    BY <1>1, <1>2, <1>4, <2>1 DEF RestOK
  <2>3. StopInv'
    BY <1>2, <2>1 DEF IInv, StopInv, RowOf
  <2> QED
    BY <1>3, <2>2, <2>3, Rest DEF IInv
<1> QED
  BY <1>5, <1>6, <1>7, <1>8, <1>9

(* the files are closed, unless that fails *)
LEMMA CloseStep ==
  ASSUME IInv, Close
  PROVE  IInv'
<1>1. RestOK /\ WriterTypeOK /\ Flushed
  BY Rest, Files DEF IInv
<1>2. /\ stop = "close" /\ UNCHANGED <<readers, bookkeeping>>
      /\ UNCHANGED <<running, stats, given, csv, last_row, lost_csv, next, summary, overrun>>
      /\ UNCHANGED <<reader, final, bank, left, counted, hits, events, compared>>
      /\ \/ CloseFile /\ Fine /\ stop' = "row"
         \/ UNCHANGED writer /\ DiskFault /\ stop' = "close raised"
  BY DEF Close, Goto, Quiet, readers, bookkeeping, scalers
<1>3. /\ WriterTypeOK' /\ Flushed' /\ (AllGroups => AllGroups') /\ \A b \in Boards : Kept(b)
      /\ CloseFile => ~opened'
  BY <1>1, <1>2, FlushStep
<1>4. AlignedInv' /\ RowsInv' /\ LedgerInv' /\ (LosesNone => LosesNone')
  BY <1>2, <1>3, KeptStep DEF IInv
<1>5. faults' \in 0..MaxFaults /\ lost_disk' \in BOOLEAN /\ (~lost_disk' => ~lost_disk)
  BY <1>1, <1>2, FaultType DEF RestOK, Fine, DiskFault
<1>6. RestOK'
  BY <1>1, <1>2, <1>5 DEF RestOK
<1>7. FilesInv'
  BY <1>2, <1>3, <1>4, <1>5, Files DEF IInv
<1>8. StopInv'
  BY <1>2, <1>3 DEF IInv, StopInv
<1> QED
  BY <1>3, <1>4, <1>6, <1>7, <1>8, Rest DEF IInv

(* the last scaler row *)
LEMMA FinalRowStep ==
  ASSUME IInv, FinalRow
  PROVE  IInv'
<1>1. RestOK
  BY Rest DEF IInv
<1>2. /\ UNCHANGED <<writer, readers, bookkeeping, lost_disk>>
      /\ UNCHANGED <<files, opened, running, stats, given, next, summary, overrun>>
      /\ UNCHANGED <<reader, final, bank, left, counted, hits, events, compared>>
      /\ stop = "write row"
      /\ \/ WriteScalers /\ stop' = "check csv"
         \/ ~csv /\ stop' = "row raised" /\ UNCHANGED <<csv, last_row, lost_csv, faults>>
  BY DEF FinalRow, Goto, Quiet, readers, bookkeeping, scalers, writer
<1>3. WriterTypeOK' /\ AlignedInv' /\ RowsInv' /\ LedgerInv' /\ FilesInv'
  BY <1>2, OtherSteps
<1>4. /\ csv' \in BOOLEAN /\ lost_csv' \in BOOLEAN /\ faults' \in 0..MaxFaults
      /\ last_row' \in [Boards -> Nat \X Nat]
      /\ WriteScalers /\ ~lost_csv' => csv' = csv /\ last_row' = [b \in Boards |-> RowOf(b)]
  BY <1>1, <1>2, ScalersType DEF RestOK
<1>5. RestOK'
  BY <1>1, <1>2, <1>4 DEF RestOK
<1>7. /\ ~lost_csv => csv
      /\ ~overrun => /\ csv /\ ~opened /\ stats \in {"off", "dead"}
                     /\ \A b \in Boards : reader[b] \in {"off", "dead"}
  BY <1>2 DEF IInv, StopInv
<1>6. StopInv'
  <2>1. CASE WriteScalers /\ stop' = "check csv"
    <3>1. ~lost_csv' => csv' /\ \A b \in Boards : last_row'[b] = RowOf(b)'
      BY <1>2, <1>4, <1>7, <2>1, ScalersType, <1>1 DEF RowOf
    <3> QED
      BY <1>2, <1>7, <2>1, <3>1 DEF StopInv
  <2>2. CASE ~csv /\ stop' = "row raised"
    BY <1>2, <1>7, <2>2 DEF StopInv
  <2> QED
    BY <1>2, <2>1, <2>2
<1> QED
  BY <1>3, <1>5, <1>6, Rest DEF IInv

(* the scaler file is closed *)
LEMMA CloseCsvStep ==
  ASSUME IInv, CloseCsv
  PROVE  IInv'
<1>1. RestOK
  BY Rest DEF IInv
<1>2. /\ UNCHANGED <<writer, readers, bookkeeping, lost_disk>>
      /\ UNCHANGED <<files, opened, running, stats, given, next, summary, overrun, faults>>
      /\ UNCHANGED <<reader, final, bank, left, counted, hits, events, compared>>
      /\ UNCHANGED <<last_row, lost_csv>> /\ csv' = FALSE
      /\ stop = "close csv" /\ stop' = (IF csv THEN "summary" ELSE "row raised")
  BY DEF CloseCsv, Goto, Quiet, Fine, readers, bookkeeping, writer
<1>3. WriterTypeOK' /\ AlignedInv' /\ RowsInv' /\ LedgerInv' /\ FilesInv'
  BY <1>2, OtherSteps
<1>4. RestOK'
  BY <1>1, <1>2 DEF RestOK
<1>5. StopInv'
  BY <1>2 DEF IInv, StopInv, RowOf
<1> QED
  BY <1>3, <1>4, <1>5, Rest DEF IInv

(* the totals of the run *)
LEMMA SummarizeStep ==
  ASSUME IInv, Summarize
  PROVE  IInv'
<1>1. RestOK
  BY Rest DEF IInv
<1>2. /\ UNCHANGED <<writer, readers, bookkeeping, lost_disk>>
      /\ UNCHANGED <<files, opened, running, stats, given, overrun, csv, last_row, lost_csv, faults>>
      /\ UNCHANGED <<reader, final, bank, left, counted, hits, events, compared>>
      /\ stop = "summary" /\ stop' = "attach" /\ next' = 1
      /\ summary' = [b \in Boards |->
                       [hits |-> hits[b], events |-> events[b], compared |-> compared[b]]]
  BY DEF Summarize, Quiet, Fine, readers, bookkeeping, scalers, writer, ComparedEvents
<1>3. WriterTypeOK' /\ AlignedInv' /\ RowsInv' /\ LedgerInv' /\ FilesInv'
  BY <1>2, OtherSteps
<1>4. summary' \in [Boards -> Totals]
  BY <1>1, <1>2 DEF RestOK, Totals
<1>5. NBoards \in Nat /\ 1 <= NBoards /\ 1 \in 1..(NBoards + 1) /\ \A b \in Boards : ~(b < 1)
  BY RunWriterAssumption DEF Boards
<1>6. RestOK'
  BY <1>1, <1>2, <1>4, <1>5 DEF RestOK
<1>7. StopInv'
  BY <1>2, <1>5 DEF IInv, StopInv, RowOf
<1> QED
  BY <1>3, <1>6, <1>7, Rest DEF IInv

(* the totals of one board go into the files *)
LEMMA AttachStep ==
  ASSUME IInv, Attach
  PROVE  IInv'
<1>1. RestOK /\ WriterTypeOK /\ Flushed
  BY Rest, Files DEF IInv
<1>2. /\ stop = "attach" /\ UNCHANGED <<readers, bookkeeping>>
      /\ UNCHANGED <<opened, running, stats, given, csv, last_row, lost_csv, summary, overrun>>
      /\ UNCHANGED <<reader, final, bank, left, counted, hits, events, compared>>
      /\ next' = next + 1 /\ stop' = (IF next = NBoards THEN "done" ELSE "attach")
  BY DEF Attach, Quiet, readers, bookkeeping, scalers
<1>3. /\ next \in Boards /\ NBoards \in Nat /\ next \in 1..NBoards
      /\ next + 1 \in 1..(NBoards + 1) /\ (next # NBoards => next + 1 <= NBoards)
  <2>1. next \in 1..(NBoards + 1) /\ next <= NBoards /\ NBoards \in Nat
    BY <1>1, <1>2, RunWriterAssumption DEF IInv, StopInv, RestOK
  <2> QED
    BY <2>1 DEF Boards
<1>4. PICK n \in Nat :
        /\ AddSummary(next, n)
        /\ (n = Len(files) /\ Fine) \/ DiskFault
  <2>1. Len(files) \in Nat /\ \A n \in 0..(Len(files) - 1) : n \in Nat
    BY <1>1, FilesType
  <2>2. \/ AddSummary(next, Len(files)) /\ Fine
        \/ DiskFault /\ \E n \in 0..(Len(files) - 1) : AddSummary(next, n)
    BY DEF Attach
  <2> QED
    BY <2>1, <2>2
<1>5. /\ WriterTypeOK' /\ Flushed' /\ (AllGroups => AllGroups')
      /\ \A c \in Boards : Kept(c)
      /\ DOMAIN files' = DOMAIN files
      /\ \A i \in DOMAIN files : files[i].summary \subseteq files'[i].summary
      /\ n = Len(files) /\ AllGroups => \A i \in DOMAIN files : next \in files'[i].summary
  BY <1>1, <1>2, <1>3, <1>4, SummaryStep
<1>6. AlignedInv' /\ RowsInv' /\ LedgerInv' /\ (LosesNone => LosesNone')
  BY <1>2, <1>5, KeptStep DEF IInv
<1>7. faults' \in 0..MaxFaults /\ lost_disk' \in BOOLEAN /\ (~lost_disk' => ~lost_disk /\ n = Len(files))
  <2>1. CASE n = Len(files) /\ Fine
    <3>1. UNCHANGED <<faults, lost_disk>>
      BY <2>1 DEF Fine
    <3> QED
      BY <1>1, <2>1, <3>1 DEF RestOK
  <2>2. CASE DiskFault
    BY <1>1, <2>2, FaultType DEF RestOK, DiskFault
  <2> QED
    BY <1>4, <2>1, <2>2
<1>8. RestOK'
  BY <1>1, <1>2, <1>3, <1>7 DEF RestOK
<1>9. FilesInv'
  BY <1>2, <1>5, <1>6, <1>7, Files DEF IInv
<1>10. StopInv'
  <2>1. ASSUME ~overrun', ~lost_disk', NEW i \in DOMAIN files', NEW b \in Boards,
               b < next' \/ stop' = "done"
        PROVE  b \in files'[i].summary
    <3>1. AllGroups
      BY <1>7, <2>1, Files DEF IInv
    <3>2. b < next \/ b = next
      BY <1>2, <1>3, <2>1 DEF Boards
    <3>3. b < next => b \in files[i].summary
      BY <1>2, <1>5, <1>7, <2>1 DEF IInv, StopInv
    <3> QED
      BY <1>5, <1>7, <2>1, <3>1, <3>2, <3>3
  <2>2. stop' \in {"attach", "done"} /\ (stop' = "attach" => next' <= NBoards)
    BY <1>2, <1>3
  <2> QED
    BY <1>2, <2>1, <2>2 DEF IInv, StopInv, RowOf
<1> QED
  BY <1>5, <1>6, <1>8, <1>9, <1>10, Rest DEF IInv

-----------------------------------------------------------------------------
LEMMA InitInv == ASSUME Init PROVE IInv
<1>1. /\ files = <<>> /\ opened = FALSE /\ DOMAIN files = {} /\ files \in Seq(File)
  BY EmptySeq DEF Init
<1>2. WriterTypeOK
  BY <1>1 DEF WriterTypeOK
<1>3. RestOK
  <2>1. \A b \in Boards : <<0, 0>> \in Nat \X Nat
    OBVIOUS
  <2>2. /\ MaxRows \in Nat /\ MaxFaults \in Nat /\ 1 \in 1..(NBoards + 1) /\ 0 \in 0..MaxRows
    BY RunOutputAssumption, RunWriterAssumption
  <2>3. faults \in 0..MaxFaults /\ csv \in BOOLEAN /\ lost_csv \in BOOLEAN
    BY <2>2 DEF Init
  <2> QED
    BY <2>1, <2>2, <2>3 DEF Init, RestOK
<1>4. \A b \in Boards : Rows(b) = {} /\ InOrder(b) /\ AlignedFor(b) /\ EqualFor(b)
  BY <1>1, RowsMember DEF InOrder, AlignedFor, EqualFor
<1>5. AlignedInv
  BY <1>4, Aligned
<1>6. RowsInv
  BY <1>4 DEF RowsInv, Init
<1>7. LedgerInv
  BY DEF LedgerInv, Open, Init
<1>8. FilesInv
  BY <1>1 DEF FilesInv, Init
<1>9. StopInv
  BY DEF StopInv, Init
<1> QED
  BY <1>2, <1>3, <1>5, <1>6, <1>7, <1>8, <1>9, Rest DEF IInv

(* The invariant is inductive. *)
LEMMA StepInv == ASSUME IInv, [Next]_vars PROVE IInv'
<1>1. ASSUME NEW b \in Boards, Reader(b) PROVE IInv'
  BY <1>1, TakeBankStep, WriteRowStep, EndBankStep, LeaveStep DEF Reader
<1>2. CASE Stats
  BY <1>2, StatsStep
<1>3. CASE Stop
  BY <1>3, EarlyStop, CloseStep, FinalRowStep, CloseCsvStep, SummarizeStep, AttachStep DEF Stop
<1>4. CASE UNCHANGED vars
  <2>1. /\ UNCHANGED <<writer, readers, bookkeeping, lost_disk>>
        /\ UNCHANGED <<files, opened, running, stats, given, csv, last_row, lost_csv, faults>>
        /\ UNCHANGED <<stop, next, summary, overrun>>
        /\ UNCHANGED <<reader, final, bank, left, counted, hits, events, compared>>
    BY <1>4 DEF vars, writer, readers, bookkeeping, stopping, scalers
  <2>2. WriterTypeOK' /\ AlignedInv' /\ RowsInv' /\ LedgerInv' /\ FilesInv'
    BY <2>1, OtherSteps
  <2>3. RestOK'
    <3>1. RestOK
      BY Rest DEF IInv
    <3>2. /\ running' \in BOOLEAN /\ stats' \in {"sleep", "row", "off", "dead"}
          /\ reader' \in [Boards -> {"wait", "write", "off", "dead"}]
          /\ final' \in [Boards -> BOOLEAN] /\ counted' \in [Boards -> BOOLEAN]
          /\ bank' \in [Boards -> Nat] /\ left' \in [Boards -> Nat]
          /\ hits' \in [Boards -> Nat] /\ events' \in [Boards -> Nat]
          /\ compared' \in [Boards -> Nat]
      BY <2>1, <3>1 DEF RestOK
    <3>3. /\ stop' = stop /\ summary' = summary
          /\ stop' \in {"idle", "readers", "stats", "close", "row", "write row", "check csv",
                        "close csv", "summary", "attach", "done", "close raised", "row raised"}
      BY <2>1, <3>1 DEF RestOK
    <3>4. stop' \in {"attach", "done"} => summary' \in [Boards -> Totals]
      BY <3>1, <3>3, Zenon DEF RestOK
    <3>5. /\ next' \in 1..(NBoards + 1) /\ csv' \in BOOLEAN
          /\ last_row' \in [Boards -> Nat \X Nat]
          /\ given' \in 0..MaxRows /\ faults' \in 0..MaxFaults
          /\ lost_disk' \in BOOLEAN /\ lost_csv' \in BOOLEAN /\ overrun' \in BOOLEAN
      BY <2>1, <3>1 DEF RestOK
    <3> QED
      BY <3>2, <3>3, <3>4, <3>5, Zenon DEF RestOK
  <2>4. StopInv'
    BY <2>1 DEF IInv, StopInv, RowOf
  <2> QED
    BY <2>2, <2>3, <2>4, Rest DEF IInv
<1> QED
  BY <1>1, <1>2, <1>3, <1>4 DEF Next

(* Readers that die or go on after the stop, files that fail and joins that *)
(* time out keep IInv.                                                      *)
THEOREM Invariance == Spec => []IInv
<1>1. Init => IInv
  BY InitInv
<1>2. IInv /\ [Next]_vars => IInv'
  BY StepInv
<1> QED
  BY <1>1, <1>2, PTL DEF Spec

(* The files of a run are well formed: an open one has been made, one that  *)
(* could not be made has no rows, and only rows that it has are flushed.    *)
THEOREM TypeCorrect == Spec => []TypeOK
<1>1. IInv => TypeOK
  BY DEF IInv
<1> QED
  BY <1>1, Invariance, PTL

(* Waveform rows stay aligned with event rows (writer.py:13), whatever      *)
(* write fails.                                                             *)
THEOREM WavesStayAligned == Spec => []WavesAligned
<1>1. IInv => WavesAligned
  BY DEF IInv, AlignedInv
<1> QED
  BY <1>1, Invariance, PTL

(* After a stop without failed disk operations and without an overrun, the  *)
(* files, the summary and the scaler file say the same of every board.      *)
THEOREM BooksBalance == Spec => []BooksAgree
<1>1. ASSUME IInv, stop = "done", ~lost_disk, ~overrun, NEW b \in Boards
      PROVE  /\ Rows(b) = 1..summary[b].events /\ InOrder(b)
             /\ ~lost_csv => last_row[b] = <<summary[b].hits, summary[b].events>>
  <2>1. summary[b].events = events[b] /\ summary[b].hits = hits[b]
    <3>1. summary[b] = [hits |-> hits[b], events |-> events[b], compared |-> compared[b]]
      BY <1>1 DEF IInv, StopInv
    <3> QED
      BY <3>1
  <2>2. InOrder(b) /\ Rows(b) \subseteq 1..events[b]
    BY <1>1 DEF IInv, RowsInv
  <2>3. Rows(b) = 1..events[b]
    <3>1. 1..events[b] \subseteq Rows(b)
      BY <1>1 DEF IInv, FilesInv, RowsInv
    <3> QED
      BY <2>2, <3>1
  <2>4. ~lost_csv => last_row[b] = <<hits[b], events[b]>>
    BY <1>1 DEF IInv, StopInv, RowOf
  <2> QED
    BY <2>1, <2>2, <2>3, <2>4
<1>2. IInv => BooksAgree
  BY <1>1 DEF BooksAgree
<1> QED
  BY <1>2, Invariance, PTL

(* Then every file of the run has the totals of every board (stop() stores  *)
(* them in all the paths), and all its rows are flushed.                    *)
THEOREM TotalsInAllFiles == Spec => []SummaryEverywhere
<1>1. IInv => SummaryEverywhere
  BY DEF IInv, StopInv, FilesInv, SummaryEverywhere
<1> QED
  BY <1>1, Invariance, PTL

LEMMA LostCount ==
  ASSUME IInv, stop = "done", ~overrun, NEW b \in Boards, b \in Checked, counted[b],
         Taken(b) - Cardinality(Rows(b)) > IntegrityAbs
  PROVE  Mismatch(b)
<1>1. /\ events[b] \in Nat /\ left[b] \in Nat /\ bank[b] \in Nat /\ hits[b] \in Nat
      /\ compared[b] \in Nat /\ IntegrityAbs \in Nat /\ left[b] <= bank[b]
  BY RunOutputAssumption, Rest DEF IInv, RestOK, LedgerInv
<1>2. summary[b].hits = hits[b] /\ summary[b].compared = compared[b] /\ reader[b] \in {"off", "dead"}
  <2>1. /\ summary[b] = [hits |-> hits[b], events |-> events[b], compared |-> compared[b]]
        /\ reader[b] \in {"off", "dead"}
    BY DEF IInv, StopInv
  <2> QED
    BY <2>1
<1>3. /\ Rows(b) \subseteq 1..events[b] /\ 1..(events[b] - 1) \subseteq Rows(b)
      /\ reader[b] # "dead" => 1..events[b] \subseteq Rows(b)
  BY DEF IInv, RowsInv
<1>4. /\ IsFiniteSet(1..events[b]) /\ Cardinality(1..events[b]) = events[b]
      /\ Cardinality(1..(events[b] - 1)) >= events[b] - 1
      /\ Cardinality(1..(events[b] - 1)) \in Nat
  <2>1. /\ IsFiniteSet(1..events[b])
        /\ Cardinality(1..events[b]) = IF 1 > events[b] THEN 0 ELSE events[b] - 1 + 1
    <3>1. events[b] \in Int
      BY <1>1
    <3> QED
      BY <3>1, FS_Interval
  <2>2. Cardinality(1..(events[b] - 1)) = IF 1 > events[b] - 1 THEN 0 ELSE events[b] - 1 - 1 + 1
    <3>1. events[b] - 1 \in Int
      BY <1>1
    <3> QED
      BY <3>1, FS_Interval
  <2> QED
    BY <1>1, <2>1, <2>2
<1>5. IsFiniteSet(Rows(b)) /\ Cardinality(Rows(b)) \in Nat
  BY <1>3, <1>4, FS_Subset, FS_CardinalityType
<1>6. Cardinality(Rows(b)) >= events[b] - 1
  <2>1. Cardinality(1..(events[b] - 1)) <= Cardinality(Rows(b))
    BY <1>3, <1>5, FS_Subset
  <2> QED
    BY <1>1, <1>4, <1>5, <2>1
<1>7. ASSUME left[b] = 0, 1..events[b] \subseteq Rows(b) PROVE FALSE
  <2>1. Rows(b) = 1..events[b]
    BY <1>3, <1>7
  <2> QED
    BY <1>1, <1>4, <1>7, <2>1 DEF Taken
<1>8. reader[b] = "dead" /\ left[b] < bank[b] /\ hits[b] = compared[b] + bank[b]
  BY <1>1, <1>2, <1>3, <1>7 DEF IInv, LedgerInv, Open
<1>9. bank[b] > IntegrityAbs
  BY <1>1, <1>5, <1>6, <1>8 DEF Taken
<1>10. summary[b].compared - summary[b].hits = -bank[b] /\ -(-bank[b]) = bank[b]
  BY <1>1, <1>2, <1>8
<1> QED
  BY <1>1, <1>9, <1>10 DEF Mismatch

(* Rows of a counted bank that a failed write kept from the files show in   *)
(* the integrity check when they are more than its tolerance, on channels   *)
(* that are checked.                                                        *)
THEOREM LossShows == Spec => []LostRowsFlagged
<1>1. IInv => LostRowsFlagged
  BY RunOutputAssumption, LostCount DEF LostRowsFlagged
<1> QED
  BY <1>1, Invariance, PTL

-----------------------------------------------------------------------------
(* The files of a run implement RowLog: what each step does to the rows and *)
(* their places                                                             *)

(* nothing happens to the rows of a board, nor to those that are flushed *)
Untouched(b) == Lines(b)' = Lines(b) /\ SafeLines(b)' = SafeLines(b)

(* a row is added behind all others, and not flushed *)
Added(b, row) ==
  /\ SafeLines(b)' = SafeLines(b)
  /\ \E line \in Lines(b)' :
       /\ line.row = row /\ Lines(b)' = Lines(b) \union {line}
       /\ \A l \in Lines(b) : l.file < line.file \/ (l.file = line.file /\ l.at < line.at)

LEMMA ExtendLines ==
  ASSUME WriterTypeOK, Flushed, NEW b \in Boards, NEW v \in Nat, NEW wv \in {<<>>, << 0 >>, <<v>>},
         HasTable(b), Extend(b, <<v>>, wv), opened' = TRUE, HasTraces(b) \/ wv = <<>>
  PROVE  /\ \A c \in Boards : c # b => Untouched(c)
         /\ IF v = 0 THEN Untouched(b) ELSE Added(b, v)
<1>1. <<v>> \in Seq(Nat) /\ wv \in Seq(Nat)
  BY ShortRows
<1>2. WriterTypeOK' /\ Grown(b, <<v>>, wv) /\ Unsynced /\ \A c \in Boards : c # b => Kept(c)
  BY <1>1, ExtendStep
<1> DEFINE line == [file |-> Len(files'), at |-> Len(files'[Len(files')].events[b]), row |-> v]
<1>3. /\ Lines(b)' = Lines(b) \union (IF v = 0 THEN {} ELSE {line})
      /\ SafeLines(b)' = SafeLines(b)
      /\ \A l \in Lines(b) : l.file < line.file \/ (l.file = line.file /\ l.at < line.at)
  BY <1>2, GrownLines
<1>4. line.row = v
  OBVIOUS
<1> HIDE DEF line
<1>5. IF v = 0 THEN Untouched(b) ELSE Added(b, v)
  BY <1>3, <1>4 DEF Untouched, Added
<1> QED
  BY <1>2, <1>5, KeptLines, KeptSafe DEF Untouched

LEMMA AppendLines ==
  ASSUME WriterTypeOK, Flushed, NEW b \in Boards, NEW row \in Nat \ {0},
         AppendRow(b, row) \/ OpenFails \/ ExtendFails(b, row) \/ KeyError(b)
  PROVE  /\ \A c \in Boards : c # b => Untouched(c)
         /\ Untouched(b) \/ Added(b, row)
<1>1. CASE OpenFails
  BY <1>1, OpenFailsStep, KeptLines, KeptSafe DEF Untouched
<1>2. CASE KeyError(b)
  BY <1>2, FlushStep, KeptLines, KeptSafe DEF KeyError, Untouched
<1>3. ASSUME NEW v \in {0, row}, NEW wv \in {<<>>, << 0 >>, <<v>>},
             HasTable(b), Extend(b, <<v>>, wv), opened' = TRUE, HasTraces(b) \/ wv = <<>>
      PROVE  (\A c \in Boards : c # b => Untouched(c)) /\ (Untouched(b) \/ Added(b, row))
  <2>1. v \in Nat
    OBVIOUS
  <2> QED
    BY <1>3, <2>1, ExtendLines
<1>4. CASE HasTable(b) /\ Extend(b, <<>>, <<>>) /\ opened' = TRUE
  <2>1. <<>> \in Seq(Nat)
    BY EmptySeq
  <2>2. Unsynced /\ Grown(b, <<>>, <<>>) /\ \A c \in Boards : c # b => Kept(c)
    BY <1>4, <2>1, ExtendStep
  <2> QED
    BY <2>2, GrownNothing, KeptLines, KeptSafe DEF Untouched
<1>5. AppendRow(b, row) \/ ExtendFails(b, row) =>
        /\ HasTable(b) /\ opened' = TRUE
        /\ \/ Extend(b, <<>>, <<>>)
           \/ \E v \in {0, row} : \E wv \in {<<>>, << 0 >>, <<v>>} :
                Extend(b, <<v>>, wv) /\ (HasTraces(b) \/ wv = <<>>)
  BY Zenon DEF ExtendFails, AppendRow
<1> QED
  BY <1>1, <1>2, <1>3, <1>4, <1>5

InHand == {b \in Boards : reader[b] \in {"write", "dead"}}

(* the actions of RowLog in these words *)
LEMMA LogStutters ==
  ASSUME \A b \in Boards : Untouched(b), InHand' = InHand
  PROVE  [Log!Next]_(Log!vars)
<1>1. /\ [b \in Boards |-> Lines(b)]' = [b \in Boards |-> Lines(b)]
      /\ [b \in Boards |-> SafeLines(b)]' = [b \in Boards |-> SafeLines(b)]
  BY DEF Untouched
<1> QED
  BY <1>1 DEF Log!vars, InHand

LEMMA LogBegins ==
  ASSUME \A b \in Boards : Untouched(b),
         NEW o \in Boards, o \notin InHand, InHand' = InHand \union {o}
  PROVE  [Log!Next]_(Log!vars)
<1>1. /\ [b \in Boards |-> Lines(b)]' = [b \in Boards |-> Lines(b)]
      /\ [b \in Boards |-> SafeLines(b)]' = [b \in Boards |-> SafeLines(b)]
  BY DEF Untouched
<1>2. Log!Begin(o)
  BY <1>1 DEF Log!Begin, InHand
<1> QED
  BY <1>2 DEF Log!Next

LEMMA LogGrows ==
  ASSUME WriterTypeOK, NEW o \in Boards, NEW row \in Nat \ {0}, Rows(o) = 1..(row - 1),
         Added(o, row), \A b \in Boards : b # o => Untouched(b),
         o \in InHand, InHand' = InHand
  PROVE  [Log!Next]_(Log!vars)
<1>1. PICK line \in Lines(o)' :
        /\ line.row = row /\ Lines(o)' = Lines(o) \union {line}
        /\ \A l \in Lines(o) : l.file < line.file \/ (l.file = line.file /\ l.at < line.at)
  BY DEF Added
<1> DEFINE log == [b \in Boards |-> Lines(b)]
<1>2. log' = [log EXCEPT ![o] = @ \union {line}]
  BY <1>1 DEF Untouched
<1>3. [b \in Boards |-> SafeLines(b)]' = [b \in Boards |-> SafeLines(b)]
  BY DEF Untouched, Added
<1>4. {l.row : l \in Lines(o)} = 1..(row - 1)
  BY LineRows
<1>5. \A l \in Lines(o) : Log!Before(l, line)
  BY <1>1 DEF Log!Before
<1>6. log'[o] = Lines(o)' /\ log[o] = Lines(o) /\ line.row > 0
  BY <1>1
<1>7. /\ line \in log'[o] /\ line.row > 0 /\ {l.row : l \in log[o]} = 1..(line.row - 1)
      /\ \A l \in log[o] : Log!Before(l, line)
      /\ log' = [log EXCEPT ![o] = @ \union {line}]
  BY <1>1, <1>2, <1>4, <1>5, <1>6
<1>8. UNCHANGED <<[b \in Boards |-> SafeLines(b)], InHand>> /\ o \in InHand
  BY <1>3
<1>9. Log!Write(o)
  BY <1>7, <1>8, Zenon DEF Log!Write, InHand
<1> QED
  BY <1>9 DEF Log!Next

LEMMA LogSyncs ==
  ASSUME \A b \in Boards : Lines(b)' = Lines(b) /\ SafeLines(b)' = Lines(b)',
         InHand' = InHand \/ \E o \in InHand : InHand' = InHand \ {o}
  PROVE  [Log!Next]_(Log!vars)
<1>1. /\ [b \in Boards |-> Lines(b)]' = [b \in Boards |-> Lines(b)]
      /\ [b \in Boards |-> SafeLines(b)]' = [b \in Boards |-> Lines(b)]
  OBVIOUS
<1>2. Log!Sync
  BY <1>1 DEF Log!Sync, InHand
<1> QED
  BY <1>2 DEF Log!Next

LEMMA StepMaps == ASSUME IInv, IInv', [Next]_vars PROVE [Log!Next]_(Log!vars)
<1>1. WriterTypeOK /\ WriterTypeOK' /\ Flushed /\ RestOK
  BY Rest, Files DEF IInv
<1>2. ASSUME UNCHANGED writer PROVE \A b \in Boards : Untouched(b)
  BY <1>1, <1>2, FlushStep, KeptLines, KeptSafe DEF Untouched
<1>3. ASSUME Flush \/ CloseFile
      PROVE  \A b \in Boards : Lines(b)' = Lines(b) /\ SafeLines(b)' = Lines(b)'
  BY <1>1, <1>3, FlushStep, KeptLines, AllSafe
<1>4. ASSUME NEW b \in Boards, TakeBank(b) PROVE [Log!Next]_(Log!vars)
  <2>1. UNCHANGED writer /\ reader[b] = "wait" /\ reader' = [reader EXCEPT ![b] = "write"]
    BY <1>4 DEF TakeBank
  <2>2. b \notin InHand /\ InHand' = InHand \union {b}
    BY <1>1, <2>1 DEF InHand, RestOK
  <2> QED
    BY <1>2, <2>1, <2>2, LogBegins
<1>5. ASSUME NEW b \in Boards, WriteRow(b) PROVE [Log!Next]_(Log!vars)
  <2> DEFINE row == events[b] + 1
  <2>1. /\ reader[b] = "write" /\ (UNCHANGED reader \/ Dies(b))
        /\ \/ AppendRow(b, row) \/ OpenFails
           \/ ExtendFails(b, row) \/ KeyError(b)
    BY <1>5 DEF WriteRow
  <2>2. row \in Nat \ {0} /\ Rows(b) = 1..(row - 1)
    <3>1. events[b] \in Nat /\ Rows(b) = 1..events[b]
      BY <1>1, <2>1, LivingRows DEF IInv, RestOK
    <3> QED
      BY <3>1
  <2> HIDE DEF row
  <2>3. /\ \A c \in Boards : c # b => Untouched(c)
        /\ Untouched(b) \/ Added(b, row)
    BY <1>1, <2>1, <2>2, AppendLines
  <2>4. b \in InHand /\ InHand' = InHand
    BY <1>1, <2>1 DEF InHand, RestOK, Dies
  <2>5. CASE Untouched(b)
    BY <2>3, <2>4, <2>5, LogStutters
  <2>6. CASE Added(b, row)
    BY <1>1, <2>2, <2>3, <2>4, <2>6, LogGrows
  <2> QED
    BY <2>3, <2>5, <2>6
<1>6. ASSUME NEW b \in Boards, EndBank(b) PROVE [Log!Next]_(Log!vars)
  <2>1. /\ reader[b] = "write"
        /\ \/ Flush /\ reader' = [reader EXCEPT ![b] = IF final[b] THEN "off" ELSE "wait"]
           \/ Dies(b) /\ UNCHANGED writer
    BY <1>6 DEF EndBank
  <2>2. CASE Flush /\ reader' = [reader EXCEPT ![b] = IF final[b] THEN "off" ELSE "wait"]
    <3>1. b \in InHand /\ InHand' = InHand \ {b}
      BY <1>1, <2>1, <2>2 DEF InHand, RestOK
    <3> QED
      BY <1>3, <2>2, <3>1, LogSyncs
  <2>3. CASE Dies(b) /\ UNCHANGED writer
    <3>1. InHand' = InHand
      BY <1>1, <2>1, <2>3 DEF InHand, RestOK, Dies
    <3> QED
      BY <1>2, <2>3, <3>1, LogStutters
  <2> QED
    BY <2>1, <2>2, <2>3
<1>12. ASSUME NEW b \in Boards, ReaderDies(b) PROVE [Log!Next]_(Log!vars)
  <2>1. UNCHANGED writer /\ reader[b] = "wait" /\ reader' = [reader EXCEPT ![b] = "dead"]
    BY <1>12 DEF ReaderDies, Dies
  <2>2. b \notin InHand /\ InHand' = InHand \union {b}
    BY <1>1, <2>1 DEF InHand, RestOK
  <2> QED
    BY <1>2, <2>1, <2>2, LogBegins
<1>13. ASSUME NEW b \in Boards, ReaderGivesUp(b) PROVE [Log!Next]_(Log!vars)
  <2>1. UNCHANGED writer /\ reader[b] = "wait" /\ reader' = [reader EXCEPT ![b] = "off"]
    BY <1>13 DEF ReaderGivesUp
  <2>2. InHand' = InHand
    BY <1>1, <2>1 DEF InHand, RestOK
  <2> QED
    BY <1>2, <2>1, <2>2, LogStutters
<1>7. ASSUME UNCHANGED writer, UNCHANGED reader PROVE [Log!Next]_(Log!vars)
  <2>1. InHand' = InHand
    BY <1>7 DEF InHand
  <2> QED
    BY <1>2, <1>7, <2>1, LogStutters
<1>8. CASE Close
  <2>1. UNCHANGED reader /\ (CloseFile \/ UNCHANGED writer)
    BY <1>8 DEF Close, Quiet, readers
  <2>2. InHand' = InHand
    BY <2>1 DEF InHand
  <2>3. CASE CloseFile
    BY <1>3, <2>2, <2>3, LogSyncs
  <2> QED
    BY <1>7, <2>1, <2>3
<1>9. CASE Attach
  <2>1. UNCHANGED <<opened, reader>> /\ stop = "attach"
    BY <1>9 DEF Attach, Quiet, readers
  <2>2. next \in Boards
    <3>1. next \in 1..(NBoards + 1) /\ next <= NBoards /\ NBoards \in Nat
      BY <1>1, <2>1, RunWriterAssumption DEF IInv, StopInv, RestOK
    <3> QED
      BY <3>1 DEF Boards
  <2>3. PICK n \in Nat : AddSummary(next, n)
    <3>1. Len(files) \in Nat /\ \A n \in 0..(Len(files) - 1) : n \in Nat
      BY <1>1, FilesType
    <3> QED
      BY <1>9, <3>1 DEF Attach
  <2>4. Unsynced /\ \A c \in Boards : Kept(c)
    BY <1>1, <2>1, <2>2, <2>3, SummaryStep
  <2>5. InHand' = InHand
    BY <2>1 DEF InHand
  <2> QED
    BY <2>4, <2>5, KeptLines, KeptSafe, LogStutters DEF Untouched
<1>10. CASE \/ StopRequest \/ JoinReaders \/ JoinStats \/ FinalCheck \/ FinalRow \/ CheckCsv
           \/ CloseCsv \/ Summarize \/ Stats
  <2>1. UNCHANGED writer /\ UNCHANGED reader
    BY <1>10 DEF StopRequest, JoinReaders, JoinStats, FinalCheck, FinalRow, CheckCsv, CloseCsv,
       Summarize, Stats, StatsWakes, StatsRow, Join, Quiet, readers
  <2> QED
    BY <1>7, <2>1
<1>11. CASE UNCHANGED vars
  BY <1>7, <1>11 DEF vars, readers
<1> QED
  BY <1>4, <1>5, <1>6, <1>8, <1>9, <1>10, <1>11, <1>12, <1>13 DEF Next, Stop, Reader

(* The rows of a board are a log that only grows, in the order of the       *)
(* readout, and a crash takes at most those of the bank being written       *)
(* (writer.py:29-30): through rotations, failed writes and late readers.    *)
THEOREM ImplementsLog == Spec => FilesAreALog
<1>1. ASSUME Init PROVE Log!Init
  <2>1. DOMAIN files = {}
    BY <1>1 DEF Init
  <2>2. \A b \in Boards : Lines(b) = {} /\ SafeLines(b) = {}
    BY <2>1, LineMember DEF SafeLines
  <2>3. \A b \in Boards : reader[b] \notin {"write", "dead"}
    BY <1>1 DEF Init
  <2> QED
    BY <2>2, <2>3 DEF Log!Init
<1> QED
  BY <1>1, Invariance, StepMaps, PTL DEF Spec, FilesAreALog, Log!Spec
=============================================================================
