------------------------------ MODULE RunWriter -----------------------------
(***************************************************************************)
(* Hdf5RunWriter: the files of one run and what its operations do to them, *)
(* as operators that the callers' actions are made of. Each operation runs *)
(* under the writer's lock and is one step; the ones that can raise have a *)
(* second operator for what they leave behind when they do.                *)
(*                                                                         *)
(* A row is told by its number among the rows its board has written; 0 is  *)
(* the filler of a dataset that grew before its data could be stored. The  *)
(* boards record waveforms; "waves" stands for either of the datasets      *)
(* "waveforms" and "maw", which are made and extended alike.               *)
(***************************************************************************)
EXTENDS Naturals, Sequences, SequencesExt

CONSTANTS
  NBoards,    \* number of boards
  FileRows    \* rows at which a file is as long as max_file_bytes; 0: no limit

ASSUME RunWriterAssumption == NBoards \in Nat \ {0} /\ FileRows \in Nat

VARIABLES
  files,      \* paths, each with what its file holds
  opened      \* self._file is not None: the last file is open

writer == <<files, opened>>

Boards == 1..NBoards

(* a file with the groups of the first boards, some with their datasets *)
NewFile(g, t, w) ==
  [made |-> TRUE,
   groups |-> 1..g, tables |-> 1..t, traces |-> 1..w,  \* have a group, "events", "waveforms"
   events |-> [b \in Boards |-> <<>>], waves |-> [b \in Boards |-> <<>>],
   safe |-> [b \in Boards |-> 0],      \* rows of "events" that are flushed
   summary |-> {}]                     \* boards whose totals are stored

WholeFile == NewFile(NBoards, NBoards, NBoards)

(* a path noted by _open whose file could not be created *)
NoFile == [NewFile(0, 0, 0) EXCEPT !.made = FALSE]

(* mutant: an earlier file may be overwritten *)
Overwritten == IF files # <<>> THEN Front(files) ELSE files

(* _path: the path that got no file is still free and is taken again *)
Paths == IF files # <<>> /\ ~Last(files).made THEN Front(files) ELSE files

(* the files as append finds them once _open has succeeded *)
Ready == IF opened THEN files ELSE Append(Paths, WholeFile)

(* mutant: no KeyError *)
AnyTable(b) == TRUE

HasTable(b) == b \in Last(Ready).tables

HasTraces(b) == b \in Last(Ready).traces

-----------------------------------------------------------------------------
(* append *)

Longer(rows, b, new) == [rows EXCEPT ![b] = @ \o new]

Extend(b, ev, wv) ==
  LET f == Last(Ready)
      g == [f EXCEPT !.events = Longer(f.events, b, ev), !.waves = Longer(f.waves, b, wv)]
  IN files' = [Ready EXCEPT ![Len(Ready)] = g]

(* without the dataset, the waveforms are passed over *)
AppendRow(b, row) ==
  /\ HasTable(b)
  /\ Extend(b, <<row>>, IF HasTraces(b) THEN <<row>> ELSE <<>>)
  /\ opened' = TRUE

(* _open: the path is noted, but there is no file; or there is one and an   *)
(* attribute failed; or the boards' groups are made one after the other,    *)
(* "events" before "waveforms", up to the step that failed: the file is     *)
(* then in use                                                              *)
OpenFails ==
  /\ ~opened
  /\ \/ files' = Append(Paths, NoFile) /\ UNCHANGED opened
     \/ files' = Append(Paths, NewFile(0, 0, 0)) /\ UNCHANGED opened
     \/ /\ \E g, t, w \in 0..NBoards :
             /\ w <= t /\ t <= g /\ g <= w + 1
             /\ files' = Append(Paths, NewFile(g, t, w))
        /\ opened' = TRUE

(* the events, or the waveforms after them, cannot be extended or stored *)
ExtendFails(b, row) ==
  /\ HasTable(b)
  /\ \/ \E ev \in {<<>>, <<0>>} : Extend(b, ev, <<>>)
     \/ HasTraces(b) /\ \E wv \in {<<>>, <<0>>} : Extend(b, <<row>>, wv)
  /\ opened' = TRUE

(* the file in use has no "events" for this board *)
KeyError(b) == ~HasTable(b) /\ UNCHANGED writer

-----------------------------------------------------------------------------
(* flush, close, add_run_summary *)

Size(f) == Len(FlattenSeq([b \in Boards |-> f.events[b]]))

Synced == [files EXCEPT ![Len(files)].safe = [b \in Boards |-> Len(Last(files).events[b])]]

Flush ==
  IF opened
    THEN /\ files' = Synced
         /\ opened' = ~(FileRows > 0 /\ Size(Last(files)) >= FileRows)
    ELSE UNCHANGED writer

CloseFile == IF opened THEN files' = Synced /\ opened' = FALSE ELSE UNCHANGED writer

(* mutant: the run's last file only *)
LastOnly(b, n) ==
  files' = [i \in DOMAIN files |->
              IF i < Len(files) \/ b \notin files[i].groups THEN files[i]
              ELSE [files[i] EXCEPT !.summary = @ \union {b}]]

(* the first n files get the totals of board b; h5py.File(path, "a") makes  *)
(* the file that is missing                                                 *)
AddSummary(b, n) ==
  files' = [i \in DOMAIN files |->
              IF i > n THEN files[i]
              ELSE IF b \in files[i].groups THEN [files[i] EXCEPT !.summary = @ \union {b}]
              ELSE [files[i] EXCEPT !.made = TRUE]]

-----------------------------------------------------------------------------
File == [made : BOOLEAN,
         groups : SUBSET Boards, tables : SUBSET Boards, traces : SUBSET Boards,
         events : [Boards -> Seq(Nat)], waves : [Boards -> Seq(Nat)],
         safe : [Boards -> Nat], summary : SUBSET Boards]

FileOK(f) ==
  /\ f.traces \subseteq f.tables /\ f.tables \subseteq f.groups
  /\ f.summary \subseteq f.groups
  /\ ~f.made => f.groups = {}
  /\ \A b \in Boards :
       /\ f.safe[b] <= Len(f.events[b])
       /\ b \notin f.tables => f.events[b] = <<>>
       /\ b \notin f.traces => f.waves[b] = <<>>

WriterTypeOK ==
  /\ files \in Seq(File) /\ \A i \in DOMAIN files : FileOK(files[i])
  /\ opened \in BOOLEAN /\ (opened => files # <<>> /\ Last(files).made)

(* the numbers of the rows of a board that are in the run's files *)
Rows(b) == (UNION {Range(files[i].events[b]) : i \in DOMAIN files}) \ {0}

(* over the files, and within each, the numbers increase: no row is there   *)
(* twice                                                                    *)
InOrder(b) ==
  \A i, j \in DOMAIN files :
    \A k \in DOMAIN files[i].events[b], l \in DOMAIN files[j].events[b] :
      LET r == files[i].events[b][k]  s == files[j].events[b][l] IN
        (i < j \/ (i = j /\ k < l)) /\ r > 0 /\ s > 0 => r < s

(* the rows of a board and where they are in the files of the run; those    *)
(* that are flushed                                                         *)
Lines(b) ==
  UNION {{[file |-> i, at |-> k, row |-> files[i].events[b][k]] :
            k \in {k \in DOMAIN files[i].events[b] : files[i].events[b][k] > 0}} :
         i \in DOMAIN files}

SafeLines(b) == {l \in Lines(b) : l.at <= files[l.file].safe[b]}
=============================================================================
