------------------------------ MODULE RunOutput -----------------------------
(***************************************************************************)
(* What a run leaves on the disk: the readers, one per board, that count   *)
(* and write the banks they have read; the statistics thread, which adds   *)
(* scaler rows; and stop(), which waits for both, closes the files and     *)
(* stores the last scaler row, the run summary and its copies in the       *)
(* files. Disk operations may fail, and stop() may give up waiting.        *)
(***************************************************************************)
EXTENDS Integers, FiniteSets, RunWriter

CONSTANTS
  MaxRows,       \* bound: rows the boards give in the run
  MaxFaults,     \* bound: operations that fail, readers waited for too long
  IntegrityAbs,  \* scalers.INTEGRITY_ABS
  Checked,       \* boards with internal triggers only: their hit counter sees every event
  Timeouts       \* may the joins of stop() time out?

ASSUME RunOutputAssumption ==
  /\ MaxRows \in Nat /\ MaxFaults \in Nat /\ IntegrityAbs \in Nat
  /\ Checked \subseteq Boards /\ Timeouts \in BOOLEAN

VARIABLES
  running,   \* DAQ._running
  reader,    \* per board: "wait", "write", "off" or "dead"
  final,     \* per board: this bank is the last one
  bank,      \* per board: rows of the bank in hand
  left,      \* per board: those not written yet
  counted,   \* per board: are the hits of this bank known?
  hits,      \* per board: stat_totals, the hit counter
  events,    \* per board: b.events
  compared,  \* per board: events_counted
  stats,     \* the statistics thread: "sleep", "row", "off" or "dead"
  stop,      \* the thread in stop(): what it does next
  next,      \* the board whose summary it stores next
  csv,       \* self._scaler_csv is not None
  last_row,  \* per board: hit and event count of the last scaler row
  summary,   \* run_summary: per board hits, events and compared events
  \* history
  given,     \* rows in all banks
  faults,
  lost_disk, \* an operation on the run files failed
  lost_csv,  \* an operation on the scaler file failed
  overrun    \* stop() did not wait for a thread

bookkeeping == <<hits, events, compared>>
readers == <<reader, final, bank, left, counted>>
stopping == <<stop, next, summary>>
scalers == <<csv, last_row, lost_csv>>
vars == <<writer, running, readers, bookkeeping, stats, stopping, scalers, given, faults,
          lost_disk, overrun>>

NoSummary == <<>>

Fault == faults < MaxFaults /\ faults' = faults + 1
DiskFault == Fault /\ lost_disk' = TRUE
Fine == UNCHANGED <<faults, lost_disk>>

-----------------------------------------------------------------------------
(* The readers: the part of _cycle after the bank has been read *)

(* hits of a counted bank are added before it is decoded; external triggers  *)
(* are no hits to the board's counter                                       *)
TakeBank(b) ==
  /\ reader[b] = "wait"
  /\ \E n \in 0..(MaxRows - given), known \in BOOLEAN :
       /\ n > 0 \/ known
       /\ bank' = [bank EXCEPT ![b] = n]
       /\ left' = [left EXCEPT ![b] = n]
       /\ given' = given + n
       /\ counted' = [counted EXCEPT ![b] = known]
       /\ \E seen \in IF b \in Checked THEN {n} ELSE 0..n :
            hits' = IF known THEN [hits EXCEPT ![b] = @ + seen] ELSE hits
  /\ final' = [final EXCEPT ![b] = ~running]
  /\ reader' = [reader EXCEPT ![b] = "write"]
  /\ UNCHANGED <<writer, running, events, compared, stats, stopping, scalers, overrun>> /\ Fine

(* mutant: an error of the writer costs the row and not the reader *)
GoesOn(b) == reader' = reader

(* the readers catch Sis3316Error only *)
Dies(b) == reader' = [reader EXCEPT ![b] = "dead"]

(* the events of one channel: counted, then appended *)
WriteRow(b) ==
  /\ reader[b] = "write" /\ left[b] > 0
  /\ left' = [left EXCEPT ![b] = @ - 1]
  /\ events' = [events EXCEPT ![b] = @ + 1]
  /\ LET row == events[b] + 1 IN
       \/ AppendRow(b, row) /\ Fine /\ UNCHANGED reader
       \/ (OpenFails \/ ExtendFails(b, row)) /\ DiskFault /\ Dies(b)
       \/ KeyError(b) /\ Fine /\ Dies(b)
  /\ UNCHANGED <<running, final, bank, counted, hits, compared, stats, stopping, scalers,
                 given, overrun>>

(* the whole bank is written: the events compared, and the flush *)
EndBank(b) ==
  /\ reader[b] = "write" /\ left[b] = 0
  /\ compared' = IF counted[b] THEN [compared EXCEPT ![b] = @ + bank[b]] ELSE compared
  /\ \/ /\ Flush /\ Fine
        /\ reader' = [reader EXCEPT ![b] = IF final[b] THEN "off" ELSE "wait"]
        /\ bank' = [bank EXCEPT ![b] = 0] /\ counted' = [counted EXCEPT ![b] = TRUE]
     \/ opened /\ DiskFault /\ Dies(b) /\ UNCHANGED <<writer, bank, counted>>
  /\ UNCHANGED <<running, final, left, hits, events, stats, stopping, scalers, given,
                 overrun>>

(* an exception that is no Sis3316Error, while the board is read *)
ReaderDies(b) ==
  /\ reader[b] = "wait" /\ Fault /\ Dies(b)
  /\ UNCHANGED <<writer, running, final, bank, left, counted, bookkeeping, stats, stopping,
                 scalers, given, lost_disk, overrun>>

(* the run ends with the board failed, or its last cycle fails *)
ReaderGivesUp(b) ==
  /\ reader[b] = "wait" /\ ~running
  /\ reader' = [reader EXCEPT ![b] = "off"]
  /\ UNCHANGED <<writer, running, final, bank, left, counted, bookkeeping, stats, stopping,
                 scalers, given, overrun>> /\ Fine

Reader(b) ==
  TakeBank(b) \/ WriteRow(b) \/ EndBank(b) \/ ReaderDies(b) \/ ReaderGivesUp(b)

-----------------------------------------------------------------------------
(* Scaler rows, written by the statistics thread and by stop() *)

RowOf(b) == <<hits[b], events[b]>>

(* a row per board, in order, up to the one whose write fails *)
WriteScalers ==
  \/ /\ last_row' = [b \in Boards |-> RowOf(b)]
     /\ UNCHANGED <<csv, lost_csv, faults>>
  \/ /\ Fault
     /\ \E n \in 0..(NBoards - 1) :
          last_row' = [b \in Boards |-> IF b <= n THEN RowOf(b) ELSE last_row[b]]
     /\ csv' = FALSE /\ lost_csv' = TRUE

(* the end of the sleep: the loop checks _running again before it writes,   *)
(* and _write_scalers checks that there is a file                           *)
StatsWakes ==
  /\ stats = "sleep"
  /\ stats' = IF ~running THEN "off" ELSE IF csv THEN "row" ELSE "sleep"
  /\ UNCHANGED <<writer, running, readers, bookkeeping, stopping, scalers, given, faults,
                 lost_disk, overrun>>

StatsRow ==
  /\ stats = "row"
  /\ IF csv THEN WriteScalers /\ stats' = "sleep"
            ELSE stats' = "dead" /\ UNCHANGED <<scalers, faults>>
  /\ UNCHANGED <<writer, running, readers, bookkeeping, stopping, given, lost_disk, overrun>>

Stats == StatsWakes \/ StatsRow

-----------------------------------------------------------------------------
(* stop() *)

Goto(l) == stop' = l /\ UNCHANGED <<next, summary>>

Quiet == UNCHANGED <<readers, bookkeeping, stats, given>>

StopRequest ==
  /\ stop = "idle"
  /\ running' = FALSE /\ Goto("readers")
  /\ Quiet /\ Fine /\ UNCHANGED <<writer, scalers, overrun>>

(* join: what is waited for has ended, or the timeout passes *)
Join(l) == Goto(l) /\ Quiet /\ UNCHANGED <<writer, running, scalers>>

JoinReaders ==
  /\ stop = "readers"
  /\ \/ /\ \A b \in Boards : reader[b] \in {"off", "dead"}
        /\ Fine /\ UNCHANGED overrun
     \/ /\ \E b \in Boards : reader[b] \in {"wait", "write"}
        /\ Timeouts /\ Fault /\ overrun' = TRUE /\ UNCHANGED lost_disk
  /\ Join("stats")

JoinStats ==
  /\ stop = "stats"
  /\ \/ stats \in {"off", "dead"} /\ UNCHANGED overrun
     \/ stats \in {"sleep", "row"} /\ Timeouts /\ overrun' = TRUE
  /\ Join("close") /\ Fine

(* writer.close; an exception leaves stop() *)
Close ==
  /\ stop = "close"
  /\ \/ CloseFile /\ Fine /\ Goto("row")
     \/ opened /\ UNCHANGED writer /\ DiskFault /\ Goto("close raised")
  /\ Quiet /\ UNCHANGED <<running, scalers, overrun>>

(* mutants: the row is written without a look at the file; it is not written *)
NoCheck ==
  /\ stop = "row" /\ Goto("write row")
  /\ Quiet /\ Fine /\ UNCHANGED <<writer, running, scalers, overrun>>

NoLastRow ==
  /\ stop = "row" /\ Goto("check csv")
  /\ Quiet /\ Fine /\ UNCHANGED <<writer, running, scalers, overrun>>

(* _finish_scalers, from its call of _write_scalers.  What is None stays    *)
(* None; a statistics thread that was not waited for may make it so between *)
(* any look and its use: AttributeError                                     *)
FinalCheck ==
  /\ stop = "row"
  /\ Goto(IF csv THEN "write row" ELSE "summary")
  /\ Quiet /\ Fine /\ UNCHANGED <<writer, running, scalers, overrun>>

FinalRow ==
  /\ stop = "write row"
  /\ IF csv THEN WriteScalers /\ Goto("check csv")
            ELSE Goto("row raised") /\ UNCHANGED <<scalers, faults>>
  /\ Quiet /\ UNCHANGED <<writer, running, lost_disk, overrun>>

CheckCsv ==
  /\ stop = "check csv"
  /\ Goto(IF csv THEN "close csv" ELSE "summary")
  /\ Quiet /\ Fine /\ UNCHANGED <<writer, running, scalers, overrun>>

CloseCsv ==
  /\ stop = "close csv"
  /\ Goto(IF csv THEN "summary" ELSE "row raised") /\ csv' = FALSE
  /\ Quiet /\ Fine /\ UNCHANGED <<writer, running, last_row, lost_csv, overrun>>

(* mutant: all events are compared with the hits *)
AllEvents(b) == events[b]

ComparedEvents(b) == compared[b]

(* board_summary; the failure of write_summary is logged and changes nothing *)
Summarize ==
  /\ stop = "summary"
  /\ summary' = [b \in Boards |->
                   [hits |-> hits[b], events |-> events[b], compared |-> ComparedEvents(b)]]
  /\ stop' = "attach" /\ next' = 1
  /\ Quiet /\ Fine /\ UNCHANGED <<writer, running, scalers, overrun>>

(* add_run_summary for one board; its failure is logged, and the next       *)
(* board is tried                                                           *)
Attach ==
  /\ stop = "attach"
  /\ \/ AddSummary(next, Len(files)) /\ Fine
     \/ DiskFault /\ \E n \in 0..(Len(files) - 1) : AddSummary(next, n)
  /\ next' = next + 1
  /\ stop' = IF next = NBoards THEN "done" ELSE "attach"
  /\ Quiet /\ UNCHANGED <<opened, running, scalers, summary, overrun>>

Stop == \/ StopRequest \/ JoinReaders \/ JoinStats \/ Close
        \/ FinalCheck \/ FinalRow \/ CheckCsv \/ CloseCsv
        \/ Summarize \/ Attach

-----------------------------------------------------------------------------
(* the state start() leaves; the scaler file may have failed to open *)
Init ==
  /\ files = <<>> /\ opened = FALSE /\ running = TRUE
  /\ reader = [b \in Boards |-> "wait"] /\ final = [b \in Boards |-> FALSE]
  /\ bank = [b \in Boards |-> 0] /\ left = bank
  /\ counted = [b \in Boards |-> TRUE]
  /\ hits = bank /\ events = bank /\ compared = bank
  /\ stats = "sleep" /\ stop = "idle" /\ next = 1 /\ summary = NoSummary
  /\ csv \in BOOLEAN /\ lost_csv = ~csv /\ last_row = [b \in Boards |-> <<0, 0>>]
  /\ faults = (IF csv THEN 0 ELSE 1) /\ faults <= MaxFaults /\ lost_disk = FALSE /\ overrun = FALSE
  /\ given = 0

Next == Stop \/ Stats \/ \E b \in Boards : Reader(b)

Spec == Init /\ [][Next]_vars

(* every thread is scheduled, and once asked to stop, stop() is *)
FairSpec ==
  /\ Spec
  /\ WF_vars(Stop /\ stop # "idle") /\ WF_vars(Stats)
  /\ \A b \in Boards : WF_vars(Reader(b))

-----------------------------------------------------------------------------
Totals == [hits : Nat, events : Nat, compared : Nat]

TypeOK ==
  /\ WriterTypeOK
  /\ running \in BOOLEAN /\ stats \in {"sleep", "row", "off", "dead"}
  /\ reader \in [Boards -> {"wait", "write", "off", "dead"}]
  /\ final \in [Boards -> BOOLEAN] /\ counted \in [Boards -> BOOLEAN]
  /\ bank \in [Boards -> Nat] /\ left \in [Boards -> Nat]
  /\ hits \in [Boards -> Nat] /\ events \in [Boards -> Nat] /\ compared \in [Boards -> Nat]
  /\ stop \in {"idle", "readers", "stats", "close", "row", "write row", "check csv",
               "close csv", "summary", "attach", "done", "close raised", "row raised"}
  /\ stop \in {"attach", "done"} => summary \in [Boards -> Totals]
  /\ next \in 1..(NBoards + 1) /\ csv \in BOOLEAN /\ last_row \in [Boards -> Nat \X Nat]
  /\ given \in 0..MaxRows /\ faults \in 0..MaxFaults
  /\ lost_disk \in BOOLEAN /\ lost_csv \in BOOLEAN /\ overrun \in BOOLEAN

(* The rows of a board over the run's files are a log in readout order, and *)
(* a crash takes at most the bank being written (writer.py:29-30): through  *)
(* rotations, failed writes and readers that go on after the stop.  A       *)
(* reader that died never ends its bank.                                    *)
Log == INSTANCE RowLog WITH
  Owners <- Boards,
  log <- [b \in Boards |-> Lines(b)],
  safe <- [b \in Boards |-> SafeLines(b)],
  busy <- {b \in Boards : reader[b] \in {"write", "dead"}}

FilesAreALog == Log!Spec

(* Waveform rows stay aligned with event rows (writer.py:13), also in a     *)
(* file where the events were extended and the waveforms were not, or that  *)
(* has no waveforms of the board.                                           *)
WavesAligned ==
  \A i \in DOMAIN files, b \in Boards :
    LET ev == files[i].events[b]  wv == files[i].waves[b] IN
      /\ Len(wv) <= Len(ev)
      /\ \A k \in DOMAIN wv : wv[k] \in {0, ev[k]}

(* After a stop without failed disk operations and without an overrun, the  *)
(* files, the summary and the scaler file say the same of every board; a    *)
(* failure of the scaler file alone does not touch the other two.           *)
BooksAgree ==
  stop = "done" /\ ~lost_disk /\ ~overrun =>
    \A b \in Boards :
      /\ Rows(b) = 1..summary[b].events /\ InOrder(b)
      /\ ~lost_csv => last_row[b] = <<summary[b].hits, summary[b].events>>

(* Then every file of the run also has the totals of every board that has   *)
(* rows in it, and all rows are flushed.                                    *)
SummaryEverywhere ==
  stop = "done" /\ ~lost_disk /\ ~overrun =>
    \A i \in DOMAIN files, b \in Boards :
      /\ b \in files[i].summary
      /\ files[i].safe[b] = Len(files[i].events[b])

(* check_integrity, on the channels that are checked *)
Mismatch(b) == LET diff == summary[b].compared - summary[b].hits IN
                 diff > IntegrityAbs \/ -diff > IntegrityAbs

Taken(b) == events[b] + left[b]

(* Rows of a counted bank that a failed write kept from the files show in   *)
(* the integrity check when they are more than its tolerance, on channels   *)
(* that are checked (not those with external triggers).                     *)
LostRowsFlagged ==
  stop = "done" /\ ~overrun =>
    \A b \in Checked :
      counted[b] /\ Taken(b) - Cardinality(Rows(b)) > IntegrityAbs => Mismatch(b)

(* A board's events and waveforms are of one length while its reader lives, *)
(* in each file that has its waveforms; those of the other files are gone.  *)
AlignedInv ==
  /\ WavesAligned
  /\ \A i \in DOMAIN files, b \in Boards :
       reader[b] # "dead" /\ b \in files[i].traces =>
         Len(files[i].waves[b]) = Len(files[i].events[b])

(* Only the row at which its reader died may be missing from the rows that  *)
(* a board has counted.                                                     *)
RowsInv ==
  \A b \in Boards :
    /\ InOrder(b) /\ Rows(b) \subseteq 1..events[b]
    /\ 1..(events[b] - 1) \subseteq Rows(b)
    /\ reader[b] # "dead" => 1..events[b] \subseteq Rows(b)

(* Where every event is a hit, the hits and the compared events differ by   *)
(* the bank in hand, if it is counted; a reader that dies leaves a          *)
(* difference unless it has written the whole bank or has none.             *)
Open(b) == hits[b] = compared[b] + (IF counted[b] THEN bank[b] ELSE 0)

LedgerInv ==
  \A b \in Boards :
    /\ left[b] <= bank[b] /\ compared[b] <= events[b]
    /\ reader[b] \in {"wait", "off"} => bank[b] = 0
    /\ reader[b] = "write" => compared[b] + bank[b] - left[b] <= events[b]
    /\ reader[b] = "dead" =>
         \/ left[b] = 0 /\ 1..events[b] \subseteq Rows(b)
         \/ left[b] < bank[b] /\ (b \in Checked => Open(b))
    /\ b \in Checked =>
         /\ reader[b] \in {"wait", "off"} => hits[b] = compared[b]
         /\ reader[b] = "write" => Open(b)

(* All rows of a file that is not in use are flushed; and as long as no     *)
(* operation on the files failed, every file is whole and a reader that has *)
(* died has lost no row of the banks it took.                               *)
FilesInv ==
  /\ \A i \in DOMAIN files, b \in Boards :
       i < Len(files) \/ ~opened => files[i].safe[b] = Len(files[i].events[b])
  /\ ~lost_disk =>
       /\ \A b \in Boards : reader[b] = "dead" => 1..events[b] \subseteq Rows(b)
       /\ \A i \in DOMAIN files : files[i].groups = Boards /\ files[i].tables = Boards

(* What stop() finds at each of its steps, if no join has timed out: nobody *)
(* else writes any more, and what it stores stays true.                     *)
StopInv ==
  /\ stop \in {"idle", "readers", "stats", "close", "row", "write row", "check csv"}
       /\ ~lost_csv => csv
  /\ stop \in {"write row", "close csv"} /\ ~overrun => csv
  /\ stop = "attach" => next <= NBoards
  /\ stop \notin {"idle", "readers"} /\ ~overrun =>
       \A b \in Boards : reader[b] \in {"off", "dead"}
  /\ stop \notin {"idle", "readers", "stats"} /\ ~overrun => stats \in {"off", "dead"}
  /\ stop \in {"row", "write row", "check csv", "close csv", "summary", "attach", "done"}
       /\ ~overrun => ~opened
  /\ stop = "row raised" => overrun
  /\ stop \in {"check csv", "close csv", "summary", "attach", "done"}
       /\ ~overrun /\ ~lost_csv =>
       \A b \in Boards : last_row[b] = RowOf(b)
  /\ stop \in {"attach", "done"} /\ ~overrun =>
       \A b \in Boards :
         summary[b] = [hits |-> hits[b], events |-> events[b], compared |-> compared[b]]
  /\ stop \in {"attach", "done"} /\ ~overrun /\ ~lost_disk =>
       \A i \in DOMAIN files, b \in Boards :
         b < next \/ stop = "done" => b \in files[i].summary

(* With these it is inductive; RunOutputProofs proves it. *)
IInv == TypeOK /\ AlignedInv /\ RowsInv /\ LedgerInv /\ FilesInv /\ StopInv

(* A stop comes to its end with a summary, unless an exception leaves it at *)
(* the close of the files, or at the last scaler row when a join timed out. *)
(* A reader that died or gave up, an append or a flush that failed and a    *)
(* lost scaler file do not hold it up.                                      *)
StopEnds ==
  stop # "idle" ~> \/ stop \in {"done", "close raised"}
                   \/ stop = "row raised" /\ overrun
=============================================================================
