----------------------------- MODULE RunControl -----------------------------
(***************************************************************************)
(* DAQ.start and stop over all boards: the threads they create and join,   *)
(* and the run file that the readers share.  A reader is named by          *)
(* its board and the run that created it, since one that outlives its      *)
(* join(timeout=10) is still there in the next run.                        *)
(*                                                                         *)
(* One thread calls start and stop.  What a reader does with its           *)
(* board is BankReadout; here it reads a bank and writes it.               *)
(***************************************************************************)
EXTENDS Integers

CONSTANTS
  NBoards,    \* DAQ.boards
  MaxRuns,    \* bound: calls of start()
  MaxFaults,  \* bound: boards that do not start, readers that die
  Timeouts    \* may a join run into its timeout?

ASSUME RunControlAssumption ==
  NBoards \in Nat /\ MaxRuns \in Nat /\ MaxFaults \in Nat /\ Timeouts \in BOOLEAN

VARIABLES
  running,    \* DAQ._running
  control,    \* where the calling thread stands in start() or stop()
  next,       \* the board its loop comes to
  run,        \* start() calls so far: the run, and the writer of DAQ.writer
  thread,     \* _Board.thread: the run of the thread, 0 for None
  reader,     \* state of the reader of a board and a run
  stats,      \* state of the stats thread of a run
  file,       \* the run file of a run: "none" before the first append
  faults,
  overran,    \* a join ran into its timeout
  strays      \* runs whose reader wrote into another run's file

threads == <<reader, stats>>
files == <<file, strays>>
vars == <<running, control, next, run, thread, threads, files, faults, overran>>

Boards == 1..NBoards
Runs == 1..MaxRuns

Alive == {"wait", "decode", "last", "failed"}

Live(b) == {r \in Runs : reader[b][r] \in Alive}

-----------------------------------------------------------------------------
(* start *)

(* for b in self.boards *)
Looping == next <= NBoards

Start ==
  /\ control = "idle" /\ ~running /\ run < MaxRuns
  /\ run' = run + 1
  /\ control' = "boards" /\ next' = 1
  /\ UNCHANGED <<running, thread, threads, files, faults, overran>>

StartBoard ==
  /\ control = "boards" /\ Looping
  /\ next' = next + 1
  /\ UNCHANGED <<running, control, run, thread, threads, files, faults, overran>>

(* the exception of _start_board leaves start() *)
StartBoardFails ==
  /\ control = "boards" /\ Looping /\ faults < MaxFaults
  /\ faults' = faults + 1
  /\ control' = "idle"
  /\ UNCHANGED <<running, next, run, thread, threads, files, overran>>

SetRunning ==
  /\ control = "boards" /\ ~Looping
  /\ running' = TRUE
  /\ control' = "readers" /\ next' = 1
  /\ UNCHANGED <<run, thread, threads, files, faults, overran>>

StartReader ==
  /\ control = "readers" /\ Looping
  /\ thread' = [thread EXCEPT ![next] = run]
  /\ reader' = [reader EXCEPT ![next][run] = "wait"]
  /\ next' = next + 1
  /\ UNCHANGED <<running, control, run, stats, files, faults, overran>>

StartStats ==
  /\ control = "readers" /\ ~Looping
  /\ stats' = [stats EXCEPT ![run] = "on"]
  /\ control' = "idle"
  /\ UNCHANGED <<running, next, run, thread, reader, files, faults, overran>>

-----------------------------------------------------------------------------
(* stop *)

Stop ==
  /\ control = "idle" /\ running
  /\ running' = FALSE
  /\ control' = "join" /\ next' = 1
  /\ UNCHANGED <<run, thread, threads, files, faults, overran>>

(* mutant: stop() does not wait for a reader *)
Unjoined(b) == TRUE

Joined(b) == thread[b] # 0 => reader[b][thread[b]] \notin Alive

(* b.thread.join(timeout=10) *)
JoinReader ==
  /\ control = "join" /\ Looping
  /\ \/ Joined(next) /\ UNCHANGED overran
     \/ ~Joined(next) /\ Timeouts /\ overran' = TRUE
  /\ thread' = [thread EXCEPT ![next] = 0]
  /\ next' = next + 1
  /\ UNCHANGED <<running, control, run, threads, files, faults>>

(* mutant: stop() does not wait for the statistics thread *)
StatsUnjoined == TRUE

StatsJoined == stats[run] # "on"

(* _stats_thread.join(timeout=5) *)
JoinStats ==
  /\ control = "join" /\ ~Looping
  /\ \/ StatsJoined /\ UNCHANGED overran
     \/ ~StatsJoined /\ Timeouts /\ overran' = TRUE
  /\ control' = "close"
  /\ UNCHANGED <<running, next, run, thread, threads, files, faults>>

(* Hdf5RunWriter.close *)
CloseFile ==
  /\ control = "close"
  /\ file' = [file EXCEPT ![run] = IF @ = "open" THEN "closed" ELSE @]
  /\ control' = "finish"
  /\ UNCHANGED <<running, next, run, thread, threads, strays, faults, overran>>

(* _finish_scalers stores the summary *)
Finish ==
  /\ control = "finish"
  /\ control' = "idle"
  /\ UNCHANGED <<running, next, run, thread, threads, files, faults, overran>>

-----------------------------------------------------------------------------
(* The threads *)

(* mutant: a reader never finds that the run was stopped *)
GoOn == "decode"

(* _cycle's look at _running: is it the last bank? *)
AfterRead == IF running THEN "decode" ELSE "last"

ReadBank(b, r) ==
  /\ reader[b][r] = "wait"
  /\ reader' = [reader EXCEPT ![b][r] = AfterRead]
  /\ UNCHANGED <<running, control, next, run, thread, stats, files, faults, overran>>

(* self.writer.append, which opens a file when none is open *)
WriteBank(b, r) ==
  /\ reader[b][r] \in {"decode", "last"}
  /\ \/ file' = [file EXCEPT ![run] = "open"]
        /\ strays' = strays \union ({r} \ {run})
     \/ UNCHANGED <<file, strays>>            \* a bank without events
  /\ reader' = [reader EXCEPT ![b][r] = IF @ = "last" THEN "ended" ELSE "wait"]
  /\ UNCHANGED <<running, control, next, run, thread, stats, faults, overran>>

(* the board counts as failed, or its last cycle failed *)
BoardFails(b, r) ==
  /\ reader[b][r] = "wait" /\ faults < MaxFaults
  /\ faults' = faults + 1
  /\ \/ running /\ reader' = [reader EXCEPT ![b][r] = "failed"]
     \/ ~running /\ reader' = [reader EXCEPT ![b][r] = "ended"]
  /\ UNCHANGED <<running, control, next, run, thread, stats, files, overran>>

(* _recover, or the end of the loop *)
Recover(b, r) ==
  /\ reader[b][r] = "failed"
  /\ IF running
       THEN reader' = [reader EXCEPT ![b][r] = "wait"]
       ELSE reader' = [reader EXCEPT ![b][r] = "ended"]
  /\ UNCHANGED <<running, control, next, run, thread, stats, files, faults, overran>>

(* an exception other than Sis3316Error *)
ReaderDies(b, r) ==
  /\ reader[b][r] \in Alive \ {"failed"} /\ faults < MaxFaults
  /\ faults' = faults + 1
  /\ reader' = [reader EXCEPT ![b][r] = "dead"]
  /\ UNCHANGED <<running, control, next, run, thread, stats, files, overran>>

StatsEnds(r) ==
  /\ stats[r] = "on" /\ ~running
  /\ stats' = [stats EXCEPT ![r] = "off"]
  /\ UNCHANGED <<running, control, next, run, thread, reader, files, faults, overran>>

-----------------------------------------------------------------------------
Init ==
  /\ running = FALSE /\ control = "idle" /\ next = 1 /\ run = 0
  /\ thread = [b \in Boards |-> 0]
  /\ reader = [b \in Boards |-> [r \in Runs |-> "none"]]
  /\ stats = [r \in Runs |-> "none"]
  /\ file = [r \in Runs |-> "none"] /\ strays = {}
  /\ faults = 0 /\ overran = FALSE

InCall == StartBoard \/ StartBoardFails \/ SetRunning \/ StartReader \/ StartStats
          \/ JoinReader \/ JoinStats \/ CloseFile \/ Finish

Control == Start \/ Stop \/ InCall

Reader(b, r) == ReadBank(b, r) \/ WriteBank(b, r) \/ BoardFails(b, r) \/ Recover(b, r)
                \/ ReaderDies(b, r)

Next == Control \/ (\E b \in Boards, r \in Runs : Reader(b, r)) \/ (\E r \in Runs : StatsEnds(r))

Spec == Init /\ [][Next]_vars

(* Every thread runs, the calling one within its call. *)
FairSpec == /\ Spec /\ WF_vars(InCall)
            /\ \A b \in Boards, r \in Runs : WF_vars(Reader(b, r))
            /\ \A r \in Runs : WF_vars(StatsEnds(r))

-----------------------------------------------------------------------------
TypeOK ==
  /\ running \in BOOLEAN /\ next \in 1..(NBoards + 1) /\ run \in 0..MaxRuns
  /\ control \in {"idle", "boards", "readers", "join", "close", "finish"}
  /\ thread \in [Boards -> 0..MaxRuns]
  /\ reader \in [Boards -> [Runs -> Alive \union {"none", "ended", "dead"}]]
  /\ stats \in [Runs -> {"none", "on", "off"}]
  /\ file \in [Runs -> {"none", "open", "closed"}]
  /\ strays \subseteq Runs

(* While joins succeed, a board has at most one reader, and every bank goes *)
(* into the file of the run that read it.                                   *)
OneReader ==
  ~overran => /\ \A b \in Boards : \A r \in Live(b) : r = run
              /\ strays = {}

(* ... and when the file of a run is closed and its summary stored, nothing *)
(* of the run is left to come: no reader, no statistics, no further file.   *)
StoppedQuietly ==
  ~overran /\ ~running /\ control \in {"idle", "boards", "finish"} =>
    /\ \A b \in Boards : Live(b) = {}
    /\ \A r \in Runs : stats[r] # "on" /\ file[r] # "open"

(* The invariant by which those two are proved: where _running stands with  *)
(* the calling thread, and, while joins succeed, that a thread which still  *)
(* lives is the one its board refers to, so that stop() has joined it.      *)
PhaseInv ==
  /\ control = "readers" => running
  /\ control \in {"boards", "join", "close", "finish"} => ~running

OwnedInv ==
  ~overran =>
    /\ \A b \in Boards : \A r \in Live(b) : r = run /\ thread[b] = r
    /\ \A b \in Boards :
         ~running /\ (control = "join" => b < next) => thread[b] = 0
    /\ \A r \in Runs : stats[r] = "on" => r = run /\ (running \/ control = "join")
    /\ \A r \in Runs :
         file[r] = "open" => r = run /\ (running \/ control \in {"join", "close"})
    /\ strays = {}

IInv == TypeOK /\ PhaseInv /\ OwnedInv

(* Every reader ends once the run is stopped, unless the next run begins    *)
(* before it does.                                                          *)
ReadersEnd ==
  ~running ~> running \/ \A b \in Boards : Live(b) = {}
=============================================================================
