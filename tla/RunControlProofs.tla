-------------------------- MODULE RunControlProofs --------------------------
(***************************************************************************)
(* RunControl's invariant and its corollaries, for any number of boards,   *)
(* runs and faults.                                                        *)
(*                                                                         *)
(* What carries the argument is OwnedInv: while joins succeed, a reader    *)
(* that lives is the one named by _Board.thread, and every thread of a     *)
(* board that stop() has passed is None.  A reader can therefore neither   *)
(* outlive its run nor find another run's file, and nothing is left open   *)
(* when the summary is stored.                                             *)
(***************************************************************************)
EXTENDS RunControl, TLAPS

(* What a reader may be.                                                    *)
ReaderStates == Alive \union {"none", "ended", "dead"}

(* A step of one reader keeps all of them in their states.                  *)
LEMMA ReaderType ==
  ASSUME TypeOK, NEW b \in Boards, NEW r \in Runs, NEW v \in ReaderStates,
         reader' = [reader EXCEPT ![b][r] = v],
         UNCHANGED <<running, control, next, run, thread, stats, file, strays>>
  PROVE  TypeOK'
BY DEF TypeOK, ReaderStates, Boards, Runs

(* Every action preserves the type invariant.                               *)
LEMMA TypeStep == ASSUME TypeOK, Next PROVE TypeOK'
<1> USE RunControlAssumption DEF TypeOK, Alive, threads, files, Boards, Runs, Looping
<1>1. CASE Start
  BY <1>1 DEF Start
<1>2. CASE StartBoard \/ StartBoardFails
  <2>1. next' \in 1..(NBoards + 1)
    BY <1>2 DEF StartBoard, StartBoardFails
  <2>2. control' \in {"boards", "idle"}
    BY <1>2 DEF StartBoard, StartBoardFails
  <2>3. UNCHANGED <<running, run, thread, reader, stats, file, strays>>
    BY <1>2 DEF StartBoard, StartBoardFails
  <2> QED BY <2>1, <2>2, <2>3
<1>3. CASE SetRunning \/ Stop
  <2>1. running' \in BOOLEAN
    BY <1>3, Zenon DEF SetRunning, Stop
  <2>2. next' \in 1..(NBoards + 1) /\ control' \in {"readers", "join"}
    BY <1>3 DEF SetRunning, Stop
  <2>3. UNCHANGED <<run, thread, reader, stats, file, strays>>
    BY <1>3 DEF SetRunning, Stop
  <2> QED BY <2>1, <2>2, <2>3
<1>4. CASE StartReader
  <2>1. thread' \in [Boards -> 0..MaxRuns] /\ next' \in 1..(NBoards + 1)
    BY <1>4 DEF StartReader
  <2>2. reader' \in [Boards -> [Runs -> ReaderStates]]
    BY <1>4 DEF StartReader, ReaderStates
  <2> QED BY <1>4, <2>1, <2>2 DEF StartReader, ReaderStates
<1>5. CASE StartStats
  BY <1>5 DEF StartStats
<1>6. CASE JoinReader
  BY <1>6 DEF JoinReader
<1>7. CASE JoinStats
  BY <1>7 DEF JoinStats
<1>8. CASE CloseFile
  BY <1>8 DEF CloseFile
<1>9. CASE Finish
  BY <1>9 DEF Finish
<1>10. ASSUME NEW b \in Boards, NEW r \in Runs, ReadBank(b, r) PROVE TypeOK'
  BY <1>10, ReaderType DEF ReaderStates, ReadBank, AfterRead
<1>11. ASSUME NEW b \in Boards, NEW r \in Runs, WriteBank(b, r) PROVE TypeOK'
  <2>1. /\ file' \in [Runs -> {"none", "open", "closed"}] /\ strays' \subseteq Runs
        /\ UNCHANGED <<running, control, next, run, thread, stats>>
    BY <1>11 DEF WriteBank
  <2>2. reader' \in [Boards -> [Runs -> ReaderStates]]
    BY <1>11 DEF WriteBank, ReaderStates
  <2> QED BY <2>1, <2>2 DEF ReaderStates
<1>12. ASSUME NEW b \in Boards, NEW r \in Runs, BoardFails(b, r) PROVE TypeOK'
  <2>1. PICK v \in {"failed", "ended"} : reader' = [reader EXCEPT ![b][r] = v]
    BY <1>12 DEF BoardFails
  <2> QED BY <1>12, <2>1, ReaderType DEF ReaderStates, BoardFails
<1>13. ASSUME NEW b \in Boards, NEW r \in Runs, Recover(b, r) PROVE TypeOK'
  BY <1>13, ReaderType DEF ReaderStates, Recover
<1>14. ASSUME NEW b \in Boards, NEW r \in Runs, ReaderDies(b, r) PROVE TypeOK'
  BY <1>14, ReaderType DEF ReaderStates, ReaderDies
<1>15. ASSUME NEW r \in Runs, StatsEnds(r) PROVE TypeOK'
  BY <1>15 DEF StatsEnds
<1> QED
  BY <1>1, <1>2, <1>3, <1>4, <1>5, <1>6, <1>7, <1>8, <1>9, <1>10, <1>11, <1>12, <1>13,
     <1>14, <1>15
     DEF Next, Control, InCall, Reader

(* Every action keeps _running in agreement with the calling thread.        *)
LEMMA PhaseStep == ASSUME TypeOK, PhaseInv, Next PROVE PhaseInv'
<1> USE DEF PhaseInv, TypeOK
<1>1. CASE Control
  BY <1>1 DEF Control, InCall, Start, StartBoard, StartBoardFails, SetRunning, StartReader,
     StartStats, Stop, JoinReader, JoinStats, CloseFile, Finish
<1>2. CASE \E b \in Boards, r \in Runs : Reader(b, r)
  BY <1>2 DEF Reader, ReadBank, WriteBank, BoardFails, Recover, ReaderDies
<1>3. CASE \E r \in Runs : StatsEnds(r)
  BY <1>3 DEF StatsEnds
<1> QED BY <1>1, <1>2, <1>3 DEF Next

(* A step of a reader that writes nothing leaves it dead or alive where it  *)
(* was, and every other thread and file alone.                              *)
LEMMA ReaderStepOwned ==
  ASSUME TypeOK, OwnedInv, NEW b \in Boards, NEW r \in Runs, NEW v,
         reader[b][r] \in Alive, reader' = [reader EXCEPT ![b][r] = v],
         UNCHANGED <<running, control, next, run, thread, stats, files, overran>>
  PROVE  OwnedInv'
<1> SUFFICES ASSUME ~overran PROVE OwnedInv'
  BY DEF OwnedInv
<1>1. \A c \in Boards : Live(c)' \subseteq Live(c)
  <2> SUFFICES ASSUME NEW c \in Boards, NEW q \in Runs, reader'[c][q] \in Alive
               PROVE  reader[c][q] \in Alive
    BY DEF Live
  <2> QED BY DEF TypeOK
<1> QED BY <1>1 DEF OwnedInv, files

(* Every action keeps the living threads those of the current run.          *)
LEMMA OwnedStep == ASSUME TypeOK, PhaseInv, OwnedInv, Next PROVE OwnedInv'
<1> USE RunControlAssumption
<1> USE DEF OwnedInv, PhaseInv, TypeOK, threads, files, Live, Boards, Runs, Looping
<1>1. CASE Start
  BY <1>1 DEF Start
<1>2. CASE StartBoard \/ StartBoardFails \/ SetRunning
  BY <1>2 DEF StartBoard, StartBoardFails, SetRunning
<1>3. CASE StartReader
  BY <1>3 DEF StartReader
<1>4. CASE StartStats
  BY <1>4 DEF StartStats
<1>5. CASE Stop
  BY <1>5 DEF Stop
<1>6. CASE JoinReader
  BY <1>6 DEF JoinReader, Joined
<1>7. CASE JoinStats
  BY <1>7 DEF JoinStats, StatsJoined
<1>8. CASE CloseFile
  BY <1>8 DEF CloseFile
<1>9. CASE Finish
  BY <1>9 DEF Finish
<1>10. ASSUME NEW b \in Boards, NEW r \in Runs, Reader(b, r) PROVE OwnedInv'
  <2>1. CASE ReadBank(b, r)
    BY <2>1, ReaderStepOwned DEF ReadBank, Alive
  <2>2. CASE WriteBank(b, r)
    <3> SUFFICES ASSUME ~overran PROVE OwnedInv'
      BY <2>2 DEF WriteBank
    <3>1. r \in Live(b) /\ r = run /\ thread[b] = r /\ r # 0
      BY <2>2 DEF WriteBank, Alive
    <3>2. running \/ control = "join"
      BY <3>1
    <3>3. \A c \in Boards : \A q \in Runs : reader'[c][q] \in Alive => reader[c][q] \in Alive
      BY <2>2 DEF WriteBank, Alive
    <3>4. strays' = {} /\ \A q \in Runs : file'[q] = "open" => q = run \/ file[q] = "open"
      BY <2>2, <3>1 DEF WriteBank
    <3>5. UNCHANGED <<running, control, next, run, thread, stats, overran>>
      BY <2>2 DEF WriteBank
    <3> QED BY <3>2, <3>3, <3>4, <3>5
  <2>3. CASE BoardFails(b, r)
    BY <2>3, ReaderStepOwned, SMTT(40) DEF BoardFails, Alive
  <2>4. CASE Recover(b, r)
    <3>1. PICK v \in {"wait", "ended"} : reader' = [reader EXCEPT ![b][r] = v]
      BY <2>4 DEF Recover
    <3> QED BY <2>4, <3>1, ReaderStepOwned DEF Recover, Alive
  <2>5. CASE ReaderDies(b, r)
    BY <2>5, ReaderStepOwned, SMTT(40) DEF ReaderDies, Alive
  <2> QED BY <1>10, <2>1, <2>2, <2>3, <2>4, <2>5 DEF Reader
<1>11. ASSUME NEW r \in Runs, StatsEnds(r) PROVE OwnedInv'
  BY <1>11 DEF StatsEnds
<1> QED
  BY <1>1, <1>2, <1>3, <1>4, <1>5, <1>6, <1>7, <1>8, <1>9, <1>10, <1>11
     DEF Next, Control, InCall

(* The invariant holds before the first start().                            *)
LEMMA InitInv == Init => IInv
<1> SUFFICES ASSUME Init PROVE IInv
  OBVIOUS
<1>1. running \in BOOLEAN
  BY Zenon DEF Init
<1>2. TypeOK
  BY <1>1, RunControlAssumption DEF Init, TypeOK, Alive, Boards, Runs
<1>3. PhaseInv /\ OwnedInv
  BY RunControlAssumption DEF Init, PhaseInv, OwnedInv, Live, Alive, Boards, Runs
<1> QED BY <1>2, <1>3 DEF IInv

(* The invariant is inductive.                                              *)
LEMMA StepInv == IInv /\ [Next]_vars => IInv'
<1> SUFFICES ASSUME IInv, [Next]_vars PROVE IInv'
  OBVIOUS
<1>1. CASE Next
  BY <1>1, TypeStep, PhaseStep, OwnedStep DEF IInv
<1>2. CASE UNCHANGED vars
  BY <1>2 DEF vars, threads, files, IInv, TypeOK, PhaseInv, OwnedInv, Live
<1> QED BY <1>1, <1>2

(* The inductive invariant holds in every reachable state.                  *)
THEOREM Invariance == Spec => []IInv
<1> QED BY InitInv, StepInv, PTL DEF Spec

(* start() and stop() keep every thread, file and counter in its domain.    *)
THEOREM TypeCorrect == Spec => []TypeOK
<1>1. IInv => TypeOK BY DEF IInv
<1> QED BY <1>1, Invariance, PTL

(* As long as no join runs into its timeout, no board has two readers, and  *)
(* no bank goes into the file of another run than the one that read it.     *)
THEOREM ReaderOfItsRun == Spec => []OneReader
<1>1. IInv => OneReader BY DEF IInv, OwnedInv, OneReader
<1> QED BY <1>1, Invariance, PTL

(* ... and after stop() nothing of the run is left: no reader, no           *)
(* statistics thread, no open file.                                         *)
THEOREM NothingAfterStop == Spec => []StoppedQuietly
<1>1. IInv => StoppedQuietly
  <2> SUFFICES ASSUME IInv, ~overran, ~running, control \in {"idle", "boards", "finish"}
               PROVE  /\ \A b \in Boards : Live(b) = {}
                      /\ \A r \in Runs : stats[r] # "on" /\ file[r] # "open"
    BY DEF StoppedQuietly
  <2>1. ASSUME NEW b \in Boards, NEW r \in Live(b) PROVE FALSE
    BY <2>1 DEF IInv, OwnedInv, Live, Runs
  <2> QED BY <2>1 DEF IInv, OwnedInv
<1> QED BY <1>1, Invariance, PTL
=============================================================================
