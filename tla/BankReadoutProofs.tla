------------------------- MODULE BankReadoutProofs -------------------------
(***************************************************************************)
(* BankReadout's invariant, its corollaries, and its refinement of         *)
(* EventStream, for every value of the constants.                          *)
(*                                                                         *)
(* IInv is a conjunction of parts, and each part has its own lemma below   *)
(* that every step preserves it (TypeStep .. CoverStep), with one step of  *)
(* the proof per action.  The argument that carries weight:  the counters  *)
(* are latched only where a bank is closed (BoardInv), so a bank that the  *)
(* reader may still read begins after the last reading (FreshInv, passed   *)
(* on to the bank in hand by HoldingInv), and the modular difference of    *)
(* two readings is their true distance (DeltaCounts, from LatchInv); hence *)
(* the counted hits cover the bank's events (CountsCover), and the bank    *)
(* follows everything written before (DeliverMaps).  In a run where no     *)
(* access failed and nothing was cleared more holds: each bank begins      *)
(* exactly at the last reading (ChainInv), so the counted hits are the     *)
(* bank's events (ExactStep), and if no settings came in between, no hit   *)
(* is skipped at all (ProgressStep).                                       *)
(***************************************************************************)
EXTENDS BankReadout, TLAPS

USE
   DEF Banks, Other, NoStat, Disturbances, Locked, Reading, Holding, board, totals,
       inhand, control

(* The reader leaves _cycle with its locals reset.                          *)
LEMMA LeaveCycleType ==
  ASSUME LeaveCycle
  PROVE  /\ pc' \in {"top", "exit"} /\ read_bank' \in Banks
         /\ got_lo' \in Nat /\ got_hi' \in Nat /\ stat' \in 0..(Wrap - 1)
         /\ stat_true' \in Nat /\ applied' \in BOOLEAN /\ counted' \in BOOLEAN
<1>1. applied' \in BOOLEAN /\ counted' \in BOOLEAN /\ pc' \in {"top", "exit"}
  BY Zenon DEF LeaveCycle
<1> QED BY <1>1, BankReadoutAssumption DEF LeaveCycle

(* An error counts once, and the board counts as failed at _FAILED_AFTER:   *)
(* the count never passes it.                                               *)
LEMMA RaiseStep ==
  ASSUME TypeOK, ~failed, consecutive < FailedAfter, Raise
  PROVE  /\ consecutive' \in 0..FailedAfter /\ failed' \in BOOLEAN
         /\ failed' \/ consecutive' < FailedAfter
         /\ LeaveCycle
<1> USE BankReadoutAssumption
<1> USE DEF TypeOK, BoardType, DriverType, ThreadType, HistoryType, Raise, Fails
<1>1. consecutive' = consecutive + 1 /\ consecutive' \in 0..FailedAfter /\ LeaveCycle
  OBVIOUS
<1>2. CASE consecutive + 1 >= FailedAfter
  <2>1. failed' = TRUE BY <1>2
  <2> QED BY <1>1, <2>1
<1>3. CASE ~(consecutive + 1 >= FailedAfter)
  <2>1. failed' = FALSE BY <1>3
  <2>2. consecutive' < FailedAfter BY <1>1, <1>3
  <2> QED BY <1>1, <2>1, <2>2
<1> QED BY <1>2, <1>3

(* A failed access keeps the history variables in their domains.            *)
LEMMA FaultType ==
  ASSUME HistoryType, Fault
  PROVE  faults' \in Nat /\ disturbed' \subseteq Disturbances
BY DEF HistoryType, Fault

(* Clearing the histograms is one of the disturbances.                      *)
LEMMA ClearType ==
  ASSUME disturbed \subseteq Disturbances,
         \/ disturbed' = disturbed \union {"clear"}
         \/ disturbed' = disturbed \union {"clear", "fault"}
  PROVE  disturbed' \subseteq Disturbances
OBVIOUS

(* Euclidean division, from the definitions of % and \div.                  *)
LEMMA DivMod ==
  ASSUME NEW W \in Nat, NEW a \in Int, W > 0
  PROVE  a % W \in 0..(W - 1) /\ (a \div W) \in Int /\ a = W * (a \div W) + (a % W)
OBVIOUS

(* The only multiple of W between -W and W is 0.                            *)
LEMMA SmallMultiple ==
  ASSUME NEW W \in Nat, NEW k \in Int, -W < W * k, W * k < W
  PROVE  k = 0
<1>1. CASE k >= 1
  <2>1. W * k >= W BY <1>1
  <2> QED BY <2>1
<1>2. CASE k <= -1
  <2>1. W * k <= -W BY <1>2
  <2> QED BY <2>1
<1> QED BY <1>1, <1>2

(* A remainder is determined by any decomposition into a multiple and a     *)
(* number below W.                                                          *)
LEMMA ModUnique == ASSUME NEW W \in Nat, NEW q \in Int, NEW r \in 0..(W-1)
  PROVE (W * q + r) % W = r
<1> DEFINE a == W * q + r
<1>1. W > 0 /\ r \in Int /\ W * q \in Int /\ a \in Int OBVIOUS
<1>2. PICK d \in Int, m \in 0..(W-1) : d = a \div W /\ m = a % W /\ a = W * d + m
  <2> HIDE DEF a
  <2> QED BY <1>1, DivMod
<1>4. W * (q - d) = m - r
   <2>1. W * q + r = W * d + m BY <1>2
   <2>2. W * (q - d) = W * q - W * d  OBVIOUS
   <2>3. W * d \in Int OBVIOUS
   <2> QED BY <1>1, <2>1, <2>2, <2>3
<1>5. q - d = 0
  <2>1. -W < m - r /\ m - r < W BY <1>1
  <2> QED BY <2>1, <1>4, SmallMultiple
<1> QED BY <1>1, <1>2, <1>4, <1>5

(* Counter arithmetic: the difference modulo W of two readings modulo W is  *)
(* the distance of the values read, if that is below W.                     *)
LEMMA DiffOfMods == ASSUME NEW W \in Nat, NEW x \in Int, NEW y \in Int, NEW z \in Int,
                           0 <= y - x, y - x < W
  PROVE (((y - z) % W) - ((x - z) % W)) % W = y - x
<1> DEFINE u == y - z
           v == x - z
<1>1. W > 0 /\ u \in Int /\ v \in Int OBVIOUS
<1>2. PICK d \in Int, m \in 0..(W-1) : m = u % W /\ u = W * d + m
  <2> HIDE DEF u
  <2> QED BY <1>1, DivMod
<1>3. PICK e \in Int, n \in 0..(W-1) : n = v % W /\ v = W * e + n
  <2> HIDE DEF v
  <2> QED BY <1>1, DivMod
<1>4. m - n = W * (e - d) + (y - x)
  <2>1. W * (d - e) = W * d - W * e OBVIOUS
  <2>2. W * e \in Int /\ W * d \in Int OBVIOUS
  <2>3. u - v = y - x OBVIOUS
  <2> QED BY <2>1, <2>2, <2>3, <1>1, <1>2, <1>3
<1>5. (W * (e - d) + (y - x)) % W = y - x
  BY ModUnique
<1> QED BY <1>2, <1>3, <1>4, <1>5

(* The delta of two latched counters is the number of hits between the      *)
(* latches.                                                                 *)
LEMMA DeltaCounts ==
  ASSUME latch \in Int, last_true \in Int, zero_at \in Int,
         0 <= latch - last_true, latch - last_true < Wrap,
         stat = (latch - zero_at) % Wrap, last_stat = (last_true - zero_at) % Wrap
  PROVE  Delta = latch - last_true
<1>1. Wrap \in Nat BY BankReadoutAssumption
<1>2. (((latch - zero_at) % Wrap) - ((last_true - zero_at) % Wrap)) % Wrap = latch -
   last_true
  BY <1>1, DiffOfMods
<1> QED BY <1>2 DEF Delta

(* A counter reads a value below Wrap.                                      *)
LEMMA ModType == ASSUME NEW a \in Int PROVE a % Wrap \in 0..(Wrap - 1)
BY BankReadoutAssumption

(* What the reader has in hand after reading n hits of the closed bank.     *)
LEMMA TakeBankType ==
  ASSUME TypeOK, NEW n \in 0..prev_hi, TakeBank(n)
  PROVE  /\ pc' \in {"disarm", "apply", "account"} /\ applied' \in BOOLEAN
         /\ got_lo' \in Nat /\ got_hi' \in Nat /\ stat' \in 0..(Wrap - 1)
         /\ stat_true' \in Nat
<1>1. pc' \in {"disarm", "apply", "account"} /\ applied' \in BOOLEAN
  BY Zenon DEF TakeBank
<1>2. stat' \in 0..(Wrap - 1)
  BY ModType DEF TakeBank, StatReg, TypeOK, BoardType
<1> QED BY <1>1, <1>2 DEF TakeBank, TypeOK, BoardType

(* Every operation of the board keeps its registers in their domains.       *)
LEMMA BoardOps ==
  ASSUME TypeOK, hits' = hits, NEW b \in Banks,
         KeyArm(b) \/ KeyDisarm \/ Rearm(b) \/ Initialize \/ InitializeAndArm(b)
  PROVE  BoardType'
<1> USE DEF TypeOK, BoardType
<1>1. CASE KeyArm(b) BY <1>1 DEF KeyArm
<1>2. CASE KeyDisarm BY <1>2 DEF KeyDisarm, NoClosedBank
<1>3. CASE Rearm(b) BY <1>3 DEF Rearm, NoClosedBank
<1>4. CASE Initialize BY <1>4 DEF Initialize, NoClosedBank, CountersAfterReset
<1>5. CASE InitializeAndArm(b) BY <1>5
   DEF InitializeAndArm, NoClosedBank, CountersAfterReset
<1> QED BY <1>1, <1>2, <1>3, <1>4, <1>5

(* Every action preserves the type invariant.                               *)
LEMMA TypeStep == ASSUME TypeOK, BoardInv, ControlInv, HoldingInv, Next PROVE TypeOK'
<1> USE BankReadoutAssumption
<1> USE DEF TypeOK, BoardInv, ControlInv, HoldingInv, SinceReading, BoardType, DriverType,
       ThreadType, HistoryType
<1>1. CASE Record
  BY <1>1 DEF Record
<1>2. CASE StartArm
  BY <1>2
     DEF StartArm, InitializeAndArm, NoClosedBank, CountersAfterReset, ResetTotals,
         ForgetLatch
<1>3. CASE StartArmFails
  BY <1>3
     DEF StartArmFails, Initialize, NoClosedBank, CountersAfterReset, InitializeAndArm,
         Fault, ResetTotals, ForgetLatch
<1>4. CASE StartSwap
  <2>1. BoardType' BY <1>4, BoardOps DEF StartSwap
  <2>2. failed' \in BOOLEAN BY <1>4, Zenon DEF StartSwap
  <2>3. StatReg' \in 0..(Wrap - 1)
    <3>1. latch' - zero_at' \in Int BY <2>1
    <3> QED BY <3>1, ModType DEF StatReg
  <2>4. DriverType' BY <1>4, <2>2, <2>3 DEF StartSwap, Remember
  <2>5. ThreadType' BY <1>4 DEF StartSwap
  <2>6. HistoryType' BY <1>4, <2>1 DEF StartSwap
  <2> QED BY <2>1, <2>4, <2>5, <2>6
<1>5. CASE StartSwapFails
  BY <1>5 DEF StartSwapFails, KeyArm, Fault, Remember
<1>34. CASE StartSwapUnanswered
  BY <1>34 DEF StartSwapUnanswered, KeyArm, Fault
<1>6. CASE StartReader
  BY <1>6 DEF StartReader
<1>7. CASE StartAbandoned
  BY <1>7 DEF StartAbandoned, Fault
<1>8. CASE StopRequest
  BY <1>8 DEF StopRequest
<1>9. CASE StopJoin
  BY <1>9 DEF StopJoin
<1>10. CASE UpdateSettings
  BY <1>10 DEF UpdateSettings
<1>11. CASE ClearHistograms
  <2>1. BoardType' BY <1>11, BoardOps DEF ClearHistograms
  <2>2. DriverType' BY <1>11 DEF ClearHistograms
  <2>3. ThreadType' BY <1>11 DEF ClearHistograms
  <2>4. /\ \/ disturbed' = disturbed \union {"clear"}
           \/ disturbed' = disturbed \union {"clear", "fault"}
        /\ faults' = faults \/ faults' = faults + 1
    BY <1>11 DEF ClearHistograms
  <2>5. faults' \in Nat /\ disturbed' \subseteq Disturbances BY <2>4, ClearType
  <2>6. UNCHANGED <<runs, run_base, written_to, last_true, stat_true>> BY <1>11
     DEF ClearHistograms
  <2>7. HistoryType' BY <2>5, <2>6
  <2> QED BY <2>1, <2>2, <2>3, <2>7
<1>12. CASE ClearHistogramsStopped
  BY <1>12 DEF ClearHistogramsStopped
<1>13. CASE LoopTop
  BY <1>13 DEF LoopTop, AtTop
<1>14. CASE NoticeStop
  BY <1>14 DEF NoticeStop
<1>15. CASE PollFails
  <2>1. BoardType' BY <1>15 DEF PollFails
  <2>2. DriverType' BY <1>15, RaiseStep DEF PollFails
  <2>3. ThreadType' BY <1>15, RaiseStep, LeaveCycleType DEF PollFails
  <2>4. HistoryType' BY <1>15, FaultType, RaiseStep, LeaveCycleType DEF PollFails
  <2> QED BY <2>1, <2>2, <2>3, <2>4
<1>16. CASE Swap
  BY <1>16 DEF Swap, KeyArm, Remember, BankToRead
<1>17. CASE SwapUnanswered
  BY <1>17 DEF SwapUnanswered, KeyArm, Fault, BankToRead
<1>18. CASE SwapResent
  BY <1>18 DEF SwapResent, KeyArm, Remember
<1>19. CASE SwapFails
  <2>1. BoardType' BY <1>19, BoardOps DEF SwapFails
  <2>2. DriverType' BY <1>19, RaiseStep DEF SwapFails
  <2>3. ThreadType' BY <1>19, RaiseStep, LeaveCycleType DEF SwapFails
  <2>4. HistoryType' BY <1>19, FaultType, RaiseStep, LeaveCycleType DEF SwapFails
  <2> QED BY <2>1, <2>2, <2>3, <2>4
<1>20. CASE ReadBank
  <2>1. BoardType' BY <1>20 DEF ReadBank, TakeBank
  <2>2. DriverType' BY <1>20 DEF ReadBank, TakeBank
  <2>3. TakeBank(prev_hi - prev_lo) /\ prev_hi - prev_lo \in 0..prev_hi
    BY <1>20 DEF ReadBank, Closed, TakeBank
  <2>4. read_bank' = read_bank /\ running' = running /\ go' = go /\ counted' = counted
    BY <1>20 DEF ReadBank, TakeBank
  <2>5. ThreadType' BY <2>3, <2>4, TakeBankType
  <2>6. HistoryType' BY <1>20, <2>3, TakeBankType DEF ReadBank, TakeBank
  <2> QED BY <2>1, <2>2, <2>5, <2>6
<1>21. CASE ReadNothing
  <2>1. BoardType' BY <1>21 DEF ReadNothing, TakeBank
  <2>2. DriverType' BY <1>21 DEF ReadNothing, TakeBank
  <2>3. TakeBank(0) BY <1>21 DEF ReadNothing
  <2>4. read_bank' = read_bank /\ running' = running /\ go' = go /\ counted' = counted
    BY <2>3 DEF TakeBank
  <2>5. ThreadType' BY <2>3, <2>4, TakeBankType
  <2>6. faults' \in Nat /\ disturbed' \subseteq Disturbances BY <1>21, FaultType
     DEF ReadNothing
  <2>7. HistoryType' BY <2>3, <2>6, TakeBankType DEF TakeBank
  <2> QED BY <2>1, <2>2, <2>5, <2>7
<1>22. CASE ReadFails
  <2>1. BoardType' BY <1>22 DEF ReadFails
  <2>2. DriverType' BY <1>22, RaiseStep DEF ReadFails
  <2>3. ThreadType' BY <1>22, RaiseStep, LeaveCycleType DEF ReadFails
  <2>4. HistoryType' BY <1>22, FaultType, RaiseStep, LeaveCycleType DEF ReadFails
  <2> QED BY <2>1, <2>2, <2>3, <2>4
<1>23. CASE FinalDisarm
  <2>1. BoardType' BY <1>23, BoardOps DEF FinalDisarm
  <2>2. DriverType' BY <1>23, ModType DEF FinalDisarm
  <2>3. ThreadType' BY <1>23, ModType DEF FinalDisarm
  <2>4. HistoryType' BY <1>23 DEF FinalDisarm
  <2> QED BY <2>1, <2>2, <2>3, <2>4
<1>24. CASE FinalDisarmFails
  <2>1. BoardType' BY <1>24, BoardOps DEF FinalDisarmFails
  <2>2. DriverType' BY <1>24, RaiseStep DEF FinalDisarmFails
  <2>3. ThreadType' BY <1>24, RaiseStep, LeaveCycleType DEF FinalDisarmFails
  <2>4. HistoryType' BY <1>24, FaultType, RaiseStep, LeaveCycleType DEF FinalDisarmFails
  <2> QED BY <2>1, <2>2, <2>3, <2>4
<1>25. CASE ApplyPending
  <2>1. BoardType' BY <1>25, BoardOps DEF ApplyPending
  <2>2. DriverType' BY <1>25, ModType DEF ApplyPending
  <2>3. ThreadType' BY <1>25, ModType DEF ApplyPending
  <2>4. HistoryType' BY <1>25 DEF ApplyPending
  <2> QED BY <2>1, <2>2, <2>3, <2>4
<1>26. CASE ApplyPendingFails
  <2>1. BoardType' BY <1>26, BoardOps DEF ApplyPendingFails
  <2>2. DriverType' BY <1>26, RaiseStep DEF ApplyPendingFails
  <2>3. ThreadType' BY <1>26, RaiseStep, LeaveCycleType DEF ApplyPendingFails
  <2>4. HistoryType' BY <1>26, FaultType, RaiseStep, LeaveCycleType DEF ApplyPendingFails
  <2> QED BY <2>1, <2>2, <2>3, <2>4
<1>27. CASE Account
  BY <1>27 DEF Account, Delta, LatchKept
<1>28. CASE Decode
  <2>1. BoardType' BY <1>28 DEF Decode
  <2>2. DriverType' BY <1>28 DEF Decode, Deliver
  <2>3. ThreadType' BY <1>28, LeaveCycleType DEF Decode
  <2>4. HistoryType' BY <1>28, LeaveCycleType DEF Decode, Deliver
  <2> QED BY <2>1, <2>2, <2>3, <2>4
<1>29. CASE Retry
  BY <1>29 DEF Retry
<1>30. CASE Recover
  <2>1. BoardType' BY <1>30, BoardOps DEF Recover
  <2>2. failed' \in BOOLEAN BY <1>30, Zenon DEF Recover
  <2>3. DriverType' BY <1>30, <2>2 DEF Recover, ForgetLatch
  <2>4. ThreadType' BY <1>30 DEF Recover
  <2>5. HistoryType' BY <1>30 DEF Recover, ForgetLatch
  <2> QED BY <2>1, <2>3, <2>4, <2>5
<1>31. CASE RecoverFails
  BY <1>31
     DEF RecoverFails, KeyDisarm, NoClosedBank, Initialize, CountersAfterReset,
         InitializeAndArm, Fault, ForgetLatch
<1>32. CASE ExitReader
  <2>1. BoardType' BY <1>32, BoardOps DEF ExitReader
  <2>2. DriverType' BY <1>32, ModType DEF ExitReader
  <2>3. ThreadType' BY <1>32, ModType DEF ExitReader
  <2>4. HistoryType' BY <1>32, FaultType DEF ExitReader
  <2> QED BY <2>1, <2>2, <2>3, <2>4
<1>33. CASE ReaderDies
  <2>1. BoardType'
    BY <1>33, BoardOps DEF ReaderDies
  <2>2. DriverType'
    <3>1. events' \in Nat
      BY <1>33 DEF ReaderDies, Deliver
    <3> QED
      BY <1>33, <3>1 DEF ReaderDies
  <2>3. ThreadType' /\ HistoryType'
    BY <1>33 DEF ReaderDies, Fault, Deliver
  <2> QED
    BY <2>1, <2>2, <2>3
<1> QED
  BY <1>1, <1>2, <1>3, <1>4, <1>5, <1>6, <1>7, <1>8, <1>9, <1>10, <1>11, <1>12, <1>13,
     <1>14, <1>15, <1>16, <1>17, <1>18, <1>19, <1>20, <1>21, <1>22, <1>23, <1>24, <1>25,
     <1>26, <1>27, <1>28, <1>29, <1>30, <1>31, <1>32, <1>33, <1>34
     DEF Next, Control, User, Reader, Cycle

(* Every action keeps the latch, the filling bank and the closed bank in    *)
(* the order in which the board recorded them.                              *)
LEMMA BoardStep == ASSUME TypeOK, BoardInv, ControlInv, HoldingInv, Next PROVE BoardInv'
<1> USE BankReadoutAssumption
<1> USE DEF TypeOK, BoardInv, ControlInv, HoldingInv, BoardType, DriverType, ThreadType,
       HistoryType
<1>1. CASE Record
  BY <1>1 DEF Record, SinceReading
<1>2. CASE StartArm
  BY <1>2
     DEF StartArm, InitializeAndArm, NoClosedBank, CountersAfterReset, ResetTotals,
         ForgetLatch
<1>3. CASE StartArmFails
  BY <1>3
     DEF StartArmFails, Initialize, NoClosedBank, CountersAfterReset, InitializeAndArm,
         Fault, ResetTotals, ForgetLatch
<1>4. CASE StartSwap
  BY <1>4 DEF StartSwap, KeyArm, StatReg, Remember
<1>5. CASE StartSwapFails
  BY <1>5 DEF StartSwapFails, KeyArm, Fault, Remember
<1>34. CASE StartSwapUnanswered
  BY <1>34 DEF StartSwapUnanswered, KeyArm, Fault
<1>6. CASE StartReader
  BY <1>6 DEF StartReader
<1>7. CASE StartAbandoned
  BY <1>7 DEF StartAbandoned, Fault
<1>8. CASE StopRequest
  BY <1>8 DEF StopRequest
<1>9. CASE StopJoin
  BY <1>9 DEF StopJoin
<1>10. CASE UpdateSettings
  BY <1>10 DEF UpdateSettings
<1>11. CASE ClearHistograms
  BY <1>11 DEF ClearHistograms, KeyDisarm, NoClosedBank, Rearm
<1>12. CASE ClearHistogramsStopped
  BY <1>12 DEF ClearHistogramsStopped
<1>13. CASE LoopTop
  BY <1>13 DEF LoopTop, AtTop
<1>14. CASE NoticeStop
  BY <1>14 DEF NoticeStop
<1>15. CASE PollFails
  BY <1>15 DEF PollFails, Fault, Raise, Fails, LeaveCycle
<1>16. CASE Swap
  BY <1>16 DEF Swap, KeyArm, Remember, BankToRead
<1>17. CASE SwapUnanswered
  BY <1>17 DEF SwapUnanswered, KeyArm, Fault, BankToRead
<1>18. CASE SwapResent
  BY <1>18 DEF SwapResent, KeyArm, Remember
<1>19. CASE SwapFails
  BY <1>19 DEF SwapFails, KeyArm, Fault, Raise, Fails, LeaveCycle
<1>20. CASE ReadBank
  BY <1>20 DEF ReadBank, Closed, TakeBank, StatReg
<1>21. CASE ReadNothing
  BY <1>21 DEF ReadNothing, Fault, Closed, TakeBank, StatReg
<1>22. CASE ReadFails
  BY <1>22 DEF ReadFails, Fault, Raise, Fails, LeaveCycle
<1>23. CASE FinalDisarm
  BY <1>23 DEF FinalDisarm, KeyDisarm, NoClosedBank
<1>24. CASE FinalDisarmFails
  BY <1>24 DEF FinalDisarmFails, KeyDisarm, NoClosedBank, Fault, Raise, Fails, LeaveCycle
<1>25. CASE ApplyPending
  BY <1>25 DEF ApplyPending, Rearm, NoClosedBank
<1>26. CASE ApplyPendingFails
  BY <1>26
     DEF ApplyPendingFails, KeyDisarm, NoClosedBank, Rearm, Fault, Raise, Fails,
         LeaveCycle
<1>27. CASE Account
  BY <1>27 DEF Account, Delta, LatchKept
<1>28. CASE Decode
  BY <1>28 DEF Decode, LeaveCycle, Deliver
<1>29. CASE Retry
  BY <1>29 DEF Retry
<1>30. CASE Recover
  BY <1>30 DEF Recover, InitializeAndArm, NoClosedBank, CountersAfterReset, ForgetLatch
<1>31. CASE RecoverFails
  BY <1>31
     DEF RecoverFails, KeyDisarm, NoClosedBank, Initialize, CountersAfterReset,
         InitializeAndArm, Fault, ForgetLatch
<1>32. CASE ExitReader
  BY <1>32 DEF ExitReader, KeyDisarm, NoClosedBank, Fault
<1>33. CASE ReaderDies
  BY <1>33 DEF ReaderDies, Fault, Deliver, KeyDisarm, Rearm, NoClosedBank
<1> QED
  BY <1>1, <1>2, <1>3, <1>4, <1>5, <1>6, <1>7, <1>8, <1>9, <1>10, <1>11, <1>12, <1>13,
     <1>14, <1>15, <1>16, <1>17, <1>18, <1>19, <1>20, <1>21, <1>22, <1>23, <1>24, <1>25,
     <1>26, <1>27, <1>28, <1>29, <1>30, <1>31, <1>32, <1>33, <1>34
     DEF Next, Control, User, Reader, Cycle

(* Every action keeps the driver's notion of the armed bank and of a failed *)
(* board in agreement with where the reader stands.                         *)
LEMMA ControlStep == ASSUME TypeOK, BoardInv, ControlInv, Next PROVE ControlInv'
<1> USE BankReadoutAssumption
<1> USE DEF TypeOK, BoardInv, ControlInv, BoardType, DriverType, ThreadType, HistoryType
<1>1. CASE Record
  BY <1>1 DEF Record, SinceReading
<1>2. CASE StartArm
  BY <1>2
     DEF StartArm, InitializeAndArm, NoClosedBank, CountersAfterReset, ResetTotals,
         ForgetLatch
<1>3. CASE StartArmFails
  BY <1>3
     DEF StartArmFails, Initialize, NoClosedBank, CountersAfterReset, InitializeAndArm,
         Fault, ResetTotals, ForgetLatch
<1>4. CASE StartSwap
  BY <1>4 DEF StartSwap, KeyArm, StatReg, Remember
<1>5. CASE StartSwapFails
  BY <1>5 DEF StartSwapFails, KeyArm, Fault, Remember
<1>34. CASE StartSwapUnanswered
  BY <1>34 DEF StartSwapUnanswered, KeyArm, Fault
<1>6. CASE StartReader
  BY <1>6 DEF StartReader
<1>7. CASE StartAbandoned
  BY <1>7 DEF StartAbandoned, Fault
<1>8. CASE StopRequest
  BY <1>8 DEF StopRequest
<1>9. CASE StopJoin
  BY <1>9 DEF StopJoin
<1>10. CASE UpdateSettings
  BY <1>10 DEF UpdateSettings
<1>11. CASE ClearHistograms
  <2>1. CASE Rearm(sw_bank)
    BY <1>11, <2>1 DEF ClearHistograms, Rearm, NoClosedBank
  <2>2. CASE KeyDisarm
    BY <1>11, <2>2 DEF ClearHistograms, KeyDisarm, NoClosedBank
  <2>3. CASE UNCHANGED board
    BY <1>11, <2>3 DEF ClearHistograms
  <2> QED BY <1>11, <2>1, <2>2, <2>3 DEF ClearHistograms
<1>12. CASE ClearHistogramsStopped
  BY <1>12 DEF ClearHistogramsStopped
<1>13. CASE LoopTop
  BY <1>13 DEF LoopTop, AtTop
<1>14. CASE NoticeStop
  BY <1>14 DEF NoticeStop
<1>15. CASE PollFails
  BY <1>15, RaiseStep, LeaveCycleType DEF PollFails, Fault
<1>16. CASE Swap
  BY <1>16 DEF Swap, KeyArm, Remember, BankToRead
<1>17. CASE SwapUnanswered
  BY <1>17 DEF SwapUnanswered, KeyArm, Fault, BankToRead
<1>18. CASE SwapResent
  BY <1>18 DEF SwapResent, KeyArm, Remember
<1>19. CASE SwapFails
  BY <1>19, RaiseStep, LeaveCycleType DEF SwapFails, KeyArm, Fault
<1>20. CASE ReadBank
  BY <1>20 DEF ReadBank, Closed, TakeBank, StatReg
<1>21. CASE ReadNothing
  BY <1>21 DEF ReadNothing, Fault, Closed, TakeBank, StatReg
<1>22. CASE ReadFails
  BY <1>22, RaiseStep, LeaveCycleType DEF ReadFails, Fault
<1>23. CASE FinalDisarm
  BY <1>23 DEF FinalDisarm, KeyDisarm, NoClosedBank
<1>24. CASE FinalDisarmFails
  BY <1>24, RaiseStep, LeaveCycleType DEF FinalDisarmFails, KeyDisarm, NoClosedBank, Fault
<1>25. CASE ApplyPending
  BY <1>25 DEF ApplyPending, Rearm, NoClosedBank
<1>26. CASE ApplyPendingFails
  BY <1>26, RaiseStep, LeaveCycleType
     DEF ApplyPendingFails, KeyDisarm, NoClosedBank, Rearm, Fault
<1>27. CASE Account
  BY <1>27 DEF Account, Delta, LatchKept
<1>28. CASE Decode
  BY <1>28 DEF Decode, LeaveCycle, Deliver
<1>29. CASE Retry
  BY <1>29 DEF Retry
<1>30. CASE Recover
  BY <1>30 DEF Recover, InitializeAndArm, NoClosedBank, CountersAfterReset, ForgetLatch
<1>31. CASE RecoverFails
  BY <1>31
     DEF RecoverFails, KeyDisarm, NoClosedBank, Initialize, CountersAfterReset,
         InitializeAndArm, Fault, ForgetLatch
<1>32. CASE ExitReader
  BY <1>32 DEF ExitReader, KeyDisarm, NoClosedBank, Fault
<1>33. CASE ReaderDies
  BY <1>33 DEF ReaderDies, Fault, Deliver, KeyDisarm, Rearm, NoClosedBank
<1> QED
  BY <1>1, <1>2, <1>3, <1>4, <1>5, <1>6, <1>7, <1>8, <1>9, <1>10, <1>11, <1>12, <1>13,
     <1>14, <1>15, <1>16, <1>17, <1>18, <1>19, <1>20, <1>21, <1>22, <1>23, <1>24, <1>25,
     <1>26, <1>27, <1>28, <1>29, <1>30, <1>31, <1>32, <1>33, <1>34
     DEF Next, Control, User, Reader, Cycle

(* Every action keeps last_stat a true reading at most Rate hits old.       *)
LEMMA LatchStep ==
  ASSUME TypeOK, BoardInv, ControlInv, LatchInv, HoldingInv, Next
  PROVE  LatchInv'
<1> USE BankReadoutAssumption
<1> USE DEF TypeOK, BoardInv, ControlInv, LatchInv, HoldingInv, SinceReading, BoardType,
       DriverType, ThreadType, HistoryType
<1>1. CASE Record
  BY <1>1 DEF Record
<1>2. CASE StartArm
  BY <1>2
     DEF StartArm, InitializeAndArm, NoClosedBank, CountersAfterReset, ResetTotals,
         ForgetLatch
<1>3. CASE StartArmFails
  BY <1>3
     DEF StartArmFails, Initialize, NoClosedBank, CountersAfterReset, InitializeAndArm,
         Fault, ResetTotals, ForgetLatch
<1>4. CASE StartSwap
  BY <1>4 DEF StartSwap, KeyArm, StatReg, Remember
<1>5. CASE StartSwapFails
  BY <1>5 DEF StartSwapFails, KeyArm, Fault, Remember
<1>34. CASE StartSwapUnanswered
  BY <1>34 DEF StartSwapUnanswered, KeyArm, Fault
<1>6. CASE StartReader
  BY <1>6 DEF StartReader
<1>7. CASE StartAbandoned
  BY <1>7 DEF StartAbandoned, Fault
<1>8. CASE StopRequest
  BY <1>8 DEF StopRequest
<1>9. CASE StopJoin
  BY <1>9 DEF StopJoin
<1>10. CASE UpdateSettings
  BY <1>10 DEF UpdateSettings
<1>11. CASE ClearHistograms
  BY <1>11 DEF ClearHistograms, KeyDisarm, NoClosedBank, Rearm
<1>12. CASE ClearHistogramsStopped
  BY <1>12 DEF ClearHistogramsStopped
<1>13. CASE LoopTop
  BY <1>13 DEF LoopTop, AtTop
<1>14. CASE NoticeStop
  BY <1>14 DEF NoticeStop
<1>15. CASE PollFails
  BY <1>15, RaiseStep, LeaveCycleType DEF PollFails, Fault
<1>16. CASE Swap
  BY <1>16 DEF Swap, KeyArm, Remember, BankToRead
<1>17. CASE SwapUnanswered
  BY <1>17 DEF SwapUnanswered, KeyArm, Fault, BankToRead
<1>18. CASE SwapResent
  BY <1>18 DEF SwapResent, KeyArm, Remember
<1>19. CASE SwapFails
  BY <1>19, RaiseStep, LeaveCycleType DEF SwapFails, KeyArm, Fault
<1>20. CASE ReadBank
  BY <1>20 DEF ReadBank, Closed, TakeBank, StatReg
<1>21. CASE ReadNothing
  BY <1>21 DEF ReadNothing, Fault, Closed, TakeBank, StatReg
<1>22. CASE ReadFails
  BY <1>22, RaiseStep, LeaveCycleType DEF ReadFails, Fault
<1>23. CASE FinalDisarm
  BY <1>23 DEF FinalDisarm, KeyDisarm, NoClosedBank
<1>24. CASE FinalDisarmFails
  BY <1>24, RaiseStep, LeaveCycleType DEF FinalDisarmFails, KeyDisarm, NoClosedBank, Fault
<1>25. CASE ApplyPending
  BY <1>25 DEF ApplyPending, Rearm, NoClosedBank
<1>26. CASE ApplyPendingFails
  BY <1>26, RaiseStep, LeaveCycleType
     DEF ApplyPendingFails, KeyDisarm, NoClosedBank, Rearm, Fault
<1>27. CASE Account
  BY <1>27 DEF Account, Delta, LatchKept
<1>28. CASE Decode
  BY <1>28 DEF Decode, LeaveCycle, Deliver
<1>29. CASE Retry
  BY <1>29 DEF Retry
<1>30. CASE Recover
  BY <1>30 DEF Recover, InitializeAndArm, NoClosedBank, CountersAfterReset, ForgetLatch
<1>31. CASE RecoverFails
  BY <1>31
     DEF RecoverFails, KeyDisarm, NoClosedBank, Initialize, CountersAfterReset,
         InitializeAndArm, Fault, ForgetLatch
<1>32. CASE ExitReader
  BY <1>32 DEF ExitReader, KeyDisarm, NoClosedBank, Fault
<1>33. CASE ReaderDies
  BY <1>33 DEF ReaderDies, Fault, Deliver, KeyDisarm, Rearm, NoClosedBank
<1> QED
  BY <1>1, <1>2, <1>3, <1>4, <1>5, <1>6, <1>7, <1>8, <1>9, <1>10, <1>11, <1>12, <1>13,
     <1>14, <1>15, <1>16, <1>17, <1>18, <1>19, <1>20, <1>21, <1>22, <1>23, <1>24, <1>25,
     <1>26, <1>27, <1>28, <1>29, <1>30, <1>31, <1>32, <1>33, <1>34
     DEF Next, Control, User, Reader, Cycle

(* Every action keeps the bank that the reader may read next after all that *)
(* was written and counted.                                                 *)
LEMMA FreshStep ==
  ASSUME TypeOK, BoardInv, ControlInv, LatchInv, HoldingInv, FreshInv, Next
  PROVE  FreshInv'
<1> USE BankReadoutAssumption
<1> USE DEF TypeOK, BoardInv, ControlInv, LatchInv, HoldingInv, FreshInv, AfterAll, NextToRead,
       BoardType, DriverType, ThreadType, HistoryType
<1>1. CASE Record
  BY <1>1 DEF Record, SinceReading
<1>2. CASE StartArm
  BY <1>2
     DEF StartArm, InitializeAndArm, NoClosedBank, CountersAfterReset, ResetTotals,
         ForgetLatch
<1>3. CASE StartArmFails
  BY <1>3
     DEF StartArmFails, Initialize, NoClosedBank, CountersAfterReset, InitializeAndArm,
         Fault, ResetTotals, ForgetLatch
<1>4. CASE StartSwap
  BY <1>4 DEF StartSwap, KeyArm, StatReg, Remember
<1>5. CASE StartSwapFails
  BY <1>5 DEF StartSwapFails, KeyArm, Fault, Remember
<1>34. CASE StartSwapUnanswered
  BY <1>34 DEF StartSwapUnanswered, KeyArm, Fault
<1>6. CASE StartReader
  BY <1>6 DEF StartReader
<1>7. CASE StartAbandoned
  BY <1>7 DEF StartAbandoned, Fault
<1>8. CASE StopRequest
  BY <1>8 DEF StopRequest
<1>9. CASE StopJoin
  BY <1>9 DEF StopJoin
<1>10. CASE UpdateSettings
  BY <1>10 DEF UpdateSettings
<1>11. CASE ClearHistograms
  BY <1>11 DEF ClearHistograms, KeyDisarm, NoClosedBank, Rearm
<1>12. CASE ClearHistogramsStopped
  BY <1>12 DEF ClearHistogramsStopped
<1>13. CASE LoopTop
  BY <1>13 DEF LoopTop, AtTop
<1>14. CASE NoticeStop
  BY <1>14 DEF NoticeStop
<1>15. CASE PollFails
  BY <1>15 DEF PollFails, Fault, Raise, Fails, LeaveCycle
<1>16. CASE Swap
  BY <1>16 DEF Swap, KeyArm, Remember, BankToRead
<1>17. CASE SwapUnanswered
  BY <1>17 DEF SwapUnanswered, KeyArm, Fault, BankToRead
<1>18. CASE SwapResent
  BY <1>18 DEF SwapResent, KeyArm, Remember
<1>19. CASE SwapFails
  BY <1>19 DEF SwapFails, KeyArm, Fault, Raise, Fails, LeaveCycle
<1>20. CASE ReadBank
  BY <1>20 DEF ReadBank, Closed, TakeBank, StatReg
<1>21. CASE ReadNothing
  BY <1>21 DEF ReadNothing, Fault, Closed, TakeBank, StatReg
<1>22. CASE ReadFails
  BY <1>22 DEF ReadFails, Fault, Raise, Fails, LeaveCycle
<1>23. CASE FinalDisarm
  BY <1>23 DEF FinalDisarm, KeyDisarm, NoClosedBank
<1>24. CASE FinalDisarmFails
  BY <1>24 DEF FinalDisarmFails, KeyDisarm, NoClosedBank, Fault, Raise, Fails, LeaveCycle
<1>25. CASE ApplyPending
  BY <1>25 DEF ApplyPending, Rearm, NoClosedBank
<1>26. CASE ApplyPendingFails
  BY <1>26
     DEF ApplyPendingFails, KeyDisarm, NoClosedBank, Rearm, Fault, Raise, Fails,
         LeaveCycle
<1>27. CASE Account
  BY <1>27 DEF Account, Delta, LatchKept
<1>28. CASE Decode
  BY <1>28 DEF Decode, LeaveCycle, Deliver
<1>29. CASE Retry
  BY <1>29 DEF Retry
<1>30. CASE Recover
  BY <1>30 DEF Recover, InitializeAndArm, NoClosedBank, CountersAfterReset, ForgetLatch
<1>31. CASE RecoverFails
  BY <1>31
     DEF RecoverFails, KeyDisarm, NoClosedBank, Initialize, CountersAfterReset,
         InitializeAndArm, Fault, ForgetLatch
<1>32. CASE ExitReader
  BY <1>32 DEF ExitReader, KeyDisarm, NoClosedBank, Fault
<1>33. CASE ReaderDies
  BY <1>33 DEF ReaderDies, Fault, Deliver, KeyDisarm, Rearm, NoClosedBank
<1> QED
  BY <1>1, <1>2, <1>3, <1>4, <1>5, <1>6, <1>7, <1>8, <1>9, <1>10, <1>11, <1>12, <1>13,
     <1>14, <1>15, <1>16, <1>17, <1>18, <1>19, <1>20, <1>21, <1>22, <1>23, <1>24, <1>25,
     <1>26, <1>27, <1>28, <1>29, <1>30, <1>31, <1>32, <1>33, <1>34
     DEF Next, Control, User, Reader, Cycle

(* Every action keeps the bank in hand after all that was written, and      *)
(* before the decode after all that was counted.                            *)
LEMMA HoldingStep ==
  ASSUME TypeOK, BoardInv, ControlInv, LatchInv, HoldingInv, FreshInv, Next
  PROVE  HoldingInv'
<1> USE BankReadoutAssumption
<1> USE DEF TypeOK, BoardInv, ControlInv, LatchInv, HoldingInv, FreshInv, AfterAll, NextToRead,
       BoardType, DriverType, ThreadType, HistoryType
<1>1. CASE Record
  BY <1>1 DEF Record, SinceReading
<1>2. CASE StartArm
  BY <1>2
     DEF StartArm, InitializeAndArm, NoClosedBank, CountersAfterReset, ResetTotals,
         ForgetLatch
<1>3. CASE StartArmFails
  BY <1>3
     DEF StartArmFails, Initialize, NoClosedBank, CountersAfterReset, InitializeAndArm,
         Fault, ResetTotals, ForgetLatch
<1>4. CASE StartSwap
  BY <1>4 DEF StartSwap, KeyArm, StatReg, Remember
<1>5. CASE StartSwapFails
  BY <1>5 DEF StartSwapFails, KeyArm, Fault, Remember
<1>34. CASE StartSwapUnanswered
  BY <1>34 DEF StartSwapUnanswered, KeyArm, Fault
<1>6. CASE StartReader
  BY <1>6 DEF StartReader
<1>7. CASE StartAbandoned
  BY <1>7 DEF StartAbandoned, Fault
<1>8. CASE StopRequest
  BY <1>8 DEF StopRequest
<1>9. CASE StopJoin
  BY <1>9 DEF StopJoin
<1>10. CASE UpdateSettings
  BY <1>10 DEF UpdateSettings
<1>11. CASE ClearHistograms
  BY <1>11 DEF ClearHistograms, KeyDisarm, NoClosedBank, Rearm
<1>12. CASE ClearHistogramsStopped
  BY <1>12 DEF ClearHistogramsStopped
<1>13. CASE LoopTop
  BY <1>13 DEF LoopTop, AtTop
<1>14. CASE NoticeStop
  BY <1>14 DEF NoticeStop
<1>15. CASE PollFails
  BY <1>15 DEF PollFails, Fault, Raise, Fails, LeaveCycle
<1>16. CASE Swap
  BY <1>16 DEF Swap, KeyArm, Remember, BankToRead
<1>17. CASE SwapUnanswered
  BY <1>17 DEF SwapUnanswered, KeyArm, Fault, BankToRead
<1>18. CASE SwapResent
  BY <1>18 DEF SwapResent, KeyArm, Remember
<1>19. CASE SwapFails
  BY <1>19 DEF SwapFails, KeyArm, Fault, Raise, Fails, LeaveCycle
<1>20. CASE ReadBank
  BY <1>20 DEF ReadBank, Closed, TakeBank, StatReg
<1>21. CASE ReadNothing
  <2>1. /\ got_lo' = prev_hi /\ got_hi' = prev_hi /\ stat_true' = latch
        /\ stat' = (latch - zero_at) % Wrap
    BY <1>21 DEF ReadNothing, TakeBank, StatReg
  <2>2. UNCHANGED <<board, hits>>
    BY <1>21 DEF ReadNothing, TakeBank
  <2>3. prev_hi <= latch
    OBVIOUS
  <2> QED BY <2>1, <2>2, <2>3
<1>22. CASE ReadFails
  BY <1>22 DEF ReadFails, Fault, Raise, Fails, LeaveCycle
<1>23. CASE FinalDisarm
  BY <1>23 DEF FinalDisarm, KeyDisarm, NoClosedBank
<1>24. CASE FinalDisarmFails
  BY <1>24 DEF FinalDisarmFails, KeyDisarm, NoClosedBank, Fault, Raise, Fails, LeaveCycle
<1>25. CASE ApplyPending
  BY <1>25 DEF ApplyPending, Rearm, NoClosedBank
<1>26. CASE ApplyPendingFails
  BY <1>26
     DEF ApplyPendingFails, KeyDisarm, NoClosedBank, Rearm, Fault, Raise, Fails,
         LeaveCycle
<1>27. CASE Account
  BY <1>27 DEF Account, Delta, LatchKept
<1>28. CASE Decode
  BY <1>28 DEF Decode, LeaveCycle, Deliver
<1>29. CASE Retry
  BY <1>29 DEF Retry
<1>30. CASE Recover
  BY <1>30 DEF Recover, InitializeAndArm, NoClosedBank, CountersAfterReset, ForgetLatch
<1>31. CASE RecoverFails
  BY <1>31
     DEF RecoverFails, KeyDisarm, NoClosedBank, Initialize, CountersAfterReset,
         InitializeAndArm, Fault, ForgetLatch
<1>32. CASE ExitReader
  BY <1>32 DEF ExitReader, KeyDisarm, NoClosedBank, Fault
<1>33. CASE ReaderDies
  BY <1>33 DEF ReaderDies, Fault, Deliver, KeyDisarm, Rearm, NoClosedBank
<1> QED
  BY <1>1, <1>2, <1>3, <1>4, <1>5, <1>6, <1>7, <1>8, <1>9, <1>10, <1>11, <1>12, <1>13,
     <1>14, <1>15, <1>16, <1>17, <1>18, <1>19, <1>20, <1>21, <1>22, <1>23, <1>24, <1>25,
     <1>26, <1>27, <1>28, <1>29, <1>30, <1>31, <1>32, <1>33, <1>34
     DEF Next, Control, User, Reader, Cycle

(* Every action keeps the counted hits at or above the counted events;      *)
(* Account is the one that adds to them.                                    *)
LEMMA CoverStep ==
  ASSUME TypeOK, BoardInv, ControlInv, LatchInv, HoldingInv, CountsCover, Next
  PROVE  CountsCover'
<1> USE BankReadoutAssumption
<1> USE DEF TypeOK, BoardInv, ControlInv, LatchInv, HoldingInv, CountsCover, AfterAll, InHand,
       BoardType, DriverType, ThreadType, HistoryType
<1>1. CASE Record
  BY <1>1 DEF Record, SinceReading
<1>2. CASE StartArm
  BY <1>2
     DEF StartArm, InitializeAndArm, NoClosedBank, CountersAfterReset, ResetTotals,
         ForgetLatch
<1>3. CASE StartArmFails
  BY <1>3
     DEF StartArmFails, Initialize, NoClosedBank, CountersAfterReset, InitializeAndArm,
         Fault, ResetTotals, ForgetLatch
<1>4. CASE StartSwap
  BY <1>4 DEF StartSwap, KeyArm, StatReg, Remember
<1>5. CASE StartSwapFails
  BY <1>5 DEF StartSwapFails, KeyArm, Fault, Remember
<1>34. CASE StartSwapUnanswered
  BY <1>34 DEF StartSwapUnanswered, KeyArm, Fault
<1>6. CASE StartReader
  BY <1>6 DEF StartReader
<1>7. CASE StartAbandoned
  BY <1>7 DEF StartAbandoned, Fault
<1>8. CASE StopRequest
  BY <1>8 DEF StopRequest
<1>9. CASE StopJoin
  BY <1>9 DEF StopJoin
<1>10. CASE UpdateSettings
  BY <1>10 DEF UpdateSettings
<1>11. CASE ClearHistograms
  BY <1>11 DEF ClearHistograms, KeyDisarm, NoClosedBank, Rearm
<1>12. CASE ClearHistogramsStopped
  BY <1>12 DEF ClearHistogramsStopped
<1>13. CASE LoopTop
  BY <1>13 DEF LoopTop, AtTop
<1>14. CASE NoticeStop
  BY <1>14 DEF NoticeStop
<1>15. CASE PollFails
  BY <1>15 DEF PollFails, Fault, Raise, Fails, LeaveCycle
<1>16. CASE Swap
  BY <1>16 DEF Swap, KeyArm, Remember, BankToRead
<1>17. CASE SwapUnanswered
  BY <1>17 DEF SwapUnanswered, KeyArm, Fault, BankToRead
<1>18. CASE SwapResent
  BY <1>18 DEF SwapResent, KeyArm, Remember
<1>19. CASE SwapFails
  BY <1>19 DEF SwapFails, KeyArm, Fault, Raise, Fails, LeaveCycle
<1>20. CASE ReadBank
  BY <1>20 DEF ReadBank, Closed, TakeBank, StatReg
<1>21. CASE ReadNothing
  BY <1>21 DEF ReadNothing, Fault, Closed, TakeBank, StatReg
<1>22. CASE ReadFails
  BY <1>22 DEF ReadFails, Fault, Raise, Fails, LeaveCycle
<1>23. CASE FinalDisarm
  BY <1>23 DEF FinalDisarm, KeyDisarm, NoClosedBank
<1>24. CASE FinalDisarmFails
  BY <1>24 DEF FinalDisarmFails, KeyDisarm, NoClosedBank, Fault, Raise, Fails, LeaveCycle
<1>25. CASE ApplyPending
  BY <1>25 DEF ApplyPending, Rearm, NoClosedBank
<1>26. CASE ApplyPendingFails
  BY <1>26
     DEF ApplyPendingFails, KeyDisarm, NoClosedBank, Rearm, Fault, Raise, Fails,
         LeaveCycle
<1>27. CASE Account
  <2>1. CASE counted'
    <3>1. last_stat # NoStat /\ pc = "account" /\ ~failed
      BY <1>27, <2>1 DEF Account
    <3>2. /\ latch \in Int /\ last_true \in Int /\ zero_at \in Int
          /\ 0 <= latch - last_true /\ latch - last_true < Wrap
      BY <3>1 DEF SinceReading
    <3>3. stat = (latch - zero_at) % Wrap /\ last_stat = (last_true - zero_at) % Wrap
      BY <3>1
    <3>4. Delta = latch - last_true
      BY <3>2, <3>3, DeltaCounts
    <3>5. stat_total' = stat_total + (latch - last_true)
      BY <1>27, <2>1, <3>4 DEF Account
    <3>6. got_hi - got_lo <= latch - last_true
      BY <3>1, <3>2
    <3> QED BY <1>27, <3>1, <3>2, <3>5, <3>6 DEF Account
  <2>2. CASE ~counted'
    BY <1>27, <2>2 DEF Account
  <2> QED BY <2>1, <2>2
<1>28. CASE Decode
  BY <1>28 DEF Decode, LeaveCycle, Deliver
<1>29. CASE Retry
  BY <1>29 DEF Retry
<1>30. CASE Recover
  BY <1>30 DEF Recover, InitializeAndArm, NoClosedBank, CountersAfterReset, ForgetLatch
<1>31. CASE RecoverFails
  BY <1>31
     DEF RecoverFails, KeyDisarm, NoClosedBank, Initialize, CountersAfterReset,
         InitializeAndArm, Fault, ForgetLatch
<1>32. CASE ExitReader
  BY <1>32 DEF ExitReader, KeyDisarm, NoClosedBank, Fault
<1>33. CASE ReaderDies
  BY <1>33 DEF ReaderDies, Fault, Deliver, KeyDisarm, Rearm, NoClosedBank
<1> QED
  BY <1>1, <1>2, <1>3, <1>4, <1>5, <1>6, <1>7, <1>8, <1>9, <1>10, <1>11, <1>12, <1>13,
     <1>14, <1>15, <1>16, <1>17, <1>18, <1>19, <1>20, <1>21, <1>22, <1>23, <1>24, <1>25,
     <1>26, <1>27, <1>28, <1>29, <1>30, <1>31, <1>32, <1>33, <1>34
     DEF Next, Control, User, Reader, Cycle

(* The steps that a clean run does not have: a failing access, or clearing  *)
(* the histograms of the running board.                                     *)
Faulty == \/ StartArmFails \/ StartSwapUnanswered \/ StartSwapFails \/ StartAbandoned
          \/ ClearHistograms \/ PollFails \/ SwapUnanswered \/ SwapFails \/ ReadFails \/ FinalDisarmFails
          \/ ApplyPendingFails \/ RecoverFails \/ ReaderDies

(* Such a step leaves its mark on the run.                                  *)
LEMMA FaultyDisturbs ==
  ASSUME Faulty
  PROVE  disturbed' \intersect {"fault", "clear"} # {}
BY DEF Faulty, StartArmFails, StartSwapUnanswered, StartSwapFails, StartAbandoned, ClearHistograms, PollFails,
   SwapUnanswered, SwapFails, ReadFails, FinalDisarmFails, ApplyPendingFails, RecoverFails,
   ReaderDies, Fault

(* Every step of a clean run keeps the banks chained: a swap closes the bank *)
(* that began at the last reading, and new settings forget that reading.    *)
LEMMA ChainStep ==
  ASSUME TypeOK, BoardInv, ControlInv, LatchInv, HoldingInv, ChainInv, Next,
         disturbed' \intersect {"fault", "clear"} = {}
  PROVE  ChainInv'
<1> USE BankReadoutAssumption
<1> USE DEF TypeOK, BoardInv, ControlInv, LatchInv, HoldingInv, ChainInv, BoardType,
       DriverType, ThreadType, HistoryType, SinceReading
<1>1. CASE Record
  BY <1>1 DEF Record, SinceReading
<1>2. CASE StartArm
  BY <1>2 DEF StartArm, InitializeAndArm, NoClosedBank, CountersAfterReset, ResetTotals,
     ForgetLatch
<1>3. CASE StartSwap
  BY <1>3 DEF StartSwap, KeyArm, StatReg, Remember
<1>4. CASE StartReader
  BY <1>4 DEF StartReader
<1>5. CASE StopRequest
  BY <1>5 DEF StopRequest
<1>6. CASE StopJoin
  BY <1>6 DEF StopJoin
<1>7. CASE UpdateSettings
  BY <1>7 DEF UpdateSettings
<1>8. CASE ClearHistogramsStopped
  BY <1>8 DEF ClearHistogramsStopped
<1>9. CASE LoopTop
  BY <1>9 DEF LoopTop, AtTop
<1>10. CASE NoticeStop
  BY <1>10 DEF NoticeStop
<1>11. CASE Swap
  BY <1>11 DEF Swap, KeyArm, Remember, BankToRead
<1>12. CASE SwapResent
  BY <1>12 DEF SwapResent, KeyArm, Remember
<1>13. CASE ReadBank
  BY <1>13 DEF ReadBank, Closed, TakeBank, StatReg
<1>14. CASE ReadNothing
  BY <1>14 DEF ReadNothing, Fault, Closed, TakeBank, StatReg
<1>15. CASE FinalDisarm
  BY <1>15 DEF FinalDisarm, KeyDisarm, NoClosedBank
<1>16. CASE ApplyPending
  BY <1>16 DEF ApplyPending, Rearm, NoClosedBank
<1>17. CASE Account
  BY <1>17 DEF Account, Delta, LatchKept
<1>18. CASE Decode
  BY <1>18 DEF Decode, LeaveCycle, Deliver
<1>19. CASE Retry
  BY <1>19 DEF Retry
<1>20. CASE Recover
  BY <1>20 DEF Recover, InitializeAndArm, NoClosedBank, CountersAfterReset, ForgetLatch
<1>21. CASE ExitReader
  BY <1>21 DEF ExitReader, KeyDisarm, NoClosedBank, Fault
<1>22. CASE Faulty
  BY <1>22, FaultyDisturbs
<1> QED
  BY <1>1, <1>2, <1>3, <1>4, <1>5, <1>6, <1>7, <1>8, <1>9, <1>10, <1>11, <1>12, <1>13,
     <1>14, <1>15, <1>16, <1>17, <1>18, <1>19, <1>20, <1>21, <1>22
     DEF Next, Control, User, Reader, Cycle, Faulty

(* Every step of a clean run keeps the books balanced: the hits that Account *)
(* adds are those of the bank in hand, which Decode then enters.            *)
LEMMA ExactStep ==
  ASSUME TypeOK, BoardInv, ControlInv, LatchInv, HoldingInv, ChainInv, IntegrityExact,
         Next,
         disturbed' \intersect {"fault", "clear"} = {}
  PROVE  IntegrityExact'
<1> USE DEF IntegrityExact, InHand
<1>1. CASE Account
  <2>1. /\ pc = "account" /\ pc' = "decode" /\ got_lo' = got_lo /\ got_hi' = got_hi
        /\ events_counted' = events_counted /\ disturbed' = disturbed
    BY <1>1 DEF Account
  <2>2. CASE counted'
    <3>1. last_stat # NoStat /\ got_lo = last_true /\ got_hi = latch
      BY <1>1, <2>1, <2>2 DEF Account, ChainInv
    <3>2. /\ latch \in Int /\ last_true \in Int /\ zero_at \in Int
          /\ 0 <= latch - last_true /\ latch - last_true < Wrap
      BY <3>1, BankReadoutAssumption
         DEF SinceReading, TypeOK, BoardType, HistoryType, BoardInv, LatchInv, ChainInv
    <3>3. stat = (latch - zero_at) % Wrap /\ last_stat = (last_true - zero_at) % Wrap
      BY <2>1, <3>1 DEF LatchInv, HoldingInv, ChainInv
    <3>4. stat_total' = stat_total + (got_hi - got_lo)
      BY <1>1, <2>2, <3>1, <3>2, <3>3, DeltaCounts DEF Account
    <3> QED BY <2>1, <2>2, <3>4 DEF TypeOK, DriverType, ThreadType
  <2>3. CASE ~counted'
    <3>1. stat_total' = stat_total BY <1>1, <2>3 DEF Account
    <3> QED BY <2>1, <2>3, <3>1 DEF TypeOK, DriverType
  <2> QED BY <2>2, <2>3
<1>2. CASE Decode
  BY <1>2 DEF Decode, Deliver, LeaveCycle, TypeOK, DriverType, ThreadType
<1>3. CASE StartArm
  BY <1>3 DEF StartArm, InitializeAndArm, NoClosedBank, CountersAfterReset, ResetTotals,
     ForgetLatch
<1>4. CASE Record \/ StartSwap \/ StartReader \/ StopRequest \/ StopJoin
  BY <1>4 DEF Record, SinceReading, StartSwap, KeyArm, StatReg, Remember, StartReader,
     StopRequest, StopJoin
<1>5. CASE UpdateSettings \/ ClearHistogramsStopped
  BY <1>5 DEF UpdateSettings, ClearHistogramsStopped
<1>6. CASE LoopTop \/ NoticeStop \/ Swap \/ SwapResent \/ ReadBank \/ ReadNothing
  BY <1>6 DEF LoopTop, AtTop, NoticeStop, Swap, KeyArm, Remember, BankToRead, SwapResent,
     ReadBank, Closed, TakeBank, StatReg, ReadNothing, Fault
<1>7. CASE FinalDisarm \/ ApplyPending \/ Retry \/ Recover \/ ExitReader
  BY <1>7 DEF FinalDisarm, KeyDisarm, NoClosedBank, ApplyPending, Rearm, Retry, Recover,
     InitializeAndArm, CountersAfterReset, ForgetLatch, ExitReader, Fault
<1>8. CASE Faulty
  BY <1>8, FaultyDisturbs
<1> QED
  BY <1>1, <1>2, <1>3, <1>4, <1>5, <1>6, <1>7, <1>8
     DEF Next, Control, User, Reader, Cycle, Faulty

(* Every step of an undisturbed run keeps the events handed on at the       *)
(* distance from the baseline to the last reading.                          *)
LEMMA ProgressStep ==
  ASSUME TypeOK, BoardInv, ControlInv, LatchInv, HoldingInv, ChainInv, ProgressInv, Next,
         disturbed' \subseteq {"clear_armed"}
  PROVE  ProgressInv'
<1> USE DEF TypeOK, BoardInv, ControlInv, LatchInv, HoldingInv, ChainInv, BoardType,
       DriverType, ThreadType, HistoryType, ProgressInv
<1>1. CASE Record
  BY <1>1 DEF Record, SinceReading
<1>2. CASE StartArm
  BY <1>2 DEF StartArm, InitializeAndArm, NoClosedBank, CountersAfterReset, ResetTotals,
     ForgetLatch
<1>3. CASE StartSwap
  BY <1>3, BankReadoutAssumption DEF StartSwap, KeyArm, StatReg, Remember
<1>4. CASE StartReader \/ StopRequest \/ StopJoin
  BY <1>4 DEF StartReader, StopRequest, StopJoin
<1>5. CASE UpdateSettings \/ ClearHistogramsStopped
  BY <1>5 DEF UpdateSettings, ClearHistogramsStopped
<1>6. CASE LoopTop \/ NoticeStop \/ Retry \/ Recover
  BY <1>6 DEF LoopTop, AtTop, NoticeStop, Retry, Recover, InitializeAndArm, NoClosedBank,
     CountersAfterReset, ForgetLatch
<1>7. CASE Swap \/ SwapResent
  BY <1>7 DEF Swap, KeyArm, Remember, BankToRead, SwapResent
<1>8. CASE ReadBank \/ ReadNothing
  BY <1>8 DEF ReadBank, Closed, TakeBank, StatReg, ReadNothing, Fault
<1>9. CASE FinalDisarm
  BY <1>9 DEF FinalDisarm, KeyDisarm, NoClosedBank
<1>10. CASE ApplyPending
  BY <1>10 DEF ApplyPending, Rearm, NoClosedBank
<1>11. CASE Account
  BY <1>11, BankReadoutAssumption DEF Account, LatchKept
<1>12. CASE Decode
  BY <1>12 DEF Decode, LeaveCycle, Deliver
<1>13. CASE ExitReader
  BY <1>13 DEF ExitReader, KeyDisarm, NoClosedBank, Fault
<1>14. CASE Faulty
  BY <1>14, FaultyDisturbs
<1> QED
  BY <1>1, <1>2, <1>3, <1>4, <1>5, <1>6, <1>7, <1>8, <1>9, <1>10, <1>11, <1>12, <1>13,
     <1>14
     DEF Next, Control, User, Reader, Cycle, Faulty

(* The reader of an undisturbed run leaves with everything handed on, and   *)
(* nothing more happens to the run.                                         *)
LEMMA CompleteStep ==
  ASSUME TypeOK, BoardInv, ControlInv, LatchInv, HoldingInv, ChainInv, ProgressInv,
         CompleteRun, Next,
         disturbed' \subseteq {"clear_armed"}
  PROVE  CompleteRun'
<1> USE DEF ProgressInv, ChainInv, CompleteRun
<1>1. CASE ExitReader
  BY <1>1 DEF ExitReader, KeyDisarm, NoClosedBank, Fault, TypeOK, HistoryType, BoardType
<1>2. CASE Record \/ StopRequest \/ UpdateSettings \/ ClearHistogramsStopped
  BY <1>2 DEF Record, SinceReading, StopRequest, UpdateSettings, ClearHistogramsStopped
<1>3. CASE StartArm \/ StartSwap \/ StartReader \/ StopJoin
  BY <1>3 DEF StartArm, InitializeAndArm, NoClosedBank, CountersAfterReset, ResetTotals,
     ForgetLatch, StartSwap, KeyArm, StatReg, Remember, StartReader, StopJoin
<1>4. CASE LoopTop \/ NoticeStop \/ Swap \/ SwapResent \/ ReadBank \/ ReadNothing
  BY <1>4 DEF LoopTop, AtTop, NoticeStop, Swap, KeyArm, Remember, BankToRead, SwapResent,
     ReadBank, Closed, TakeBank, StatReg, ReadNothing, Fault
<1>5. CASE FinalDisarm \/ ApplyPending \/ Account \/ Decode \/ Retry \/ Recover
  BY <1>5 DEF FinalDisarm, KeyDisarm, NoClosedBank, ApplyPending, Rearm, Account, Delta,
     LatchKept, Decode, LeaveCycle, Deliver, Retry, Recover, InitializeAndArm,
     CountersAfterReset, ForgetLatch
<1>6. CASE Faulty
  BY <1>6, FaultyDisturbs
<1> QED
  BY <1>1, <1>2, <1>3, <1>4, <1>5, <1>6
     DEF Next, Control, User, Reader, Cycle, Faulty

(* The invariant holds before the first start().                            *)
LEMMA InitInv == Init => IInv
<1> SUFFICES ASSUME Init PROVE IInv
  OBVIOUS
<1> USE BankReadoutAssumption DEF Init
<1>1. BoardType BY DEF BoardType
<1>2. DriverType
  <2>1. pending \in BOOLEAN /\ failed \in BOOLEAN BY Zenon
  <2> QED BY <2>1 DEF DriverType
<1>3. ThreadType
  <2>1. /\ running \in BOOLEAN /\ go \in BOOLEAN
        /\ applied \in BOOLEAN /\ counted \in BOOLEAN
    BY Zenon
  <2> QED BY <2>1 DEF ThreadType
<1>4. HistoryType BY DEF HistoryType
<1>5. BoardInv BY DEF BoardInv
<1>6. ControlInv BY DEF ControlInv
<1>7. LatchInv BY DEF LatchInv, SinceReading
<1>8. FreshInv BY DEF FreshInv
<1>9. HoldingInv BY DEF HoldingInv
<1>10. CountsCover BY DEF CountsCover, InHand
<1>11. ChainInv BY DEF ChainInv
<1>12. IntegrityExact BY DEF IntegrityExact, InHand
<1>13. ProgressInv /\ CompleteRun BY DEF ProgressInv, CompleteRun
<1> QED BY <1>1, <1>2, <1>3, <1>4, <1>5, <1>6, <1>7, <1>8, <1>9, <1>10, <1>11, <1>12,
           <1>13 DEF IInv, TypeOK

(* The invariant is inductive.                                              *)
LEMMA StepInv == IInv /\ [Next]_vars => IInv'
<1> SUFFICES ASSUME IInv, [Next]_vars PROVE IInv'
  OBVIOUS
<1>1. CASE Next
  <2>1. /\ TypeOK' /\ BoardInv' /\ ControlInv' /\ LatchInv' /\ FreshInv' /\ HoldingInv'
        /\ CountsCover'
    BY <1>1, TypeStep, BoardStep, ControlStep, LatchStep, FreshStep, HoldingStep,
       CoverStep DEF IInv
  <2>2. ChainInv'
    <3>1. CASE disturbed' \intersect {"fault", "clear"} = {}
      BY <1>1, <3>1, ChainStep DEF IInv
    <3> QED BY <3>1 DEF ChainInv
  <2>3. IntegrityExact'
    <3>1. CASE disturbed' \intersect {"fault", "clear"} = {}
      BY <1>1, <3>1, ExactStep DEF IInv
    <3> QED BY <3>1 DEF IntegrityExact
  <2>4. ProgressInv' /\ CompleteRun'
    <3>1. CASE disturbed' \subseteq {"clear_armed"}
      BY <1>1, <3>1, ProgressStep, CompleteStep DEF IInv
    <3> QED BY <3>1 DEF ProgressInv, CompleteRun
  <2> QED BY <2>1, <2>2, <2>3, <2>4 DEF IInv
<1>2. CASE UNCHANGED vars
  <2> USE <1>2 DEF vars
  <2>1. TypeOK' BY DEF IInv, TypeOK, BoardType, DriverType, ThreadType, HistoryType
  <2>2. BoardInv' /\ ControlInv' BY DEF IInv, BoardInv, ControlInv
  <2>3. LatchInv' BY DEF IInv, LatchInv, SinceReading
  <2>4. FreshInv' BY DEF IInv, FreshInv, NextToRead, AfterAll
  <2>5. HoldingInv' BY DEF IInv, HoldingInv, AfterAll
  <2>6. CountsCover' BY DEF IInv, CountsCover, InHand
  <2>7. ChainInv' BY DEF IInv, ChainInv
  <2>8. IntegrityExact' BY DEF IInv, IntegrityExact, InHand
  <2>9. ProgressInv' /\ CompleteRun' BY DEF IInv, ProgressInv, CompleteRun
  <2> QED BY <2>1, <2>2, <2>3, <2>4, <2>5, <2>6, <2>7, <2>8, <2>9 DEF IInv
<1> QED BY <1>1, <1>2

(* The inductive invariant holds in every reachable state.                  *)
THEOREM Invariance == Spec => []IInv
<1> QED BY InitInv, StepInv, PTL DEF Spec

(* Every variable of the driver, the board and the threads stays in its     *)
(* domain; the error count never passes _FAILED_AFTER.                      *)
THEOREM TypeCorrect == Spec => []TypeOK
<1>1. IInv => TypeOK BY DEF IInv
<1> QED BY <1>1, Invariance, PTL

(* Whatever fails, is cleared or is reconfigured, the events entered in the *)
(* check never outnumber the hits the counters gave for the same banks.     *)
THEOREM CountsNeverExceeded == Spec => []CountsCover
<1>1. IInv => CountsCover BY DEF IInv
<1> QED BY <1>1, Invariance, PTL

(* The integrity check of a run balances to the last hit, unless an access  *)
(* failed or the histograms of the running board were cleared: new settings *)
(* do not unbalance it.                                                     *)
THEOREM IntegrityBalances == Spec => []IntegrityExact
<1>1. IInv => IntegrityExact BY DEF IInv
<1> QED BY <1>1, Invariance, PTL

(* A run in which nothing happened but readout has handed on every hit that *)
(* the board recorded from the baseline to the last swap, and leaves the    *)
(* board disarmed.                                                          *)
THEOREM NothingLost == Spec => []CompleteRun
<1>1. IInv => CompleteRun BY DEF IInv
<1> QED BY <1>1, Invariance, PTL

(* Handing on the bank in hand is a delivery of EventStream, or changes     *)
(* nothing of it when the bank is empty.                                    *)
LEMMA DeliverMaps ==
  ASSUME TypeOK, BoardInv, HoldingInv, pc = "decode", Deliver, UNCHANGED <<hits, run_base>>
  PROVE  [Stream!Next]_(Stream!vars)
<1> USE DEF HoldingInv, TypeOK, BoardType, DriverType, ThreadType, HistoryType, BoardInv
<1>1. CASE got_lo < got_hi
  <2>1. Stream!Deliver(got_lo, got_hi) BY <1>1 DEF Deliver, Stream!Deliver
  <2>2. got_lo \in 0..hits /\ got_hi \in 0..hits BY <2>1 DEF Stream!Deliver
  <2> QED BY <2>1, <2>2 DEF Stream!Next
<1>2. CASE ~(got_lo < got_hi)
  <2>1. written_to' = written_to /\ events' = events BY <1>2 DEF Deliver
  <2> QED BY <2>1 DEF Stream!vars
<1> QED BY <1>1, <1>2

(* Every step of the readout is one of EventStream, or leaves it alone.     *)
LEMMA StepMaps == ASSUME IInv, [Next]_vars PROVE [Stream!Next]_(Stream!vars)
<1> USE DEF IInv
<1>1. CASE Record
  BY <1>1 DEF Record, Stream!Record, Stream!Next
<1>2. CASE StartArm
  BY <1>2 DEF StartArm, ResetTotals, Stream!Begin, Stream!Next
<1>3. CASE StartArmFails
  BY <1>3 DEF StartArmFails, ResetTotals, Stream!Begin, Stream!Next, Stream!vars
<1>4. CASE StartSwap
  BY <1>4 DEF StartSwap, KeyArm, ControlInv, BoardInv, TypeOK, BoardType, HistoryType,
     Stream!Baseline, Stream!Next
<1>5. CASE Decode
  BY <1>5, DeliverMaps DEF Decode
<1>6. CASE ReaderDies
  <2>1. CASE UNCHANGED <<events, written_to>>
    BY <1>6, <2>1 DEF ReaderDies, Stream!vars
  <2>2. CASE pc = "decode" /\ Deliver
    BY <1>6, <2>2, DeliverMaps DEF ReaderDies
  <2> QED BY <1>6, <2>1, <2>2 DEF ReaderDies
<1>7. CASE StartSwapUnanswered \/ StartSwapFails \/ StartReader \/ StartAbandoned
          \/ StopRequest \/ StopJoin \/ User
  BY <1>7 DEF User, StartSwapUnanswered, StartSwapFails, StartReader, StartAbandoned, StopRequest, StopJoin,
     UpdateSettings, ClearHistograms, ClearHistogramsStopped, Stream!vars
<1>8. CASE LoopTop \/ NoticeStop \/ PollFails \/ Retry \/ Recover \/ RecoverFails
          \/ ExitReader
  BY <1>8
     DEF LoopTop, NoticeStop, PollFails, Retry, Recover, RecoverFails, ExitReader,
         Stream!vars
<1>9. CASE Swap \/ SwapUnanswered \/ SwapResent \/ SwapFails \/ ReadBank \/ ReadNothing
          \/ ReadFails
  BY <1>9 DEF Swap, SwapUnanswered, SwapResent, SwapFails, ReadBank, ReadNothing, TakeBank,
     ReadFails, Stream!vars
<1>10. CASE FinalDisarm \/ FinalDisarmFails \/ ApplyPending \/ ApplyPendingFails \/ Account
  BY <1>10
     DEF FinalDisarm, FinalDisarmFails, ApplyPending, ApplyPendingFails, Account,
         Stream!vars
<1>11. CASE UNCHANGED vars
  BY <1>11 DEF vars, Stream!vars
<1> QED BY <1>1, <1>2, <1>3, <1>4, <1>5, <1>6, <1>7, <1>8, <1>9, <1>10, <1>11
        DEF Next, Control, Reader, Cycle

(* The readout implements EventStream: every hit reaches the spectra and    *)
(* the file at most once, in order, and only in the run it was recorded in. *)
THEOREM ImplementsStream == Spec => StreamSpec
<1>1. Init => Stream!Init BY DEF Init, Stream!Init
<1> QED BY <1>1, Invariance, StepMaps, PTL DEF Spec, StreamSpec, Stream!Spec
=============================================================================
