---------------------------- MODULE BankReadout ----------------------------
(***************************************************************************)
(* Double-bank readout of one SIS3316 board: DAQ._start_board, the reader  *)
(* thread (_reader, _cycle, _apply_pending, _recover), DAQ.stop, and the   *)
(* user calls that touch the board during a run (update_settings,          *)
(* clear_onboard_histograms), against the board itself.                    *)
(*                                                                         *)
(* One channel is modelled: every quantity below is a numpy array in the   *)
(* code, updated element by element.  Hits are numbered in the order the   *)
(* board records them, so a bank is an interval lo < hit <= hi and a       *)
(* duplicated or skipped hit is visible as overlapping or distant          *)
(* intervals.                                                              *)
(*                                                                         *)
(* b.lock: a step that the code performs with the lock held is one action, *)
(* or leaves pc in Locked, where the user calls are blocked.               *)
(***************************************************************************)
EXTENDS Integers

CONSTANTS
  Wrap,          \* the statistic counters count modulo this (2^32)
  Rate,          \* at most this many hits from one counter reading to the next
  FailedAfter,   \* _FAILED_AFTER
  MaxHits,       \* bound: hits the board records in a behaviour
  MaxRuns,       \* bound: calls of start()
  MaxFaults,     \* bound: accesses that raise an exception
  PowerOn,       \* values the counters may have before the first start()
  HostFaults,    \* may the reader meet an exception other than Sis3316Error?
  UserClears     \* does a user call clear_onboard_histograms()?

ASSUME BankReadoutAssumption ==
  /\ Wrap \in Nat /\ Rate \in Nat /\ Rate < Wrap
  /\ FailedAfter \in Nat \ {0}
  /\ MaxHits \in Nat /\ MaxRuns \in Nat /\ MaxFaults \in Nat
  /\ PowerOn \subseteq 0..(Wrap - 1)
  /\ HostFaults \in BOOLEAN /\ UserClears \in BOOLEAN

VARIABLES
  \* the board
  armed,        \* bank being filled, 0 when disarmed
  start,        \* it holds the hits start+1 .. hits
  prev,         \* bank whose closed address is valid, 0 when none is
  prev_lo, prev_hi,  \* it holds the hits prev_lo+1 .. prev_hi
  hits,         \* hits recorded so far
  latch,        \* value of hits at the last latch of the statistic counters
  zero_at,      \* value of hits at which the counters read 0
  \* class _Board and the driver
  sw_bank,      \* bank2_armed + 1
  pending,      \* pending_settings is not None
  failed,
  consecutive,  \* consecutive_errors
  last_stat,    \* NoStat for None
  stat_total,   \* stat_totals[:, hit]
  events,
  events_counted,
  \* the threads
  running,      \* DAQ._running
  pc,           \* where the reader, or the thread calling start(), stands
  go,           \* the reader's local "running"
  read_bank,    \* the local read_bank2 + 1
  got_lo, got_hi,  \* hits of the bank in the local "banks"
  stat,         \* the local "stat"
  applied,      \* the local settings_applied
  counted,      \* the local "counted"
  \* history
  runs, faults, \* calls of start() and exceptions so far
  disturbed,    \* what happened to the run besides reading banks
  last_true,    \* value of hits that last_stat stands for
  stat_true,    \* value of hits that stat stands for
  run_base,     \* value of hits at the baseline swap of the run; before it, at its start
  written_to    \* the last hit handed to the spectra and the writer

board   == <<armed, start, prev, prev_lo, prev_hi, latch, zero_at>>
totals  == <<stat_total, events, events_counted>>
inhand  == <<read_bank, got_lo, got_hi, stat, stat_true, applied, counted>>
control == <<running, runs, run_base>>
vars == <<board, hits, sw_bank, pending, failed, consecutive, last_stat, last_true,
          totals, control, pc, go, inhand, disturbed, faults, written_to>>

Banks == 1..2
Other(b) == 3 - b
NoStat == -1

Disturbances == {"fault", "clear", "clear_armed", "settings"}

(* pc values at which the lock is held across steps *)
Locked == {"starting", "resend", "addr", "disarm", "apply"}

Reading == {"top", "wait", "sleep", "recover", "resend", "addr", "disarm", "apply",
            "account", "decode", "exit"}

-----------------------------------------------------------------------------
(* The board.  Arming the other bank of an armed board is a swap: it closes *)
(* the filling bank and latches the counters.  Any other arm only restarts  *)
(* the bank it names, and a disarmed board has no valid closed bank.        *)

StatReg == (latch - zero_at) % Wrap

NoClosedBank == prev' = 0 /\ prev_lo' = 0 /\ prev_hi' = 0

KeyArm(b) ==
  /\ armed' = b /\ start' = hits
  /\ IF armed = Other(b)
       THEN prev' = armed /\ prev_lo' = start /\ prev_hi' = hits /\ latch' = hits
       ELSE UNCHANGED <<prev, prev_lo, prev_hi, latch>>
  /\ UNCHANGED zero_at

KeyDisarm == armed' = 0 /\ start' = 0 /\ NoClosedBank /\ UNCHANGED <<latch, zero_at>>

(* KEY_DISARM followed by the arm of bank b *)
Rearm(b) == armed' = b /\ start' = hits /\ NoClosedBank /\ UNCHANGED <<latch, zero_at>>

(* initialize(): KEY_DISARM, KEY_RESET and the configuration.  Whether the  *)
(* reset restarts the counters is left open by the code.                    *)
CountersAfterReset == \/ UNCHANGED <<latch, zero_at>>
                      \/ latch' = hits /\ zero_at' = hits

Initialize == armed' = 0 /\ start' = 0 /\ NoClosedBank /\ CountersAfterReset

(* initialize() and then the arm of bank b *)
InitializeAndArm(b) == armed' = b /\ start' = hits /\ NoClosedBank /\ CountersAfterReset

(* value of hits at the reading that the next delta will be taken from *)
SinceReading == IF last_stat = NoStat THEN latch ELSE last_true

Record ==
  /\ armed # 0
  /\ hits < MaxHits
  /\ hits - SinceReading < Rate
  /\ hits' = hits + 1
  /\ UNCHANGED <<board, sw_bank, pending, failed, consecutive,
                 last_stat, last_true, totals, control, pc, go, inhand, disturbed, faults, written_to>>

-----------------------------------------------------------------------------
(* DAQ.start and DAQ.stop *)

(* an access that is not answered, or answered with an error *)
Fault == /\ faults < MaxFaults /\ faults' = faults + 1
         /\ disturbed' = disturbed \union {"fault"}

(* mutant: the old latch survives a re-initialisation *)
KeepLatch == UNCHANGED <<last_stat, last_true>>

(* last_stat = None *)
ForgetLatch == last_stat' = NoStat /\ last_true' = hits

ResetTotals == /\ stat_total' = 0 /\ events' = 0 /\ events_counted' = 0 /\ ForgetLatch
               /\ run_base' = hits

(* _start_board up to the arm of bank 1 *)
StartArm ==
  /\ pc = "idle" /\ runs < MaxRuns
  /\ runs' = runs + 1
  /\ disturbed' = {}
  /\ InitializeAndArm(1)
  /\ ResetTotals
  /\ sw_bank' = 1
  /\ pc' = "starting"
  /\ UNCHANGED <<hits, pending, failed, consecutive, running, go, inhand, faults, written_to>>

(* _start_board raises before the swap: start() fails, _running stays clear *)
StartArmFails ==
  /\ pc = "idle" /\ runs < MaxRuns
  /\ Fault
  /\ runs' = runs + 1
  /\ \/ UNCHANGED <<board, totals, last_stat, last_true, run_base>>
     \/ Initialize /\ UNCHANGED <<totals, last_stat, last_true, run_base>>
     \/ Initialize /\ ResetTotals
     \/ InitializeAndArm(1) /\ ResetTotals
  /\ UNCHANGED <<hits, sw_bank, pending, failed, consecutive, running, pc, go, inhand,
                 written_to>>

(* mutant: arm() does not remember the bank *)
RememberNothing(b) == UNCHANGED sw_bank

(* arm() keeps the bank it armed *)
Remember(b) == sw_bank' = b

(* its acknowledge is lost: _exchange sends the request again *)
StartSwapUnanswered ==
  /\ pc = "starting"
  /\ Fault
  /\ KeyArm(Other(sw_bank))
  /\ UNCHANGED <<hits, sw_bank, pending, failed, consecutive, last_stat, last_true, totals,
                 control, pc, go, inhand, written_to>>

(* _start_board's swap, whose counters become the run's baseline *)
StartSwap ==
  /\ pc = "starting"
  /\ KeyArm(Other(sw_bank))
  /\ Remember(Other(sw_bank))
  /\ last_stat' = StatReg' /\ last_true' = latch'
  /\ run_base' = latch'
  /\ failed' = FALSE /\ consecutive' = 0
  /\ pc' = "started"
  /\ UNCHANGED <<hits, pending, totals, running, runs, go, inhand, disturbed, faults, written_to>>

StartSwapFails ==
  /\ pc = "starting"
  /\ Fault
  /\ \/ UNCHANGED <<board, sw_bank>>
     \/ KeyArm(Other(sw_bank)) /\ UNCHANGED sw_bank
     \/ KeyArm(Other(sw_bank)) /\ Remember(Other(sw_bank))
  /\ pc' = "idle"
  /\ UNCHANGED <<hits, pending, failed, consecutive, last_stat, last_true, totals, control,
                 go, inhand, written_to>>

(* start() sets _running and starts the reader, once all boards are started *)
StartReader ==
  /\ pc = "started"
  /\ running' = TRUE
  /\ pc' = "top"
  /\ UNCHANGED <<board, hits, sw_bank, pending, failed, consecutive, last_stat, last_true,
                 totals, runs, run_base, go, inhand, disturbed, faults, written_to>>

(* start() raises for another board and leaves this one armed *)
StartAbandoned ==
  /\ pc = "started"
  /\ Fault
  /\ pc' = "idle"
  /\ UNCHANGED <<board, hits, sw_bank, pending, failed, consecutive, last_stat, last_true,
                 totals, control, go, inhand, written_to>>

StopRequest ==
  /\ running
  /\ running' = FALSE
  /\ UNCHANGED <<board, hits, sw_bank, pending, failed, consecutive, last_stat, last_true,
                 totals, runs, run_base, pc, go, inhand, disturbed, faults, written_to>>

(* b.thread.join() returns, the reader having ended *)
StopJoin ==
  /\ ~running /\ pc \in {"done", "dead"}
  /\ pc' = "idle"
  /\ UNCHANGED <<board, hits, sw_bank, pending, failed, consecutive, last_stat, last_true,
                 totals, control, go, inhand, disturbed, faults, written_to>>

-----------------------------------------------------------------------------
(* The user's calls during a run; both take b.lock *)

UpdateSettings ==
  /\ running /\ pc \notin Locked
  /\ pending' = TRUE
  /\ UNCHANGED <<board, hits, sw_bank, failed, consecutive, last_stat, last_true, totals,
                 control, pc, go, inhand, disturbed, faults, written_to>>

(* clear_onboard_histograms while running: disarm, zero the memory, re-arm  *)
(* the bank that was filling; an error on the way leaves the board disarmed *)
(* or untouched.                                                            *)
ClearHistograms ==
  /\ UserClears /\ running /\ pc \notin Locked
  /\ \/ Rearm(sw_bank) /\ disturbed' = disturbed \union {"clear"} /\ UNCHANGED faults
     \/ /\ faults < MaxFaults /\ faults' = faults + 1
        /\ KeyDisarm \/ UNCHANGED board
        /\ disturbed' = disturbed \union {"clear", "fault"}
  /\ UNCHANGED <<hits, sw_bank, pending, failed, consecutive, last_stat, last_true, totals,
                 control, pc, go, inhand, written_to>>

(* the same call when the run is stopped or stopping: no disarm *)
ClearHistogramsStopped ==
  /\ UserClears /\ ~running /\ pc \notin Locked
  /\ disturbed' = IF armed = 0 THEN disturbed ELSE disturbed \union {"clear_armed"}
  /\ UNCHANGED <<board, hits, sw_bank, pending, failed, consecutive, last_stat, last_true,
                 totals, control, pc, go, inhand, faults, written_to>>

-----------------------------------------------------------------------------
(* The reader: _reader, its except clause, and _cycle *)

Fails(n) == n >= FailedAfter

(* the locals of _cycle are gone *)
LeaveCycle ==
  /\ read_bank' = 1 /\ got_lo' = 0 /\ got_hi' = 0 /\ stat' = 0 /\ stat_true' = 0
  /\ applied' = FALSE /\ counted' = FALSE
  /\ pc' = IF go THEN "top" ELSE "exit"

(* except Sis3316Error in _reader *)
Raise ==
  /\ consecutive' = consecutive + 1
  /\ failed' = (failed \/ Fails(consecutive + 1))
  /\ LeaveCycle

(* mutant: a failed board's reader does not look at _running *)
AtTopDeaf == IF failed THEN "sleep" ELSE "wait"

(* mutant: a failed board is read on, never re-initialised *)
AtTopNoRecovery == IF failed /\ ~running THEN "exit" ELSE "wait"

AtTop == IF ~failed THEN "wait" ELSE IF running THEN "sleep" ELSE "exit"

LoopTop ==
  /\ pc = "top"
  /\ go' = running
  /\ pc' = AtTop
  /\ UNCHANGED <<board, hits, sw_bank, pending, failed, consecutive, last_stat, last_true,
                 totals, control, inhand, disturbed, faults, written_to>>

(* the waiting loop notices that _running was cleared *)
NoticeStop ==
  /\ pc = "wait" /\ go /\ ~running
  /\ go' = FALSE
  /\ UNCHANGED <<board, hits, sw_bank, pending, failed, consecutive, last_stat, last_true,
                 totals, control, pc, inhand, disturbed, faults, written_to>>

(* the waiting loop's acquisition_status() raises *)
PollFails ==
  /\ pc = "wait" /\ go
  /\ Fault
  /\ Raise
  /\ UNCHANGED <<board, hits, sw_bank, pending, last_stat, last_true, totals, control, go, written_to>>

(* mutant: swap() returns the bank it arms *)
ArmedBank == Other(sw_bank)

(* what swap() returns: the bank that was filling *)
BankToRead == sw_bank

(* _cycle takes the lock and swap() arms the other bank *)
Swap ==
  /\ pc = "wait"
  /\ read_bank' = BankToRead
  /\ KeyArm(Other(sw_bank))
  /\ Remember(Other(sw_bank))
  /\ pc' = "addr"
  /\ UNCHANGED <<hits, pending, failed, consecutive, last_stat, last_true, totals, control,
                 go, got_lo, got_hi, stat, stat_true, applied, counted, disturbed, faults, written_to>>

(* the acknowledge of the arm is lost: _exchange sends the request again *)
SwapUnanswered ==
  /\ pc = "wait"
  /\ Fault
  /\ read_bank' = BankToRead
  /\ KeyArm(Other(sw_bank))
  /\ pc' = "resend"
  /\ UNCHANGED <<hits, sw_bank, pending, failed, consecutive, last_stat, last_true, totals,
                 control, go, got_lo, got_hi, stat, stat_true, applied, counted, written_to>>

SwapResent ==
  /\ pc = "resend"
  /\ KeyArm(Other(sw_bank))
  /\ Remember(Other(sw_bank))
  /\ pc' = "addr"
  /\ UNCHANGED <<hits, pending, failed, consecutive, last_stat, last_true, totals, control,
                 go, inhand, disturbed, faults, written_to>>

(* swap() raises, after the board armed the other bank or before *)
SwapFails ==
  /\ pc \in {"wait", "resend"}
  /\ Fault
  /\ KeyArm(Other(sw_bank)) \/ UNCHANGED board
  /\ Raise
  /\ UNCHANGED <<hits, sw_bank, pending, last_stat, last_true, totals, control, go,
                 written_to>>

(* bit 24 of the previous-bank address registers names the bank to read *)
Closed == prev = read_bank

(* previous_bank_addresses, statistic_counters and read_bank; a bank whose  *)
(* closed address is not valid in time is read as 0 words                   *)
TakeBank(n) ==
  /\ pc = "addr"
  /\ got_lo' = prev_hi - n /\ got_hi' = prev_hi
  /\ stat' = StatReg /\ stat_true' = latch
  /\ applied' = FALSE
  /\ pc' = IF ~go THEN "disarm" ELSE IF pending THEN "apply" ELSE "account"
  /\ UNCHANGED <<board, hits, sw_bank, pending, failed, consecutive, last_stat, last_true,
                 totals, control, go, read_bank, counted, written_to>>

ReadBank == /\ Closed
            /\ TakeBank(prev_hi - prev_lo)
            /\ UNCHANGED <<disturbed, faults>>

ReadNothing == /\ TakeBank(0)
               /\ \/ ~Closed /\ UNCHANGED <<disturbed, faults>>
                  \/ Closed /\ Fault

ReadFails ==
  /\ pc = "addr"
  /\ Fault
  /\ Raise
  /\ UNCHANGED <<board, hits, sw_bank, pending, last_stat, last_true, totals, control, go, written_to>>

(* the disarm of the final cycle *)
FinalDisarm ==
  /\ pc = "disarm"
  /\ KeyDisarm
  /\ pc' = "account"
  /\ UNCHANGED <<hits, sw_bank, pending, failed, consecutive, last_stat, last_true, totals,
                 control, go, inhand, disturbed, faults, written_to>>

FinalDisarmFails ==
  /\ pc = "disarm"
  /\ Fault
  /\ KeyDisarm \/ UNCHANGED board
  /\ Raise
  /\ UNCHANGED <<hits, sw_bank, pending, last_stat, last_true, totals, control, go,
                 written_to>>

(* _apply_pending: disarm, configure, arm the bank armed at the swap *)
ApplyPending ==
  /\ pc = "apply"
  /\ pending' = FALSE
  /\ Rearm(sw_bank)
  /\ applied' = TRUE
  /\ disturbed' = disturbed \union {"settings"}
  /\ pc' = "account"
  /\ UNCHANGED <<hits, sw_bank, failed, consecutive, last_stat, last_true, totals, control,
                 go, read_bank, got_lo, got_hi, stat, stat_true, counted, faults, written_to>>

ApplyPendingFails ==
  /\ pc = "apply"
  /\ Fault
  /\ pending' = FALSE
  /\ Rearm(sw_bank) \/ KeyDisarm \/ UNCHANGED board
  /\ Raise
  /\ UNCHANGED <<hits, sw_bank, last_stat, last_true, totals, control, go, written_to>>

(* The rest of _cycle runs without the lock.  A delta of Wrap \div 2 or    *)
(* more is taken for a restarted counter and not counted.                  *)
Delta == (stat - last_stat) % Wrap

(* mutant: the bank cut short by new settings is counted like the others *)
LatchAlwaysKept == stat

LatchKept == IF applied THEN NoStat ELSE stat

Account ==
  /\ pc = "account"
  /\ counted' = (last_stat # NoStat /\ Delta < Wrap \div 2)
  /\ stat_total' = IF counted' THEN stat_total + Delta ELSE stat_total
  /\ last_stat' = LatchKept
  /\ last_true' = stat_true
  /\ pc' = "decode"
  /\ UNCHANGED <<board, hits, sw_bank, pending, failed, consecutive, events, events_counted,
                 control, go, read_bank, got_lo, got_hi, stat, stat_true, applied,
                 disturbed, faults, written_to>>

(* decode_bank, the spectra and writer.append of every hit of the bank *)
Deliver == /\ events' = events + (got_hi - got_lo)
           /\ written_to' = IF got_lo < got_hi THEN got_hi ELSE written_to

Decode ==
  /\ pc = "decode"
  /\ Deliver
  /\ events_counted' = IF counted THEN events_counted + (got_hi - got_lo) ELSE events_counted
  /\ consecutive' = 0
  /\ LeaveCycle
  /\ UNCHANGED <<board, hits, sw_bank, pending, failed, last_stat, last_true, stat_total,
                 control, go, disturbed, faults>>

(* _recover: its sleep and the look at _running *)
Retry ==
  /\ pc = "sleep"
  /\ pc' = IF running THEN "recover" ELSE "top"
  /\ UNCHANGED <<board, hits, sw_bank, pending, failed, consecutive, last_stat, last_true,
                 totals, control, go, inhand, disturbed, faults, written_to>>

Recover ==
  /\ pc = "recover"
  /\ InitializeAndArm(1)
  /\ sw_bank' = 1
  /\ ForgetLatch
  /\ failed' = FALSE /\ consecutive' = 0
  /\ pc' = "top"
  /\ UNCHANGED <<hits, pending, totals, control, go, inhand, disturbed, faults, written_to>>

RecoverFails ==
  /\ pc = "recover"
  /\ Fault
  /\ \/ UNCHANGED <<board, last_stat, last_true>>
     \/ KeyDisarm /\ UNCHANGED <<last_stat, last_true>>
     \/ Initialize /\ UNCHANGED <<last_stat, last_true>>
     \/ Initialize /\ ForgetLatch
     \/ InitializeAndArm(1) /\ ForgetLatch
  /\ pc' = "top"
  /\ UNCHANGED <<hits, sw_bank, pending, failed, consecutive, totals, control, go, inhand,
                 written_to>>

(* the disarm after the loop; its error is ignored *)
ExitReader ==
  /\ pc = "exit"
  /\ \/ KeyDisarm /\ UNCHANGED <<disturbed, faults>>
     \/ UNCHANGED board /\ Fault
  /\ pc' = "done"
  /\ UNCHANGED <<hits, sw_bank, pending, failed, consecutive, last_stat, last_true, totals,
                 control, go, inhand, written_to>>

(* An exception that is no Sis3316Error (OSError of sendto or of the file)  *)
(* leaves _reader: the thread ends.  A request sent again may have reached  *)
(* the board before, and while decoding the bank may be handed over or not. *)
ReaderDies ==
  /\ HostFaults
  /\ \/ /\ pc \in {"wait", "resend", "addr", "decode"}
        /\ UNCHANGED <<board, pending, events, written_to>>
     \/ pc = "decode" /\ Deliver /\ UNCHANGED <<board, pending>>
     \/ /\ pc \in {"disarm", "exit"}
        /\ KeyDisarm \/ UNCHANGED board
        /\ UNCHANGED <<pending, events, written_to>>
     \/ /\ pc = "apply" /\ pending' = FALSE
        /\ Rearm(sw_bank) \/ KeyDisarm \/ UNCHANGED board
        /\ UNCHANGED <<events, written_to>>
  /\ Fault
  /\ pc' = "dead"
  /\ UNCHANGED <<hits, sw_bank, failed, consecutive, last_stat, last_true, stat_total,
                 events_counted, control, go, inhand>>

-----------------------------------------------------------------------------
Init ==
  /\ armed = 0 /\ prev = 0 /\ hits = 0 /\ latch = 0
  /\ start = 0 /\ prev_lo = 0 /\ prev_hi = 0
  /\ \E c \in PowerOn : zero_at = 0 - c
  /\ sw_bank = 1 /\ pending = FALSE /\ failed = FALSE /\ consecutive = 0
  /\ last_stat = NoStat /\ last_true = 0
  /\ stat_total = 0 /\ events = 0 /\ events_counted = 0
  /\ running = FALSE /\ runs = 0 /\ run_base = 0
  /\ pc = "idle" /\ go = FALSE
  /\ read_bank = 1 /\ got_lo = 0 /\ got_hi = 0 /\ stat = 0 /\ stat_true = 0
  /\ applied = FALSE /\ counted = FALSE
  /\ disturbed = {} /\ faults = 0 /\ written_to = 0

Control == StartArm \/ StartArmFails \/ StartSwapUnanswered \/ StartSwap
           \/ StartSwapFails \/ StartReader \/ StartAbandoned \/ StopRequest \/ StopJoin

User == UpdateSettings \/ ClearHistograms \/ ClearHistogramsStopped

Cycle == Swap \/ SwapUnanswered \/ SwapResent \/ SwapFails
         \/ ReadBank \/ ReadNothing \/ ReadFails
         \/ FinalDisarm \/ FinalDisarmFails \/ ApplyPending \/ ApplyPendingFails
         \/ Account \/ Decode

Reader == LoopTop \/ NoticeStop \/ PollFails \/ Cycle
          \/ Retry \/ Recover \/ RecoverFails \/ ExitReader \/ ReaderDies

Next == Record \/ Control \/ User \/ Reader

Spec == Init /\ [][Next]_vars

(* The scheduler runs the reader's thread and the one in stop(). *)
Fairness == WF_vars(Reader) /\ WF_vars(StopJoin)

FairSpec == Spec /\ Fairness

-----------------------------------------------------------------------------
(* What the readout promises *)

BoardType ==
  /\ armed \in 0..2 /\ prev \in 0..2
  /\ start \in Nat /\ prev_lo \in Nat /\ prev_hi \in Nat
  /\ hits \in Nat /\ latch \in Nat /\ zero_at \in Int

DriverType ==
  /\ sw_bank \in Banks /\ pending \in BOOLEAN
  /\ failed \in BOOLEAN /\ consecutive \in 0..FailedAfter
  /\ last_stat \in {NoStat} \union 0..(Wrap - 1)
  /\ stat_total \in Nat /\ events \in Nat /\ events_counted \in Nat

ThreadType ==
  /\ running \in BOOLEAN /\ go \in BOOLEAN
  /\ pc \in Reading \union {"idle", "starting", "started", "done", "dead"}
  /\ read_bank \in Banks /\ got_lo \in Nat /\ got_hi \in Nat
  /\ stat \in 0..(Wrap - 1)
  /\ applied \in BOOLEAN /\ counted \in BOOLEAN

HistoryType ==
  /\ runs \in Nat /\ faults \in Nat
  /\ run_base \in Nat /\ written_to \in Nat /\ last_true \in Nat /\ stat_true \in Nat
  /\ disturbed \subseteq Disturbances

TypeOK == BoardType /\ DriverType /\ ThreadType /\ HistoryType

(* The bank whose counters are added to the totals and whose events are not *)
InHand == IF pc = "decode" /\ counted THEN got_hi - got_lo ELSE 0

(* Whatever fails, is cleared or is reconfigured, the driver never counts   *)
(* more events for the check than hits the board counted in the same banks: *)
(* a negative loss would hide a real one (scalers.integrity).               *)
CountsCover == events_counted + InHand <= stat_total

(* The invariant by which CountsCover and StreamSpec are proved.  A bank    *)
(* that the reader can still read holds hits after every hit handed on and  *)
(* after the last counter reading, and last_stat is that reading.           *)
BoardInv ==
  /\ latch <= hits /\ run_base <= hits /\ written_to <= latch
  /\ pc \in Reading \union {"started"} \/ (pc = "starting" /\ armed = 2) => run_base <= latch
  /\ armed = 0 => prev = 0
  /\ armed # 0 => latch <= start /\ start <= hits
  /\ prev # 0 => prev = Other(armed)
  /\ prev_lo <= prev_hi /\ prev_hi <= latch

Holding == {"disarm", "apply", "account"}

ControlInv ==
  /\ failed \/ consecutive < FailedAfter
  /\ pc \in {"sleep", "recover"} => failed
  /\ pc \in Holding \union {"started", "wait", "resend", "addr", "decode"} => ~failed
  /\ pc = "starting" => /\ armed # 0 /\ sw_bank = 1 /\ prev # 2 /\ last_stat = NoStat
                        /\ events = 0 /\ events_counted = 0 /\ stat_total = 0
                        /\ armed = 1 \/ "fault" \in disturbed
  /\ pc = "resend" => read_bank = sw_bank
  /\ pc = "addr" => armed = sw_bank /\ read_bank = Other(sw_bank)
  /\ pc \in Holding \union {"started", "decode"} => armed \in {0, sw_bank}

LatchInv ==
  /\ hits - SinceReading <= Rate
  /\ last_stat # NoStat =>
       /\ last_true <= latch
       /\ pc \in Reading \union {"started"} /\ ~failed => last_stat = (last_true - zero_at) % Wrap

NextToRead == IF pc = "addr" THEN read_bank ELSE sw_bank

AfterAll(n) == /\ written_to <= n /\ run_base <= n
               /\ last_stat # NoStat => last_true <= n

FreshInv == pc \in Reading \union {"started"} /\ prev = NextToRead => AfterAll(prev_lo)

HoldingInv ==
  pc \in Holding \union {"decode"} =>
    /\ got_lo <= got_hi /\ got_hi <= latch
    /\ got_lo < got_hi => written_to <= got_lo /\ run_base <= got_lo
    /\ pc # "decode" => /\ stat_true = latch /\ stat = (latch - zero_at) % Wrap
                        /\ got_lo < got_hi => AfterAll(got_lo)

(* Without a lost access and without clearing histograms of a running       *)
(* board, the integrity check balances exactly, settings changes included.  *)
IntegrityExact ==
  disturbed \intersect {"fault", "clear"} = {} => stat_total = events_counted + InHand

(* An undisturbed run writes every hit from its baseline swap to its last   *)
(* swap, and leaves the board disarmed.                                     *)
CompleteRun ==
  disturbed \subseteq {"clear_armed"} /\ pc = "done"
    => events = latch - run_base /\ armed = 0

(* The invariant by which those two are proved.  As long as nothing is lost *)
(* or cleared, the banks chain: the one being filled begins where the last  *)
(* reading was taken, and the one in hand ends where the next one was.      *)
ChainInv ==
  disturbed \intersect {"fault", "clear"} = {} /\ pc \in Reading \union {"started"} =>
    /\ ~failed /\ pc # "resend"
    /\ pc \in {"started", "top", "wait", "addr", "apply"} => armed = sw_bank
    /\ pc \in {"account", "decode"} /\ go =>
         armed = sw_bank /\ (~applied => start = latch)
    /\ pc = "addr" => start = latch /\ prev = read_bank /\ prev_hi = latch
    /\ pc = "apply" => go
    /\ pc = "disarm" => ~go
    /\ pc = "decode" /\ applied => last_stat = NoStat
    /\ last_stat # NoStat =>
         /\ pc \in {"started", "top", "wait"} => start = latch /\ last_true = latch
         /\ pc = "addr" => prev_lo = last_true
         /\ pc \in Holding => got_lo = last_true /\ got_hi = latch
         /\ pc \in {"decode", "exit"} => last_true = latch

(* An undisturbed run has handed on all hits up to its last reading.        *)
ProgressInv ==
  disturbed \subseteq {"clear_armed"} =>
    /\ pc \in Reading \union {"started"} => last_stat # NoStat
    /\ pc \in Holding \union {"decode"} => ~applied
    /\ pc = "decode" => events + (got_hi - got_lo) = last_true - run_base
    /\ pc \in {"started", "top", "wait", "addr", "exit"} \union Holding =>
         events = last_true - run_base

IInv == /\ TypeOK /\ BoardInv /\ ControlInv /\ LatchInv /\ FreshInv /\ HoldingInv /\ CountsCover
        /\ ChainInv /\ IntegrityExact /\ ProgressInv /\ CompleteRun

(* Every hit is handed on at most once, in the order it was recorded, and   *)
(* in the run that it belongs to.                                           *)
Stream == INSTANCE EventStream WITH recorded <- hits, written <- written_to,
                                    base <- run_base, count <- events
StreamSpec == Stream!Spec

(* stop() ends the reader, whatever state the board is in. *)
StopTerminates == pc \in Reading /\ ~running ~> pc = "idle"

(* The reader of a failed board comes back to reading, or was stopped. *)
Resumes == failed /\ running /\ pc # "dead" ~> ~failed \/ ~running \/ pc = "dead"

(* scalers.py:72: "every bank is read and counted alike". *)
CountedAlike == "fault" \notin disturbed => stat_total = events_counted + InHand
=============================================================================
