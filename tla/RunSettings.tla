----------------------------- MODULE RunSettings ----------------------------
(***************************************************************************)
(* The settings of a board from update_settings to the board's registers   *)
(* and the run file: DAQ.update_settings (called by any thread), start,    *)
(* stop, _apply_pending and _recover in the reader, and the rows that      *)
(* Hdf5RunWriter.append adds.                                              *)
(*                                                                         *)
(* One start() or stop() runs at a time, and a start finds the old reader  *)
(* gone; RunControl has the others.  An update may come between any two of *)
(* their steps.                                                            *)
(*                                                                         *)
(* Settings are told apart by the order in which update_settings accepted  *)
(* them (ver) and by the values that are fixed for a run: len stands for   *)
(* the raw length, the MAW length and the clock.                           *)
(***************************************************************************)
EXTENDS Integers

CONSTANTS
  Lengths,      \* values of the length settings
  MaxUpdates,   \* bound: calls of update_settings
  MaxRuns,      \* bound: calls of start()
  MaxRows,      \* bound: events written
  MaxFaults,    \* bound: errors of the board
  OneCaller     \* may, or does, one thread make all calls of start, stop, update_settings?

ASSUME RunSettingsAssumption ==
  /\ Lengths # {} /\ OneCaller \subseteq BOOLEAN
  /\ MaxUpdates \in Nat /\ MaxRuns \in Nat /\ MaxRows \in Nat /\ MaxFaults \in Nat

VARIABLES
  settings,     \* b.settings
  pending,      \* b.pending_settings
  configured,   \* what the board is configured to
  running,      \* DAQ._running
  control,      \* where start() or stop() is: "idle", "add", "go", "join"
  reader,       \* "off", "wait", "cycle", "decode", "failed"
  final,        \* the reader's local "running" is False
  bank_len,     \* length of the waveforms in the bank in hand
  caller,       \* the thread in update_settings: what it does next
  wanted,       \* its argument
  one_caller,   \* one thread makes all calls; fixed
  file_len,     \* meta["raw_samples"] of the run file
  rows, waves,  \* rows of the file's datasets "events" and "waveforms"
  torn,         \* history: an append to the file failed after its events
  \* history
  updates, runs, faults,
  newest,       \* the settings last accepted
  leftover,     \* start() found pending settings of an earlier run
  raced,        \* update_settings stored when start() or stop() had come between
  dropped,      \* an error cost accepted settings
  overran       \* a join of stop() timed out with the reader alive

user == <<caller, wanted, one_caller, updates, newest>>
file == <<file_len, rows, waves, torn>>
notes == <<leftover, raced, dropped, overran>>
vars == <<settings, pending, configured, running, control, reader, final, bank_len, user, file,
          runs, faults, notes>>

Settings == [ver : 0..MaxUpdates, len : Lengths]
None == [ver |-> -1, len |-> 0]

-----------------------------------------------------------------------------
(* update_settings: the look at _running, and then the store with the lock *)

(* mutant: a change of length is not refused *)
AnyChange(s) == TRUE

(* raw length, MAW length and clock cannot change while running *)
Allowed(s) == s.len = settings.len

(* another call of the one caller has returned *)
CallerFree == one_caller => caller = "idle" /\ control = "idle"

CheckUpdate ==
  /\ CallerFree /\ caller = "idle" /\ updates < MaxUpdates
  /\ \E len \in Lengths :
       LET s == [ver |-> updates + 1, len |-> len] IN
         /\ running => Allowed(s)
         /\ wanted' = s
  /\ updates' = updates + 1
  /\ caller' = IF running THEN "store_pending" ELSE "store"
  /\ UNCHANGED <<settings, pending, configured, running, control, reader, final, bank_len,
                 one_caller, newest, file, runs, faults, notes>>

(* ValueError *)
RefuseUpdate ==
  /\ CallerFree /\ caller = "idle" /\ updates < MaxUpdates
  /\ running
  /\ \E len \in Lengths : ~Allowed([ver |-> updates + 1, len |-> len])
  /\ updates' = updates + 1
  /\ UNCHANGED <<settings, pending, configured, running, control, reader, final, bank_len,
                 caller, wanted, one_caller, newest, file, runs, faults, notes>>

(* start() has read the settings and not yet set _running *)
Starting == control \in {"add", "go"}

Accept == caller' = "idle" /\ newest' = wanted /\ UNCHANGED <<wanted, one_caller, updates>>

StorePending ==
  /\ caller = "store_pending"
  /\ pending' = wanted
  /\ raced' = (raced \/ ~running \/ ~Allowed(wanted))
  /\ Accept
  /\ UNCHANGED <<settings, configured, running, control, reader, final, bank_len, file, runs,
                 faults, leftover, dropped, overran>>

Store ==
  /\ caller = "store"
  /\ settings' = wanted
  /\ raced' = (raced \/ running \/ Starting \/ reader # "off")
  /\ Accept
  /\ UNCHANGED <<pending, configured, running, control, reader, final, bank_len, file, runs,
                 faults, leftover, dropped, overran>>

-----------------------------------------------------------------------------
(* start and stop *)

NewFile == rows' = 0 /\ waves' = 0 /\ torn' = FALSE

(* Sis3316.configure writes the settings to the board *)
Configure(s) == configured' = s

(* _start_board initializes the board, or raises *)
StartBoard ==
  /\ CallerFree /\ control = "idle" /\ ~running /\ reader = "off" /\ runs < MaxRuns
  /\ runs' = runs + 1
  /\ \/ Configure(settings) /\ control' = "add" /\ UNCHANGED faults
     \/ /\ faults < MaxFaults /\ faults' = faults + 1
        /\ configured' \in {configured, settings} /\ UNCHANGED control
  /\ leftover' = (leftover \/ pending # None)
  /\ UNCHANGED <<settings, pending, running, reader, final, bank_len, user, file, raced,
                 dropped, overran>>

(* Hdf5RunWriter.add_board, which reads the settings again *)
AddBoard ==
  /\ control = "add" /\ control' = "go"
  /\ file_len' = settings.len /\ NewFile
  /\ UNCHANGED <<settings, pending, configured, running, reader, final, bank_len, user, runs,
                 faults, notes>>

StartReader ==
  /\ control = "go" /\ control' = "idle"
  /\ running' = TRUE
  /\ reader' = "wait" /\ final' = FALSE
  /\ UNCHANGED <<settings, pending, configured, bank_len, user, file, runs, faults, notes>>

Stop ==
  /\ CallerFree /\ control = "idle" /\ running
  /\ running' = FALSE /\ control' = "join"
  /\ UNCHANGED <<settings, pending, configured, reader, final, bank_len, user, file, runs,
                 faults, notes>>

(* b.thread.join(timeout=10) returns when the reader has ended, or without *)
JoinEnds ==
  /\ control = "join" /\ control' = "idle"
  /\ overran' = (overran \/ reader # "off")
  /\ UNCHANGED <<settings, pending, configured, running, reader, final, bank_len, user, file,
                 runs, faults, leftover, raced, dropped>>

-----------------------------------------------------------------------------
(* The reader *)

(* mutant: the settings stay pending *)
KeepPending == pending' = pending

TakePending == pending' = None

(* mutant: the settings go to the board only *)
ForBoardOnly == UNCHANGED settings

InForce == settings' = pending

(* disarm, configure, arm; each may raise a Sis3316Error, or an OSError that *)
(* ends the thread with _running still set                                  *)
ApplyPending ==
  /\ TakePending
  /\ \/ /\ Configure(pending) /\ InForce
        /\ reader' = "decode"
        /\ UNCHANGED <<faults, dropped>>
     \/ /\ faults < MaxFaults /\ faults' = faults + 1
        /\ \/ configured' \in {configured, pending} /\ UNCHANGED settings /\ dropped' = TRUE
           \/ Configure(pending) /\ InForce /\ UNCHANGED dropped
        /\ reader' \in {"wait", "failed", "off"}

(* the end of the wait for the interval *)
LeaveWait ==
  /\ reader = "wait"
  /\ final' = ~running
  /\ reader' = "cycle"
  /\ UNCHANGED <<settings, pending, configured, running, control, bank_len, user, file, runs,
                 faults, notes>>

(* _cycle up to the release of the lock; a bank's waveforms are as long as  *)
(* the board was configured to when it recorded them                        *)
ReadBank ==
  /\ reader = "cycle"
  /\ bank_len' = configured.len
  /\ IF pending # None /\ ~final
       THEN ApplyPending
       ELSE reader' = "decode" /\ UNCHANGED <<configured, settings, pending, faults, dropped>>
  /\ UNCHANGED <<running, control, final, user, file, runs, leftover, raced, overran>>

Append(n) ==
  /\ rows' = rows + n
  /\ waves' = IF bank_len = file_len THEN waves + n ELSE waves

(* decode_bank and writer.append *)
WriteBank ==
  /\ reader = "decode"
  /\ \E n \in 0..(MaxRows - rows) : Append(n)
  /\ reader' = IF final THEN "off" ELSE "wait"
  /\ UNCHANGED <<settings, pending, configured, running, control, final, bank_len, user,
                 file_len, torn, runs, faults, notes>>

(* writer.append raises after some of its rows, which ends the thread; or a  *)
(* failure of another board's reader left the file without "waveforms"      *)
WriteFails ==
  /\ reader = "decode" /\ faults < MaxFaults
  /\ faults' = faults + 1
  /\ \E n \in 0..(MaxRows - rows) : \E m \in 0..n : rows' = rows + n /\ waves' = waves + m
  /\ torn' = TRUE
  /\ reader' \in IF final THEN {"off"} ELSE {"wait", "off"}
  /\ UNCHANGED <<settings, pending, configured, running, control, final, bank_len, user,
                 file_len, runs, notes>>

(* failed cycles until the board counts as failed, or the last one *)
CycleFails ==
  /\ reader = "cycle" /\ faults < MaxFaults
  /\ faults' = faults + 1
  /\ reader' \in IF final THEN {"off"} ELSE {"wait", "failed"}
  /\ UNCHANGED <<settings, pending, configured, running, control, final, bank_len, user, file,
                 runs, notes>>

(* an exception that is no Sis3316Error ends the thread with _running set *)
ReaderDies ==
  /\ reader \in {"wait", "cycle"} /\ faults < MaxFaults
  /\ faults' = faults + 1
  /\ reader' = "off"
  /\ UNCHANGED <<settings, pending, configured, running, control, final, bank_len, user, file,
                 runs, notes>>

(* mutant: the board comes back with the settings that are still pending *)
ConfigureNewest == Configure(IF pending # None THEN pending ELSE settings)

ConfigureAgain == Configure(settings)

(* _recover, which initializes the board, or the end of the run *)
Recover ==
  /\ reader = "failed"
  /\ IF running THEN ConfigureAgain /\ reader' = "wait"
                ELSE UNCHANGED configured /\ reader' = "off"
  /\ UNCHANGED <<settings, pending, running, control, final, bank_len, user, file, runs, faults,
                 notes>>

-----------------------------------------------------------------------------
Init ==
  /\ \E len \in Lengths : settings = [ver |-> 0, len |-> len]
  /\ pending = None /\ configured = None /\ newest = settings
  /\ running = FALSE /\ control = "idle" /\ reader = "off" /\ final = FALSE /\ bank_len = 0
  /\ caller = "idle" /\ wanted = None /\ one_caller \in OneCaller
  /\ file_len = 0 /\ rows = 0 /\ waves = 0 /\ torn = FALSE
  /\ updates = 0 /\ runs = 0 /\ faults = 0
  /\ leftover = FALSE /\ raced = FALSE /\ dropped = FALSE /\ overran = FALSE

Control == StartBoard \/ AddBoard \/ StartReader \/ Stop \/ JoinEnds

User == CheckUpdate \/ RefuseUpdate \/ StorePending \/ Store

Reader == LeaveWait \/ ReadBank \/ WriteBank \/ WriteFails \/ CycleFails \/ ReaderDies \/ Recover

Next == Control \/ User \/ Reader

Spec == Init /\ [][Next]_vars

FairSpec == Spec /\ WF_vars(Reader)

-----------------------------------------------------------------------------
TypeOK ==
  /\ settings \in Settings /\ pending \in Settings \union {None}
  /\ configured \in Settings \union {None} /\ newest \in Settings
  /\ running \in BOOLEAN /\ control \in {"idle", "add", "go", "join"}
  /\ reader \in {"off", "wait", "cycle", "decode", "failed"}
  /\ final \in BOOLEAN /\ bank_len \in Lengths \union {0} /\ file_len \in Lengths \union {0}
  /\ caller \in {"idle", "store", "store_pending"} /\ updates \in 0..MaxUpdates
  /\ one_caller \in OneCaller
  /\ wanted \in IF caller = "idle" THEN Settings \union {None} ELSE Settings
  /\ rows \in 0..MaxRows /\ waves \in 0..rows /\ torn \in BOOLEAN
  /\ leftover \in BOOLEAN /\ raced \in BOOLEAN /\ dropped \in BOOLEAN /\ overran \in BOOLEAN

(* Unless an update meets a start() or stop() half-way, or outlives its     *)
(* run, the waveform rows of a run file stay aligned with its event rows    *)
(* until an append fails half-way.                                          *)
RowsAligned == ~leftover /\ ~raced /\ ~torn => waves = rows

(* Under the same conditions the board of a run that reads is configured    *)
(* to the settings its banks are decoded with.                              *)
DecodesAsConfigured ==
  ~leftover /\ ~raced /\ ~dropped /\ reader \in {"wait", "cycle", "decode"}
    => configured = settings /\ (reader = "decode" => bank_len = settings.len)

(* Settings that were accepted are in force, or will be, until newer ones.  *)
NewestKept == ~leftover /\ ~raced /\ ~dropped => newest \in {settings, pending}

(* The invariant by which those are proved.  In a run, all that the board   *)
(* is or will be configured to has the length of the run file.              *)
LengthInv ==
  ~leftover /\ ~raced =>
    /\ Starting \/ reader # "off" =>
         /\ configured.len = settings.len
         /\ pending # None => pending.len = settings.len
    /\ control = "go" \/ reader # "off" => settings.len = file_len
    /\ reader = "decode" => bank_len = file_len

(* What is pending in a run is the newest, and else the settings are.       *)
OrderInv ==
  ~leftover /\ ~raced /\ ~dropped /\ (Starting \/ reader # "off") =>
    /\ configured = settings
    /\ pending # None => newest = pending

(* Only a join that timed out leaves a reader behind a stop().              *)
JoinInv ==
  /\ Starting => ~running /\ reader = "off"
  /\ ~overran /\ ~running /\ control # "join" => reader = "off"

(* One thread that makes all calls finds its look at _running still true at *)
(* the store, so that only settings left pending by a run, or a join that   *)
(* timed out, can disturb.                                                  *)
CallerInv ==
  one_caller /\ ~leftover /\ ~overran =>
    /\ ~raced
    /\ caller # "idle" => control = "idle"
    /\ caller = "store_pending" => running /\ Allowed(wanted)
    /\ caller = "store" => ~running /\ reader = "off"

IInv ==
  /\ TypeOK /\ LengthInv /\ OrderInv /\ JoinInv /\ CallerInv
  /\ RowsAligned /\ NewestKept

(* They take effect at a bank swap, unless the run ends first; a reader     *)
(* that an exception has ended takes none.                                  *)
UpdateApplied == pending # None /\ running ~> pending = None \/ ~running \/ reader = "off"

(* README.md:117: the waveforms are "row-aligned with events". *)
AlwaysAligned == waves = rows
=============================================================================
