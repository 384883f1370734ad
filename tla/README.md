# SisDAQ in TLA+

Specifications of the data acquisition in `src/sis3316daq`: one or more SIS3316
digitizers are read over UDP by a thread per board, their hits go to spectra, to
a buffer for online coincidences and to an HDF5 run file, and their hardware
counters are compared with what was read. `PROJECT.json` maps every definition
to the lines it models and lists the runs, mutants, findings, hazards and
theorems.

## Inventory

| Part | State | Operations | Interacts with |
|---|---|---|---|
| `transport.UdpLink` | socket, protocol generation, packet identifier | `open`, `close`, `link_read`, `link_write`, `read_list`, `write_list`, `fifo_read`, `fifo_write` | the board over UDP; called by `Sis3316` |
| `board.Sis3316` | `bank2_armed`, clock, settings | `open`, `initialize`, `configure`, `arm`, `swap`, `disarm`, `previous_bank_addresses`, `read_memory`, `write_memory`, `statistic_counters` | `UdpLink`; called by `DAQ` with `_Board.lock` |
| the board (hardware) | two banks, filling bank, closed-bank addresses, latched counters, data transfer logic | key writes, register and FIFO accesses | answers over UDP |
| `daq._Board` | settings, pending settings, totals, last latch, failure state, hit buffer, lock | — | shared by the reader, the statistics thread and users |
| `daq.DAQ`, run control | `_running`, threads, writer, CSV | `add_board`, `connect`, `start`, `stop`, `close` | creates and joins the threads |
| `daq.DAQ`, reader thread (one per board) | locals of `_reader` and `_cycle` | wait, `_cycle`, `_apply_pending`, `_recover` | board, `_Board`, writer |
| `daq.DAQ`, statistics thread | previous totals | `_stats_loop`, `_write_scalers`, `_push_graphite` | reads `_Board`, `_scaler_csv` |
| `daq.DAQ`, user calls | — | `update_settings`, `clear_onboard_histograms`, `statistic_counters`, `enable_hits`, `take_hits`, `scalers` ... | `_Board`, `Sis3316` from any thread |
| `writer.Hdf5RunWriter` | file, cycle, paths, bytes | `add_board`, `append`, `flush`, `close`, `add_run_summary` | called by readers and `stop` |
| `scalers` | CSV file | integrity check, dead fraction, CSV, summary | called by the statistics thread and `stop` |
| `events` | — | `decode_bank`, `_walk` | called by `_cycle` |
| `settings` | — | `validate`, `channel_settings` | called by `add_board`, `update_settings` |
| `registers`, `mock` | — | address tables; a test double | |

What is hard here:

* The reader acts on a board that forgets acknowledges, restarts its counters
  and closes banks only through a swap, while users re-arm it between two
  cycles. Whether a hit is read once, and whether it is *counted* with the bank
  it was read with, depends on several steps of several parties.
* Errors leave a cycle at any access, with a bank in hand, a bank armed that the
  driver does not know of, or settings half applied.
* `stop` joins with timeouts, so threads of one run can meet the next run.
* `update_settings` and `_keep_hits` test shared state before they take the lock.
* UDP loses packets and delivers late ones; the old firmware's answers carry
  nothing that tells them apart.
* The readers, the statistics thread and `stop` write the same files; a disk
  operation may fail between any two of their steps, and what is left then must
  still agree with what the summary says.
* A board may lose its power. It forgets grant and set-up, while the driver keeps
  what it knows of the board, and several callers may be the first to find out.
* The decoder trusts marker words and lengths in a bank that may be cut off.

Correctness, part by part: the readout delivers every hit at most once, in
order and in its own run, undisturbed runs deliver all, and counts match; the
link accepts only the answer to the request it sent; a memory transfer that
returns is complete; settings in force are those decoded with, and datasets stay
row-aligned; after `stop` nothing of the run is left; the hit buffer accounts for
every hit; the run's files are a log, and summary, scaler file and files say the
same; a bank's events are separate pieces of it, and the ones the board stored; a
board records only as it was set up; registers hold the settings whole. `PROJECT.json` lists each hazard at its line with the property meant
to catch it, or the reason that none does.

## Modules

| Module | Models | Extends / uses |
|---|---|---|
| `EventStream` | abstract: what the readout of a channel promises | |
| `BankReadout` | one board, its driver, its reader, start/stop and user calls | instantiates `EventStream` |
| `BankReadoutProofs` | theorems on `BankReadout` | `BankReadout`, TLAPS |
| `UdpLink` | requests, answers, retries, protocol detection | |
| `MemoryTransfer` | `read_memory`, `statistic_counters`, `write_memory` | composes `UdpLink` |
| `MemoryTransferProofs` | theorems on `MemoryTransfer` and, in it, on `UdpLink` | `MemoryTransfer`, TLAPS |
| `RunSettings` | settings from the user to board and file | |
| `RunSettingsProofs` | theorems on `RunSettings` | `RunSettings`, TLAPS |
| `RunControl` | threads, joins and run files over all boards | |
| `RunControlProofs` | theorems on `RunControl` | `RunControl`, TLAPS |
| `HitBuffer` | hits kept for coincidences | |
| `HitBufferProofs` | theorems on `HitBuffer` | `HitBuffer`, TLAPS |
| `RowLog` | abstract: what the run files promise about the rows of a board | |
| `RunWriter` | `Hdf5RunWriter`: the files and what each operation does to them | |
| `RunOutput` | readers, statistics thread and `stop` writing one run | composes `RunWriter`, instantiates `RowLog` |
| `RunOutputProofs` | theorems on `RunOutput` and `RunWriter` | `RunOutput`, TLAPS |
| `EventDecoder` | `decode_bank` and `_walk` | |
| `MCEventDecoder` | the banks it is checked with | `EventDecoder` |
| `EventDecoderProofs` | theorems on `EventDecoder` | `EventDecoder`, TLAPS |
| `BoardConnection` | open, close, start, failure and recovery of a board that may lose its power | |
| `Registers` | clamping of settings, filter registers, layout of the event memory | |
| `BoardProofs` | theorems on `BoardConnection` and on `Registers` | both, TLAPS |

### BankReadout

One channel stands for the sixteen: the quantities are numpy arrays updated
element by element. Hits are numbered as the board records them, so a bank is
the interval `start+1 .. hits`, a closed bank `prev_lo+1 .. prev_hi`, and the
bank in hand `got_lo+1 .. got_hi`; a repeated or skipped hit is an overlap or a
gap. The statistic counters read `(latch - zero_at) % Wrap`, where `latch` is
the number of hits at the last swap.

`pc` says where the reader stands, or the thread in `start`:

| `pc` | code |
|---|---|
| `starting`, `started` | `_start_board` between arm and swap; after it |
| `top`, `wait` | `_reader`: the loop's top; the wait for the interval |
| `sleep`, `recover` | `_recover`: before and after its sleep |
| `resend` | `_exchange` about to repeat the arm of a swap |
| `addr` | `_cycle` after the swap, reading |
| `disarm`, `apply` | the final disarm, or `_apply_pending` |
| `account`, `decode` | `_cycle` after the lock's release |
| `exit` | the disarm after the loop |
| `done`, `dead` | the thread ended; it ended by another exception |

Where the code holds `b.lock` across several steps, `pc` is in `Locked` and the
users' actions are disabled. The history variables `written_to`, `run_base`,
`last_true`, `stat_true` and `disturbed` say what the program cannot know.

Abstractions: an access either works, or fails with or without its effect
(`Fault`); `_exchange` repeats a lost arm once, in a cycle (`SwapResent`) and at the baseline
swap of a start (`StartSwapUnanswered`); whether KEY_RESET restarts the
counters is left open, as the comment in `_recover` leaves it. At most `Rate < Wrap`
hits fall between two readings of the counters (the code argues 2^31 in one bank
is impossible).
The checks on finite instances use `Wrap = 6`, `Rate = 4` and counters that start one below
their wrap, so that a delta goes over it. Two hits give no delta of `Wrap \div 2` or more:
that side of the threshold in daq.py:377 is covered by the proofs, for every `Wrap`, and by no run.

### UdpLink and MemoryTransfer

`wire` holds the answers under way, `rx` those in the socket, both in order (one
Ethernet segment). Each answer carries the number of the request it answers
(`sent`, which the code does not see), its identifier and, for FIFO data, its
position in the transfer. `late` counts timeouts while an answer is still to come.
`Lifetime < Pids` says that no answer is older than the identifier's cycle.
`link_write`, which has no answer, and the batching of registers are left out; so
is an OSError of `sendto`, whose effect is `ReaderDies` in BankReadout, RunSettings,
RunControl and RunOutput.

`MemoryTransfer` runs the driver's three kinds of transfers as sequences of link
calls, including the exception paths: `read_memory` resets and restarts,
`write_memory` resets in its `finally`, `statistic_counters` just raises.

### RunSettings

Settings are told apart by the order of acceptance (`ver`) and by the length
settings that are fixed for a run (`len`). `update_settings` is two steps, as its
test of `_running` is made without the lock. `start` is three (`control`): it configures the
board, reads the settings again for the file, and sets `_running`; `stop` is two, and its
join may give up. The reader may end by an exception with `_running` still set
(`ReaderDies`, `WriteFails`, an `OSError` in `_apply_pending`); what is pending is then
never taken, and `UpdateApplied` excepts it. Five variables record that the code's guarantee
ends: `leftover`, settings pending at a start; `raced`, an update that straddles a start or
stop; `dropped`, an error in `_apply_pending`; `overran`, a join that timed out; and `torn`,
an append that failed half-way or met a group without waveforms (RunWriter has the details).
`one_caller` says whether one thread makes all calls; both cases are checked.

One `start` or `stop` runs at a time, and a `start` finds the readers of the last run gone:
readers of two runs are the subject of RunControl.

### RunControl

Readers are indexed by board and run. `file[r]` is the file of run r's writer;
`strays` collects runs whose reader wrote into the writer of a later run. The
calling thread goes through the loops of `start` and `stop` board by board.
A failing cycle is one action (`BoardFails`): BankReadout has its details.
A run has a file (`write=True`).

### HitBuffer

The reader passes through the test of `hits_enabled`, the computation of the room
and the append in three steps, of which only the last has the lock.

### RunWriter and RunOutput

`files` is the writer's list of paths, each with what its file holds: the groups
created, the event and waveform rows of each board, the rows flushed, the boards
whose totals are stored. A row is told by its number among its board's rows; 0
is the filler of a dataset that was resized before its data could be stored. The
operations of `RunWriter` run under the writer's lock, so each is one step, with a
second operator for what it leaves when it raises: a path without a file, a
file without groups (noted but not in use), a file in use in which `_create_board` came
only to some board's group, its `events` or its `waveforms` (`groups`, `tables`, `traces`),
events without their waveforms. `append` raises a KeyError where the `events` are missing
and passes the waveforms over where their dataset is. One dataset `waves` stands for
`waveforms` and `maw`.

`RunOutput` puts the callers around it. A reader takes a bank and adds its hits
(`TakeBank`), writes it row by row (`WriteRow`; a row stands for the events of one
channel), and adds the compared events and flushes (`EndBank`). An exception of the
writer ends it, and so may one of the socket while the board is read (`ReaderDies`, which
leaves the disk alone); a failed board or last cycle ends it after the stop
(`ReaderGivesUp`). The statistics thread looks at `_scaler_csv`
(`StatsWakes`) and writes later (`StatsRow`); `stop` has a step for each of its
statements and calls down to `add_run_summary`, with the looks at `_scaler_csv` and their
uses apart (`FinalCheck`, `FinalRow`, `CheckCsv`, `CloseCsv`). `Checked` are the boards whose
hit counter sees every event; the others have external triggers, which the integrity check
leaves out (scalers.py:182-185). `faults` bounds failing disk
operations, dying readers and joins that time out; `lost_disk`, `lost_csv` and `overrun` record
what happened. The second join needs no fault to time out, as it may whenever the
statistics interval is above 5 s.

`RowLog` is the abstract specification: each row of a board gets a place, a file and an
index, behind all earlier rows, and keeps it; any flush makes all rows safe, and a bank is
over only with a flush. `FilesAreALog` refines it with the places of the rows in the files
(`Lines`, fillers left out) and those of them that are flushed (`SafeLines`).

### EventDecoder

A word is what the decoder can read in it: format bits, marker nibble, MAW flag and
raw length. An event is where it starts and how its words are divided among header,
waveform and MAW trace; the numbers in the header are left out. `bank` also says
what the board stored, which the code does not see: `regular` banks hold equal
records, in `plain` ones nothing else looks like a marker. `_walk` is a loop with a
step per record, `decode_bank` otherwise a step.

### BoardConnection

An operation under `b.lock` (`op`) goes from step to step (`at`): close, bind, detect,
request and check of the grant, identify, initialize, arm. The board may lose its
power between any two, and with it `grant` and `configured`; `Serves` says that an
access is answered without error status. `UserCall` stands for the four calls that
open a board when `info` is empty. The reader's turn is one step (BankReadout has
its details), as is `initialize`. `RequestGrant` has no answer and so cannot
fail in the driver's eyes; whether the grant came shows when it is read back.

### Registers

Operators only: numbers before and after `validate`, the bits of a register that
`configure` computes from them, `memory_offset` and `chan_reg`. Bit masks are
written with `%`, shifts with `*` and `\div`.

## Runs

| Run | Shows | Bounds |
|---|---|---|
| `two_runs` | `IInv`; `IntegrityExact`: counts balance unless an access failed or histograms were cleared, settings changes included; `CompleteRun`: an undisturbed run delivers every hit from its baseline swap to its last; `StreamSpec`: refinement of `EventStream` | 2 runs, 2 hits, 1 fault, counters starting one below their wrap, users clearing, readers dying |
| `failing_board` | `CountsCover`, and the liveness properties `StopTerminates`, `Resumes` | 3 faults with `FailedAfter = 2`, enough to fail a board and its recovery |
| `memory_transfer` | `AnswersRight`: an accepted answer belongs to the request; `ReadExact`; `WriteCovers`: the area is written, and no chunk more often than a request is sent; `TransferEnds`; the inductive invariant `IInvT` | 3 calls, 2 attempts, 1 loss, 1 late answer, 1 error; 5 identifiers, 2 x 2 packets; both firmware generations |
| `settings` | `IInv`, `RowsAligned`, `DecodesAsConfigured`, `NewestKept`, `UpdateApplied` | 2 lengths, 3 updates, 2 runs, 2 faults, one caller or any |
| `run_control` | `IInv`, `OneReader`, `StoppedQuietly`, `ReadersEnd` | 2 boards, 2 runs, 1 fault, joins that time out |
| `hit_buffer` | `Accounted`, `TakenOnce`, `AtMostOneBatch` | capacity 3, batches of up to 2, 7 hits: the buffer fills twice |
| `run_output` | `FilesAreALog`: refinement of `RowLog`; `WavesAligned`; `BooksAgree` and `SummaryEverywhere` after a stop without errors of the run files; `LostRowsFlagged` after one with; `StopEnds`: only a failed close, or a join that timed out, keeps a stop from its summary; `IInv` | 2 boards, one of them checked, 2 rows, a file full after 1 row, 1 fault, joins that time out, tolerance 1 |
| `event_decoder` | the inductive invariant `LaidInv`, and with it that the banks are laid out as the theorems assume (`Laid`); `Apart`; `Complete`, `NoFalseEvents` and `MostCommonKept` against what was stored | up to 3 records of 2 formats, with and without raw words and MAW trace, clean or full of look-alikes, then up to 3 left-over words, up to 2 look-alikes (a third would make them a record) or a cut record |
| `board_connection` | `OnlyConfigured`, `Reconnects`, and the inductive invariant `IInv` | 3 outages and 6 failing accesses with `FailedAfter = 5` (`_FAILED_AFTER`), both firmware generations |

Two runs are needed for anything left over from an earlier one; two hits
distinguish a bank read twice from one skipped, because banks may be empty and a
bank may hold both; one fault per run reaches each failing step alone, three
reach a failed board whose recovery fails too. Two boards are enough for one that
fails to start after another has. A file that is full after one row makes a run of two
rows rotate once and leave a row in each file; one fault reaches each failing disk
operation alone, and each death of a reader. Three
records are the fewest with a most common kind among
several, and raw and MAW lengths are equal, so that records of different layout
agree in length. Six failing accesses fail a board and a recovery or a start besides.

Three runs end in a violation, each of a statement in the code or its README:

| Run | Statement | What happens |
|---|---|---|
| `clear_uncounted` | scalers.py:72, every bank is counted alike | `clear_onboard_histograms` during a run drops the hits of the filling bank but not their counts |
| `udp_open` | transport.py:11, the generation is detected on open | a second `open` after a failed one skips the detection |
| `settings_leftover` | README.md:117, row-aligned | pending settings outlive their run and misalign the next file |

Two more departures are in the models, where other properties except them:

* daq.py:26 says that the reader keeps trying to re-initialise a board. An `OSError`,
  of `sendto` or of the run file, is not caught and ends the thread (`ReaderDies`,
  `Dies`); `StopEnds` and `LostRowsFlagged` show that the stop still ends with its summary
  and that rows lost this way show in the integrity check, where it is made. Settings
  that are pending then are never taken, though daq.py:481 says that they take effect at
  the next bank swap (`UpdateApplied` excepts it).
* daq.py:244 says that the run ends when the readers have read their last bank. A
  join that times out lets `stop` store the summary before (`overrun` in RunOutput,
  the timeouts of RunControl).

`CHECK_DEADLOCK FALSE` stands where the bounds on runs, calls or faults let the
system stop: after the last allowed call nothing more happens.

### Fairness

* BankReadout: `WF(Reader)` and `WF(StopJoin)`: the operating system runs the
  reader's thread and the one blocked in `join`; every wait of the reader is a
  sleep or a socket timeout. No fairness is put on the user, on `stop` being
  called, on the board, or on a particular outcome of an access; liveness relies on
  the number of faults being bounded (a board that never answers again keeps its
  reader in `_recover`, from which only `stop` leads out).
* MemoryTransfer: `WF` of the calling thread's steps and of the delivery of answers
  that were not lost.
* RunSettings: `WF(Reader)`; the user's calls are not fair.
* RunOutput: `WF` of every reader, of the statistics thread, and of `stop` once it is
  called. `StopEnds` allows two ends other than the summary, both exceptions that leave
  `stop`: the close of the files failed, or the last scaler row found the file closed by a
  statistics thread that was not waited for (`row raised`, which needs `overrun`). A reader
  that died or gave up and a failed append, flush or scaler file do not hold it up.
* BoardConnection: `WF` of an operation under way and of the reader's loop; none on
  the power, the users or a particular outcome. `Reconnects` speaks of a board that
  has power for good from some time on.
* RunControl: `WF` of the steps within a call of `start` or `stop`, of each reader and
  of each statistics thread. A join may time out at any time.

## Proofs

TLAPS proves, for every value of the constants that satisfies the assumptions:

| Module | Inductive invariant | Theorems (the property of the runs that each states) |
|---|---|---|
| `BankReadoutProofs` | `IInv` | `TypeCorrect`, `CountsNeverExceeded` (`CountsCover`), `IntegrityBalances` (`IntegrityExact`), `NothingLost` (`CompleteRun`), `ImplementsStream` (`StreamSpec`) |
| `MemoryTransferProofs` | `IInvT` | `TypeCorrect`, `AcceptedAnswersRight` (`AnswersRight`), `ReadsExact` (`ReadExact`), `WritesCover` (`WriteCovers`) |
| `RunSettingsProofs` | `IInv` | `TypeCorrect`, `FileAligned` (`RowsAligned`), `DecodedAsRecorded` (`DecodesAsConfigured`), `UpdateNotLost` (`NewestKept`), `OneCallerAligned` |
| `RunControlProofs` | `IInv` | `TypeCorrect`, `ReaderOfItsRun` (`OneReader`), `NothingAfterStop` (`StoppedQuietly`) |
| `RunOutputProofs` | `IInv` | `TypeCorrect`, `WavesStayAligned` (`WavesAligned`), `BooksBalance` (`BooksAgree`), `TotalsInAllFiles` (`SummaryEverywhere`), `LossShows` (`LostRowsFlagged`), `ImplementsLog` (`FilesAreALog`) |
| `HitBufferProofs` | `IInv` | `TypeCorrect`, `NoneUncounted` (`Accounted`), `NoneTwice` (`TakenOnce`), `LateBatchOnly` (`AtMostOneBatch`) |
| `EventDecoderProofs` | `IInv`, `LaidInv` | `TypeCorrect`, `EventsApart` (`Apart`), `LaidInvariance`, `RegularComplete` (`Complete`), `PlainTruthful` (`NoFalseEvents`), `CommonKept` (`MostCommonKept`) |
| `BoardProofs` | `IInv` | `RecordsConfigured` (`OnlyConfigured`); `TriggerSetupHolds`, `EnergySetupHolds`, `ThresholdHeld`, `ThresholdWraps`, `BanksApart`, `HistogramBehindEvents`, `RegistersApart` |

The assumptions on the constants are types and, of substance, these. In BankReadout,
`Rate < Wrap`: fewer hits between two readings than the counter can hold. In
MemoryTransfer, `Retries > 1` and `Lifetime + Retries < Pids`: an identifier comes
around later than the oldest answer that may still arrive; the driver has 3 attempts and
256 identifiers (transport.py).

**BankReadout.** `CountsCover` compares two totals, which says nothing of the bank in
hand. `IInv` adds, in named conjuncts: `BoardInv`, the order of the board's
positions (a closed bank ends at or before the latch, the filling one begins
there); `ControlInv`, how `pc`, `failed` and the armed bank hang together (at
`addr` the bank to read is the one the driver has just closed; while the bank is in
hand the driver knows which bank is armed, or the board is disarmed); `LatchInv`, that
`last_stat` is the counters' reading at `last_true`, less than `Wrap` hits ago;
`FreshInv`, that a closed bank the reader could still take begins after every hit
delivered and after `last_true`; `HoldingInv`, the same for the bank in hand. Then a
delta is exactly the hits between two latches (`DeltaCounts`, by the uniqueness of
remainders, `ModUnique`), and these include the bank delivered, which gives
`CountsCover`. `FreshInv` and `HoldingInv` also give the guard of `Deliver`, so each
step of the readout is a step of `EventStream` or leaves it alone (`StepMaps`). The
conjuncts are proved action by action (`TypeStep`, `BoardStep`, `ControlStep`,
`LatchStep`, `FreshStep`, `HoldingStep`, `CoverStep`) and joined in `StepInv`.

`IntegrityExact` and `CompleteRun` need in addition that nothing falls between two banks.
`ChainInv` says how the banks chain as long as no access failed and nothing was cleared: the
filling bank begins at the last reading, the bank in hand runs from `last_true` to the
latch. `ProgressInv` then counts the hits handed on, up to the reading that `pc` allows.
Both are proved for every step that is not a fault, as a fault ends their premise
(`FaultyDisturbs`).

The theorems say that clearing histograms, losing acknowledges, dying readers and
failed starts can lose hits, but never repeat or reorder them, nor make the check
report fewer hits than events.

**HitBuffer.** `Fits` strengthens the properties: what the reader has in hand at the
append fits the room as it is *now*, because users can only empty the buffer
after the room was computed. The counting uses the cardinality of intervals and of
disjoint unions (`AppendCount`).

**MemoryTransfer and UdpLink.** That an accepted answer is the right one depends on
everything that is still on its way. `Pipe`, the answers in the socket followed by those on
the wire, is kept as one sequence, and `LinkInv` says of it: `CallInv`, how socket, call
and request belong together; `OrderInv`, that answers come in the order of their requests
and those on the wire are at most `Lifetime` requests old; `NumberInv`, that an answer has
the identifier of its request, counted without the wrap (`Numbered`); `BacklogInv`, how
many requests old an answer can be at each place (`Oldest`: the detection repeats its
request without draining the socket); `QuietInv`, that without delays and errors
(`Prompt`) only the request in progress has answers. Two identifiers that are equal modulo
`Pids` and less than `Pids` apart are the same (`SameNumber`), so the one accepted is the
current one (`IdentifierTells`, `AcceptedCurrent`). The link's steps are proved from what
they do to the pipe, send, take or let arrive (`PipeSend`, `PipeTake`, `PipeArrive`).

On top of it the transfers: `FifoInv` says that the words received so far and those in the
pipe line up, or the answer that ends the transfer is short or in error; `StartInv`,
`ReadInv`, `WriteInv` and `ResetInv` say what each step of a transfer may rely on, by
`ServedInv`: what is true once the request in progress was served, whichever of its
repetitions was. `RepeatsInv` counts the attempts at a chunk, each of which moves the
position by at most one (`AttemptMoves`): `WriteCovers` has an upper bound from it. Nothing
better holds: `_exchange` does not drain the socket before its first attempt, so that one late
answer leaves the link an answer behind and each later chunk may be written twice. Only a start puts the position back, and a transfer moves its data only after one was
acknowledged; a packet that is lost ends the call.

**RunSettings.** `LengthInv`: in a run that nothing left over or raced disturbs, all that
the board is or will be configured to has the length of the file. `OrderInv`: what is
pending is the newest. `JoinInv`: a reader is left behind a stop only by a join that timed out.
`CallerInv` speaks of one user thread (`one_caller`): while nothing was left over and no join
timed out, a test of `_running` made without the lock is still true at the store, so that the
race which the other theorems except does not exist (`OneCallerAligned`). With a join that
timed out it does, for one thread as for several: the old reader is still in its last cycle
when the next update stores, and the theorem excepts it (`overran`).

**RunControl.** `PhaseInv` ties `_running` to the place of the calling thread. `OwnedInv`:
while joins succeed, a thread that lives belongs to the current run and is the one its
board refers to, so that `stop` has joined it, and a board whose reader was joined refers to
none. With it `OneReader` and `StoppedQuietly` follow; a join that timed out ends
the premise (`overran`).

**RunOutput.** `AlignedInv`, `RowsInv` and `LedgerInv` relate, per board, the rows of the
files, the events added to the totals and the bank in hand: a reader that lives has written
all rows it counted, one that died has left at most the row at which it died, and a bank of
which rows are missing is not in `compared`. Events and waveforms are of one length, while the
reader lives, in the files that have the board's waveforms; in a file that `_create_board` left
without them, its events are alone. `FilesInv`: what is not in use is flushed; without
failures of the run files every file has the groups and events of all boards, and a reader that
died lost no row of the banks it took. `StopInv`: at each step of
`stop`, what the earlier ones stored is still so. An operation of the writer either leaves
the rows of a board (`KeptRows`) or adds one to one file (`GrownRows`), with both cases
for an operation that raises midway; the callers' steps only use these. The rows are
compared as sets (`Rows`) with their order beside (`InOrder`), which together say that
each is there once and in order.

The refinement of `RowLog` asks of the same operations where the rows are: `KeptLines` and
`GrownLines` give their places, `KeptSafe` that a step without a flush (`Unsynced`) makes
no row safe or unsafe, `AllSafe` that after a flush all are, because the files before the
last one are flushed already (`Flushed`). `LogStutters`, `LogBegins`, `LogGrows` and
`LogSyncs` are the steps of `RowLog` in these words, and `StepMaps` goes through the
actions: `TakeBank` begins a bank, `WriteRow` writes or stutters, `EndBank` and `Close`
flush, and nothing else touches the log.

**EventDecoder.** `EventsApart` holds for any set of banks of any words and lengths:
whatever is in a bank, no word of it is used for two events and none is read beyond its
end. `IInv` adds that nothing is returned before the end and nothing found before the
walk. For the fast path the rows are multiples of the record length below the size
(`Stride`, `CutApart`); for the walk each record begins at or after the end of the last.

What the events *are* depends on how the bank was put together, and the other three
theorems have it as a premise, `Laid /\ Spec => []...`, which says of each bank what
its fields `stored`, `regular` and `plain` mean: the records lie one behind the
other from the first word and what follows them is no whole record; in a `regular` bank all
records that have begun, also one cut off by the end, have one layout; in a `plain` one the
marker of a record is the only word that looks like one, all have one format, and a
cut record would be as long as the one before it. Lengths, numbers of records and the
other words are free. `Walked` is the heart of `LaidInv`: the walk stands where a record
begins or where the last one ended, and has met all before. The arguments
are by least elements rather than induction (`Least`, from the well-foundedness of `<`):
the first record at or after a place (`FirstRecord`), the first row of the fast path that
is not a stored record (`RowsStored`). `MostCommonExists` finds the most common format, so
that the filter keeps all records of a plain bank.

The last part of `plain` is a limit of the code that the proof brought out: the fast path
cuts the bank by the length of its first record if the marker and format are right in every
piece, and does not read the lengths in the later ones (events.py:107). The beginning of a
longer record that the end of the bank cuts off can then pass for a whole one.

**BoardConnection.** `BoardProofs` has `Invariance` (`IInv`) and `RecordsConfigured`
(`OnlyConfigured`). That a board which serves is set up is not inductive: `Powered` adds
that set-up and grant go with the power, `Stages` that only a start or a recovery, which
set the board up, may open an identified board, `Connected` that a running reader keeps
the board identified, so that no user call opens it, and `Understood` that the link speaks the
generation of an identified board.

**Registers.** `BoardProofs` also has theorems about operators, for all numbers: a
validated filter setting can be read back whole from its register (`TriggerSetupHolds`,
`EnergySetupHolds`); the threshold register is right while threshold times peaking time
is below 2^27 (`ThresholdHeld`) and wraps for values that `validate` lets pass
(`ThresholdWraps`); the banks of a group's channels lie apart (`BanksApart`,
`HistogramBehindEvents`), and so do channel registers (`RegistersApart`). No run checks
these: TLC's integers have 32 bits, as the registers do.

Only model-checked is what the prover cannot reach: all liveness (`StopTerminates`,
`Resumes`, `TransferEnds`, `UpdateApplied`, `ReadersEnd`, `StopEnds`, `Reconnects`).

## Not modelled

The board's set-up (clock, ADC chips, delays, DACs) is a fixed sequence of register
writes whose effect is the hardware's; of `configure`, `Registers` has the filter
registers. Graphite, rates, fractions and the text of the summary are output; the mock is
a test double. The enumerations, names and defaults of `validate`, the unpacking of an
event's header fields, the batching of register accesses and runs without a file are left
out. The memory model is CPython's: a step between two lock operations or shared accesses
is atomic.

## Plan

Done: all modules of the table, and the theorems above: every safety invariant that the
runs check is proved, and both refinements (`EventStream`, `RowLog`).

To come:

1. What the liveness properties rest on as theorems: the step by which each operation comes
   closer to its end, for instance that a transfer that goes on moves its position.
2. The hazards without a property, as far as the modules can carry one: what `_apply_pending`
   drops when it raises, and the baseline of the statistic counters over a recovery.
