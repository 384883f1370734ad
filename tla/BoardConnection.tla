--------------------------- MODULE BoardConnection ---------------------------
(***************************************************************************)
(* The connection to one board: the socket and its protocol generation,    *)
(* the grant of the Ethernet interface, the identification, the set-up,    *)
(* and the recovery of a board that fails.                                 *)
(*                                                                         *)
(* Between any two accesses the board may lose its power, and with it the  *)
(* grant and its set-up. Whoever accesses the board holds _Board.lock, so  *)
(* one operation is in progress at a time; a call of the user that finds   *)
(* the board identified changes nothing here and is left out. One thread   *)
(* calls start, stop and close, and the joins of stop succeed. An OSError   *)
(* of the socket, which ends a reader, is only let happen in close.         *)
(***************************************************************************)
EXTENDS Naturals

CONSTANTS
  Firmwares,    \* generations of firmware: TRUE echoes packet identifiers
  FailedAfter,  \* _FAILED_AFTER
  MaxOutages,   \* bound: losses of power
  MaxFaults     \* bound: other failures

ASSUME BoardConnectionAssumption ==
  /\ Firmwares \subseteq BOOLEAN
  /\ FailedAfter \in Nat \ {0} /\ MaxOutages \in Nat /\ MaxFaults \in Nat

VARIABLES
  firmware,         \* what the board speaks
  on,               \* it has power
  grant,            \* it takes register accesses from the Ethernet interface
  configured,       \* it is set up
  socket,           \* UdpLink._sock
  packet_id_mode,
  info,             \* _Board.info: the board was identified
  op,               \* who has the lock: "user", "start", "recover", "close" or "none"
  at,               \* the next access of that operation
  running,
  reader,           \* there is a reader thread, in its loop
  failed,           \* _Board.failed
  consecutive_errors,
  outages, faults

board == <<on, grant, configured>>
link == <<socket, packet_id_mode>>
run == <<running, reader>>
health == <<failed, consecutive_errors>>
bounds == <<outages, faults>>
vars == <<firmware, board, link, info, op, at, run, health, bounds>>

Ops == {"user", "start", "recover", "close"}

Steps == {"close", "bind", "detect", "request", "granted", "identify", "initialize", "arm"}

-----------------------------------------------------------------------------
(* Accesses *)

(* a register of the board can be accessed *)
Serves == socket /\ on /\ packet_id_mode = firmware /\ grant

Fault == faults < MaxFaults /\ faults' = faults + 1

(* an access fails because the board cannot answer it, or for another cause *)
Fails(possible) == IF possible THEN Fault ELSE UNCHANGED faults

Free == op = "none" /\ at = "none"

Done == op' = "none" /\ at' = "none"

(* the exception leaves the operation and with it the lock; _recover, which *)
(* is called again, catches it                                              *)
Raise == Done /\ UNCHANGED <<firmware, board, info, run, health, outages>>

Goto(step) == at' = step /\ UNCHANGED op

-----------------------------------------------------------------------------
(* The board *)

PowerOff ==
  /\ on /\ outages < MaxOutages /\ outages' = outages + 1
  /\ on' = FALSE /\ grant' = FALSE /\ configured' = FALSE
  /\ UNCHANGED <<firmware, link, info, op, at, run, health, faults>>

PowerOn ==
  /\ ~on /\ on' = TRUE
  /\ UNCHANGED <<firmware, grant, configured, link, info, op, at, run, health, bounds>>

-----------------------------------------------------------------------------
(* Sis3316.open *)

(* link.open, which detects the protocol after it has stored a new socket *)
Bind ==
  /\ at = "bind"
  /\ \/ /\ socket' = TRUE /\ Goto(IF socket THEN "request" ELSE "detect")
        /\ UNCHANGED <<firmware, board, packet_id_mode, info, run, health, bounds>>
     \/ ~socket /\ Fault /\ Raise /\ UNCHANGED link

Detect ==
  /\ at = "detect"
  /\ \/ /\ on /\ packet_id_mode' = firmware /\ Goto("request")
        /\ UNCHANGED <<firmware, board, socket, info, run, health, bounds>>
     \/ Fails(on) /\ Raise /\ UNCHANGED link

(* the writes of LINK_ARBITRATION, which nothing acknowledges *)
RequestGrant ==
  /\ at = "request"
  /\ \/ on /\ grant' = TRUE /\ UNCHANGED faults
     \/ Fails(on) /\ UNCHANGED grant
  /\ Goto("granted")
  /\ UNCHANGED <<firmware, on, configured, link, info, run, health, outages>>

CheckGrant ==
  /\ at = "granted"
  /\ \/ /\ Serves /\ Goto("identify")
        /\ UNCHANGED <<firmware, board, info, run, health, bounds>>
     \/ Fails(Serves) /\ Raise
  /\ UNCHANGED link

(* the info of the board is what open() returns *)
Identify ==
  /\ at = "identify"
  /\ \/ /\ Serves /\ info' = TRUE
        /\ IF op = "user" THEN Done ELSE Goto("initialize")
        /\ UNCHANGED <<firmware, board, run, health, bounds>>
     \/ Fails(Serves) /\ Raise
  /\ UNCHANGED link

Opens == Bind \/ Detect \/ RequestGrant \/ CheckGrant \/ Identify

-----------------------------------------------------------------------------
(* Sis3316.initialize, arm: a board that lost its power meanwhile has no    *)
(* grant for the accesses that follow                                       *)

Initialize ==
  /\ at = "initialize"
  /\ \/ /\ Serves /\ configured' = TRUE /\ Goto("arm")
        /\ UNCHANGED <<firmware, on, grant, info, run, health, bounds>>
     \/ Fails(Serves) /\ Raise
  /\ UNCHANGED link

(* _start_board and _recover clear the failure; start() goes on to run *)
Arm ==
  /\ at = "arm"
  /\ \/ /\ Serves /\ Done
        /\ failed' = FALSE /\ consecutive_errors' = 0
        /\ running' = (running \/ op = "start") /\ reader' = TRUE
        /\ UNCHANGED <<firmware, board, info, bounds>>
     \/ Fails(Serves) /\ Raise
  /\ UNCHANGED link

-----------------------------------------------------------------------------
(* Sis3316.close *)

(* mutant: a closed link starts from the old protocol again *)
ForgetSocket == socket' = FALSE /\ packet_id_mode' = FALSE

CloseSocket == socket' = FALSE /\ UNCHANGED packet_id_mode

(* mutant: a board that is identified is not opened again *)
ReopenIfNeeded == IF info THEN "initialize" ELSE "bind"

(* _recover opens a board whatever is known of it *)
Reopen == "bind"

(* The grant is given back if the board answers the disarm before. An      *)
(* OSError, which the callers swallow, leaves the socket open.              *)
CloseDevice ==
  /\ at = "close"
  /\ \/ /\ CloseSocket
        /\ grant' = (grant /\ ~Serves) /\ UNCHANGED faults
     \/ Fault /\ (CloseSocket \/ UNCHANGED link) /\ UNCHANGED grant
  /\ IF op = "recover" THEN Goto(Reopen) /\ UNCHANGED info
                       ELSE Done /\ info' = FALSE
  /\ UNCHANGED <<firmware, on, configured, run, health, outages>>

-----------------------------------------------------------------------------
(* The callers *)

Lock(who, step) ==
  /\ Free /\ op' = who /\ at' = step
  /\ UNCHANGED <<firmware, board, link, info, run, health, bounds>>

(* mutant: every call opens the board *)
Always == TRUE

(* if not b.info *)
NeedsOpen == ~info

(* connect, onboard_histogram, clear_onboard_histograms, statistic_counters *)
UserCall == NeedsOpen /\ Lock("user", "bind")

Start ==
  /\ ~running /\ ~reader
  /\ Lock("start", IF NeedsOpen THEN "bind" ELSE "initialize")

Stop ==
  /\ running /\ running' = FALSE
  /\ UNCHANGED <<firmware, board, link, info, op, at, reader, health, bounds>>

Close == ~running /\ ~reader /\ Lock("close", "close")

(* one turn of the loop, its last when the run is stopped: status and _cycle *)
CycleGood ==
  /\ reader /\ ~failed /\ Free /\ Serves
  /\ consecutive_errors' = 0 /\ reader' = running
  /\ UNCHANGED <<firmware, board, link, info, op, at, running, failed, bounds>>

CycleFails ==
  /\ reader /\ ~failed /\ Free
  /\ Fails(Serves)
  /\ consecutive_errors' = consecutive_errors + 1
  /\ IF consecutive_errors' >= FailedAfter THEN failed' = TRUE ELSE UNCHANGED failed
  /\ reader' = running
  /\ UNCHANGED <<firmware, board, link, info, op, at, running, outages>>

Recover == reader /\ failed /\ running /\ Lock("recover", "close")

LeaveFailed ==
  /\ reader /\ failed /\ ~running /\ Free /\ reader' = FALSE
  /\ UNCHANGED <<firmware, board, link, info, op, at, running, health, bounds>>

-----------------------------------------------------------------------------
Init ==
  /\ firmware \in Firmwares
  /\ on \in BOOLEAN /\ grant = FALSE /\ configured = FALSE
  /\ socket = FALSE /\ packet_id_mode = FALSE /\ info = FALSE
  /\ op = "none" /\ at = "none"
  /\ running = FALSE /\ reader = FALSE /\ failed = FALSE /\ consecutive_errors = 0
  /\ outages = 0 /\ faults = 0

Power == PowerOff \/ PowerOn

Access == Opens \/ Initialize \/ Arm \/ CloseDevice

Control == Start \/ Stop \/ Close

Reader == CycleGood \/ CycleFails \/ Recover \/ LeaveFailed

Next == Power \/ Access \/ UserCall \/ Control \/ Reader

Spec == Init /\ [][Next]_vars

(* An operation under way goes on, and so does the reader's loop. *)
FairSpec == Spec /\ WF_vars(Access) /\ WF_vars(Reader)

-----------------------------------------------------------------------------
(* a board is failed after FailedAfter errors, not before *)
Counts ==
  /\ consecutive_errors \in 0..FailedAfter
  /\ ~failed => consecutive_errors < FailedAfter
  /\ outages \in 0..MaxOutages /\ faults \in 0..MaxFaults

TypeOK ==
  /\ firmware \in Firmwares
  /\ on \in BOOLEAN /\ grant \in BOOLEAN /\ configured \in BOOLEAN
  /\ socket \in BOOLEAN /\ packet_id_mode \in BOOLEAN /\ info \in BOOLEAN
  /\ op \in Ops \union {"none"} /\ at \in Steps \union {"none"}
  /\ running \in BOOLEAN /\ reader \in BOOLEAN /\ failed \in BOOLEAN
  /\ Counts

(* The link speaks the board's generation whenever the board counts as     *)
(* identified, also in the steps that follow the detection.                *)
Understood == info \/ at \in {"identify", "initialize", "arm"} => packet_id_mode = firmware

(* What an operation under way implies. *)
Stages ==
  /\ op = "none" <=> at = "none"
  /\ op = "user" => at \in Steps \ {"close", "initialize", "arm"}
  /\ op = "start" => at # "close" /\ ~running /\ ~reader
  /\ op = "recover" => reader /\ failed /\ info
  /\ op = "close" => at = "close" /\ ~running /\ ~reader
  /\ op = "user" => ~info
  /\ at \in {"initialize", "arm"} => info

(* The reader of a board that is not failed has an open socket, and the    *)
(* board stays identified for the whole run: only close() forgets it.      *)
Connected ==
  /\ running => reader
  /\ reader => info
  /\ reader /\ ~failed => socket

(* Set-up and grant go with the power. *)
Powered == (grant => on) /\ (configured => on) /\ (at = "arm" /\ grant => configured)

(* A run records with a board only as it was set up, in this run or before: *)
(* a board that was without power in between has no grant, so its accesses  *)
(* fail until the recovery has set it up; nobody gives it the grant first.  *)
OnlyConfigured == reader /\ ~failed /\ Serves => configured

(* All of it: the parts hold each other up. *)
IInv == TypeOK /\ Understood /\ Stages /\ Connected /\ Powered /\ OnlyConfigured

(* A board that has power for good comes back to a run that goes on,        *)
(* whatever it has lost and however its last recoveries ended.              *)
Reconnects == <>[](on /\ running) => []<>~failed
=============================================================================
