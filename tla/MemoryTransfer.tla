-------------------------- MODULE MemoryTransfer ---------------------------
(***************************************************************************)
(* Transfers between the PC and a channel's memory: Sis3316.read_memory    *)
(* (event banks and on-board histograms), statistic_counters (the latched  *)
(* counters) and write_memory (zeroing the histograms), as sequences of    *)
(* UdpLink calls.  _Board.lock keeps the calls of a transfer together.     *)
(***************************************************************************)
EXTENDS UdpLink

CONSTANTS
  Attempts,    \* of read_memory
  Chunks       \* FIFO write requests of a write_memory

(* The identifier's cycle is longer than what a call can find in the socket, *)
(* and a request is repeated at least once (the driver: 256, 3).            *)
ASSUME MemoryTransferAssumption ==
  /\ Attempts \in Nat \ {0} /\ Chunks \in Nat \ {0}
  /\ Retries > 1 /\ Lifetime + Retries < Pids

VARIABLES
  op,        \* the transfer: "read", "counters", "write", or "none"
  step,      \* its step
  issued,    \* is the step's call of UdpLink made?
  tries,     \* attempts of read_memory
  chunk,     \* chunks written
  outcome    \* how the last transfer ended: "returned" or "raised"

transfer == <<op, step, issued, tries, chunk, outcome>>
varsT == <<vars, transfer>>

Begin(o) ==
  /\ op = "none" /\ call = "none" /\ opened /\ calls < MaxCalls
  /\ calls' = calls + 1
  /\ op' = o /\ step' = "start" /\ issued' = FALSE /\ tries' = 1 /\ chunk' = 0
  /\ UNCHANGED <<outcome, firmware, host, asked, underway, call, result, ans, data, rx, late>>

-----------------------------------------------------------------------------
(* The calls of the steps *)

(* the write of the Data Transfer Control register before the transfer *)
StartTransfer ==
  /\ step = "start"
  /\ Exchange("reg_write", "start")

Move ==
  /\ step = "move"
  /\ IF op = "write" THEN Exchange("fifo_write", "none") ELSE FifoRead

(* TRANSFER_RESET, in read_memory's except clause too *)
ResetTransfer ==
  /\ step \in {"reset", "abort", "finally"}
  /\ Exchange("reg_write", "reset")

Issue ==
  /\ op # "none" /\ ~issued
  /\ StartTransfer \/ Move \/ ResetTransfer
  /\ issued' = TRUE
  /\ UNCHANGED <<op, step, tries, chunk, outcome, calls>>

-----------------------------------------------------------------------------
(* What follows from the end of a call *)

Goto(s) == step' = s /\ issued' = FALSE /\ UNCHANGED <<op, outcome>>

Leave(how) == op' = "none" /\ outcome' = how /\ issued' = FALSE /\ UNCHANGED step

(* mutant: the restarted transfer is not started again *)
FromMove == "move"

(* another attempt starts the transfer at the memory address again *)
FromStart == "start"

Returned ==
  \/ step = "start" /\ Goto("move") /\ UNCHANGED <<tries, chunk>>
  \/ /\ step = "move" /\ op = "write"
     /\ chunk' = chunk + 1
     /\ Goto(IF chunk' < Chunks THEN "move" ELSE "reset")
     /\ UNCHANGED tries
  \/ step = "move" /\ op # "write" /\ Goto("reset") /\ UNCHANGED <<tries, chunk>>
  \/ step = "reset" /\ Leave("returned") /\ UNCHANGED <<tries, chunk>>
  \/ step = "finally" /\ Leave("raised") /\ UNCHANGED <<tries, chunk>>

(* read_memory restarts, up to its last attempt *)
Restart ==
  IF tries < Attempts
    THEN Goto(FromStart) /\ tries' = tries + 1
    ELSE Leave("raised") /\ UNCHANGED tries

Raised ==
  \/ op = "read" /\ Goto("abort")
  \/ op = "write" /\ step = "move" /\ Goto("finally")
  \/ op = "write" /\ step # "move" /\ Leave("raised")
  \/ op = "counters" /\ Leave("raised")

Continue ==
  /\ op # "none" /\ issued /\ call = "none"
  /\ \/ step = "abort" /\ Restart /\ UNCHANGED chunk
     \/ step # "abort" /\ result = "returned" /\ Returned
     \/ step # "abort" /\ result = "raised" /\ Raised /\ UNCHANGED <<tries, chunk>>
  /\ UNCHANGED vars

-----------------------------------------------------------------------------
InitT ==
  /\ Init
  /\ op = "none" /\ step = "start" /\ issued = FALSE /\ tries = 0 /\ chunk = 0
  /\ outcome = "returned"

Driver == InCall /\ UNCHANGED transfer

Transfer == Issue \/ Continue

NextT ==
  \/ Arrive /\ UNCHANGED transfer
  \/ op = "none" /\ Connection /\ UNCHANGED transfer
  \/ op = "none" /\ Register /\ UNCHANGED transfer
  \/ Driver
  \/ Begin("read") \/ Begin("counters") \/ Begin("write")
  \/ Transfer

SpecT == InitT /\ [][NextT]_varsT

(* The calling thread runs, and the link delivers what it has not lost. *)
FairSpecT == SpecT /\ WF_varsT(Driver) /\ WF_varsT(Transfer) /\ WF_varsT(Arrive /\ UNCHANGED transfer)

-----------------------------------------------------------------------------
Steps == {"start", "move", "reset", "abort", "finally"}

TypeOKT ==
  /\ TypeOK
  /\ op \in {"none", "read", "counters", "write"} /\ step \in Steps /\ issued \in BOOLEAN
  /\ tries \in 0..Attempts /\ chunk \in 0..Chunks /\ outcome \in {"returned", "raised"}
  /\ op # "none" /\ ~issued => call = "none"

(* A read of memory or counters that ends well has every word of the       *)
(* transfer in its place, whatever the link lost and however often the     *)
(* transfer was restarted.                                                 *)
ReadExact ==
  /\ packet_id_mode \/ Prompt
  /\ op \in {"read", "counters"} /\ step = "reset"
  => data = [i \in 1..FifoWords |-> i]

(* A write_memory that ends well has written its whole area.  A request    *)
(* that is sent again writes on behind its chunk, so that the transfer may *)
(* have written beyond the area, but no chunk more often than Retries.     *)
WriteCovers ==
  /\ packet_id_mode \/ Prompt
  /\ op = "write" /\ step = "reset"
  => position \in Chunks..(Chunks * Retries)

-----------------------------------------------------------------------------
(* The answers can be told apart. *)
Trusted == packet_id_mode \/ Prompt

(* the words of the requests made so far *)
Asked == attempt * Packets

(* the next answer is one of the request in progress *)
Lined == Pipe # <<>> => Pipe[1].sent = sent

(* a packet is missing: the call will not get its words *)
Short == Len(data) + Len(Pipe) < Asked

(* words received and words to come are the words from the first on *)
Exact ==
  /\ Len(data) + Len(Pipe) = Asked
  /\ data = [i \in 1..Len(data) |-> i]
  /\ \A i \in DOMAIN Pipe : Pipe[i].word = Len(data) + i
  /\ position = Asked \/ \E i \in DOMAIN Pipe : ~Pipe[i].ok

FifoInv ==
  call = "fifo_read" /\ Trusted =>
    /\ data # <<>> => Lined
    /\ Lined => Short \/ Exact

Received == data = [i \in 1..FifoWords |-> i]

(* what is true once the request in progress was served *)
ServedInv(cmd, arg, P) ==
  /\ req.cmd = cmd /\ req.arg = arg /\ call \in {"none", cmd}
  /\ Trusted =>
       /\ \A i \in DOMAIN Pipe : Pipe[i].sent = sent /\ Pipe[i].ok => P
       /\ call = "none" /\ result = "returned" => ans = sent /\ P

Reading == op \in {"read", "counters"}

StartInv ==
  op # "none" /\ step = "start" =>
    /\ op = "write" => chunk = 0
    /\ issued => ServedInv("reg_write", "start", position = 0)

ReadInv ==
  /\ call = "fifo_read" => Reading /\ step = "move" /\ issued
  /\ Reading /\ step = "move" /\ ~issued /\ Trusted => ans = sent /\ position = 0
  /\ Reading /\ step = "move" /\ issued =>
       /\ call \in {"none", "fifo_read"}
       /\ Trusted /\ call = "none" /\ result = "returned" => Received

WriteInv ==
  op = "write" /\ step = "move" =>
    /\ chunk < Chunks
    /\ Trusted => position >= chunk
    /\ issued => ServedInv("fifo_write", "none", position > chunk)

(* each attempt at a chunk moves the position by at most one *)
RepeatsInv ==
  op = "write" /\ step = "move" =>
    /\ issued => attempt \in 1..Retries
    /\ Trusted => position <= chunk * Retries + (IF issued THEN attempt ELSE 0)

(* a reset leaves the position where it is *)
ResetInv ==
  op # "none" /\ step \in {"reset", "abort", "finally"} =>
    /\ step = "abort" => op = "read"
    /\ issued => req.arg = "reset" /\ call \in {"none", "reg_write"}

IInvT ==
  /\ TypeOKT /\ LinkInv /\ (op # "none" => opened /\ call # "detect")
  /\ FifoInv /\ StartInv /\ ReadInv /\ WriteInv /\ RepeatsInv /\ ResetInv
  /\ ReadExact /\ WriteCovers

(* A transfer ends, with its data or with an exception, though every call   *)
(* in it may fail.                                                          *)
TransferEnds == op # "none" ~> op = "none"
=============================================================================
