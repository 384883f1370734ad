------------------------------ MODULE UdpLink ------------------------------
(***************************************************************************)
(* transport.UdpLink: requests to the board over UDP, their retries, and   *)
(* the detection of the protocol generation.                               *)
(*                                                                         *)
(* UdpLink._lock lets one public method run at a time, so one call is in   *)
(* progress.  An answer is described by where it comes from: the request   *)
(* it answers and, for FIFO data, its packet's position in the transfer.   *)
(* The link may lose requests and answers, and may delay answers past the  *)
(* timeout; it is one Ethernet segment, which keeps their order.           *)
(***************************************************************************)
EXTENDS Integers, Sequences

CONSTANTS
  Firmwares,   \* generations of firmware: TRUE echoes packet identifiers
  Pids,        \* number of packet identifiers (256)
  Lifetime,    \* an answer arrives before this many later requests are sent
  Retries,     \* UdpLink.retries
  Packets,     \* answer packets of one FIFO request
  Requests,    \* FIFO requests of one fifo_read
  MaxCalls,    \* bound: calls
  MaxLost,     \* bound: requests and answers lost
  MaxLate,     \* bound: timeouts while an answer is still to come
  MaxErrors    \* bound: answers with an error status

ASSUME UdpLinkAssumption ==
  /\ Firmwares \subseteq BOOLEAN
  /\ Lifetime \in Nat /\ Pids \in Nat /\ Lifetime < Pids
  /\ Retries \in Nat \ {0} /\ Packets \in Nat \ {0} /\ Requests \in Nat \ {0}
  /\ MaxCalls \in Nat /\ MaxLost \in Nat /\ MaxLate \in Nat /\ MaxErrors \in Nat

VARIABLES
  firmware,        \* what the board speaks
  position,        \* where the board's data transfer logic stands
  is_open, packet_id_mode,
  pids,            \* calls of _next_pid; _pid is this modulo Pids
  call,            \* command of the call in progress, "detect", or "none"
  result,          \* how the last call ended: "returned" or "raised"
  req,             \* the request last built
  attempt,
  ans,             \* number of the request whose answer was accepted, 0 before
  data,            \* fifo_read's "out": positions of the words received
  wire,            \* answers on their way
  rx,              \* answers in the socket
  \* history
  opened,          \* open() returned since the last close()
  sent,            \* requests built
  calls, lost, late, errors

host == <<is_open, packet_id_mode, opened>>
asked == <<pids, req, attempt, sent>>
underway == <<position, wire, lost, errors>>
vars == <<firmware, host, asked, underway, call, result, ans, data, rx, calls, late>>

Commands == {"link_read", "reg_read", "reg_write", "fifo_write", "fifo_read"}

FifoWords == Packets * Requests

-----------------------------------------------------------------------------
(* The board and the wire *)

Answer(r, word) == [cmd |-> r.cmd, new |-> firmware, pid |-> r.pid, sent |-> r.sent,
                    word |-> word, ok |-> TRUE]

Answers(r) ==
  IF r.cmd = "fifo_read" THEN [i \in 1..Packets |-> Answer(r, position + i)]
                         ELSE <<Answer(r, 0)>>

(* A register write may start the data transfer; FIFO accesses advance it. *)
Position(r) ==
  CASE r.cmd = "fifo_read" -> position + Packets
    [] r.cmd = "fifo_write" -> position + 1
    [] r.arg = "start" -> 0
    [] OTHER -> position

(* New firmware does not answer a request that lacks the identifier. *)
Understood(r) == firmware => r.new

Drop(s, i) == [j \in 1..(Len(s) - 1) |-> s[IF j < i THEN j ELSE j + 1]]

(* _send: the board serves the request, or the request or one packet of its *)
(* answer is lost, or the board's access fails, as the status byte tells    *)
Transmit(r) ==
  \/ /\ Understood(r)
     /\ wire' = wire \o Answers(r) /\ position' = Position(r)
     /\ UNCHANGED <<lost, errors>>
  \/ /\ ~Understood(r)
     /\ UNCHANGED underway
  \/ /\ Understood(r) /\ lost < MaxLost /\ lost' = lost + 1
     /\ \/ UNCHANGED <<wire, position>>
        \/ /\ position' = Position(r)
           /\ \E i \in DOMAIN Answers(r) : wire' = wire \o Drop(Answers(r), i)
     /\ UNCHANGED errors
  \/ /\ Understood(r) /\ r.cmd # "link_read" /\ errors < MaxErrors /\ errors' = errors + 1
     /\ position' \in {position, Position(r)}
     /\ \E i \in DOMAIN Answers(r) : wire' = wire \o [Answers(r) EXCEPT ![i].ok = FALSE]
     /\ UNCHANGED lost

Arrive ==
  /\ wire # <<>>
  /\ rx' = IF is_open THEN Append(rx, Head(wire)) ELSE rx
  /\ wire' = Tail(wire)
  /\ UNCHANGED <<firmware, host, asked, position, lost, errors, call, result, ans, data,
                 calls, late>>

-----------------------------------------------------------------------------
(* Requests and answers *)

NextPid == pids' = pids + 1

(* _pid *)
Pid(n) == n % Pids

(* a request of the new format carries the next identifier; no answer older *)
(* than Lifetime requests is still on its way                               *)
Build(cmd, arg, new) ==
  /\ \A i \in DOMAIN wire : sent - wire[i].sent < Lifetime
  /\ IF new THEN NextPid ELSE UNCHANGED pids
  /\ sent' = sent + 1
  /\ req' = [cmd |-> cmd, arg |-> arg, new |-> new,
             pid |-> IF new THEN Pid(pids') ELSE 0, sent |-> sent']

(* a public method builds its header and sends the request *)
Request(cmd, arg) ==
  /\ Build(cmd, arg, packet_id_mode)
  /\ call' = cmd /\ attempt' = 1 /\ ans' = 0
  /\ Transmit(req')
  /\ UNCHANGED <<firmware, host, result, rx, late>>

End(how) == call' = "none" /\ result' = how

(* recv runs into the timeout: nothing came, or nothing yet *)
NoAnswer ==
  /\ rx = <<>>
  /\ \/ wire = <<>> /\ UNCHANGED late
     \/ wire # <<>> /\ late < MaxLate /\ late' = late + 1

(* mutant: any answer of the command's is taken *)
CommandMatches(a) == a.cmd = req.cmd

(* the answer's command and _check_pid *)
Matches(a) == a.cmd = req.cmd /\ (packet_id_mode => a.pid = req.pid)

(* mutant: the status byte is not looked at *)
StatusIgnored(a) == TRUE

StatusFine(a) == a.ok

-----------------------------------------------------------------------------
(* open, close, _detect_protocol *)

Open ==
  /\ call = "none" /\ ~is_open /\ calls < MaxCalls
  /\ calls' = calls + 1
  /\ is_open' = TRUE /\ UNCHANGED <<packet_id_mode, opened>>
  /\ rx' = <<>>
  /\ Build("link_read", "none", TRUE)
  /\ call' = "detect" /\ attempt' = 1 /\ ans' = 0
  /\ Transmit(req')
  /\ UNCHANGED <<firmware, result, data, late>>

(* open() of an open socket returns at once *)
OpenAgain ==
  /\ call = "none" /\ is_open /\ ~opened
  /\ opened' = TRUE
  /\ UNCHANGED <<firmware, is_open, packet_id_mode, asked, underway, call, result, ans,
                 data, rx, calls, late>>

Close ==
  /\ call = "none" /\ is_open
  /\ is_open' = FALSE /\ opened' = FALSE
  /\ rx' = <<>>
  /\ UNCHANGED <<firmware, packet_id_mode, asked, underway, call, result, ans, data, calls,
                 late>>

(* an answer that echoes the identifier, or one in the old format *)
ShowsProtocol(a) == a.cmd = "link_read" /\ (a.new => a.pid = req.pid)

Detected(a) ==
  /\ packet_id_mode' = a.new /\ opened' = TRUE /\ UNCHANGED is_open
  /\ End("returned")
  /\ UNCHANGED <<asked, underway>>

(* the next attempt, with a new identifier, or the exception of the last *)
DetectAgain ==
  /\ IF attempt < Retries
       THEN /\ Build("link_read", "none", TRUE)
            /\ attempt' = attempt + 1
            /\ Transmit(req')
            /\ UNCHANGED <<call, result>>
       ELSE End("raised") /\ UNCHANGED <<asked, underway>>
  /\ UNCHANGED host

DetectAnswer ==
  /\ call = "detect" /\ rx # <<>>
  /\ IF ShowsProtocol(Head(rx)) THEN Detected(Head(rx)) ELSE DetectAgain
  /\ rx' = Tail(rx)
  /\ UNCHANGED <<firmware, ans, data, calls, late>>

DetectTimeout ==
  /\ call = "detect"
  /\ NoAnswer
  /\ DetectAgain
  /\ UNCHANGED <<firmware, ans, data, rx, calls>>

-----------------------------------------------------------------------------
(* _exchange: link_read, read_list, write_list, one chunk of fifo_write *)

Exchanges == Commands \ {"fifo_read"}

(* arg: what a write does to the data transfer logic *)
Exchange(cmd, arg) ==
  /\ call = "none" /\ opened
  /\ Request(cmd, arg)
  /\ UNCHANGED <<data>>

(* mutant: what came meanwhile is not discarded *)
Undrained == rx

(* _drain *)
Drained == <<>>

(* the same request again, after a _drain, or the exception of the last try *)
ExchangeAgain(left) ==
  IF attempt < Retries
    THEN /\ rx' = Drained
         /\ attempt' = attempt + 1
         /\ Transmit(req)
         /\ UNCHANGED <<pids, req, sent, call, result>>
    ELSE /\ rx' = left
         /\ End("raised")
         /\ UNCHANGED <<asked, underway>>

ExchangeAnswer ==
  /\ call \in Exchanges /\ rx # <<>>
  /\ LET a == Head(rx) IN
       IF Matches(a)
         THEN /\ ans' = a.sent
              /\ End(IF StatusFine(a) THEN "returned" ELSE "raised")
              /\ rx' = Tail(rx)
              /\ UNCHANGED <<asked, underway>>
         ELSE ExchangeAgain(Tail(rx)) /\ UNCHANGED ans
  /\ UNCHANGED <<firmware, host, data, calls, late>>

ExchangeTimeout ==
  /\ call \in Exchanges
  /\ NoAnswer
  /\ ExchangeAgain(rx)
  /\ UNCHANGED <<firmware, host, ans, data, calls>>

-----------------------------------------------------------------------------
(* fifo_read *)

FifoRead ==
  /\ call = "none" /\ opened
  /\ Request("fifo_read", "none")
  /\ data' = <<>>

(* the packets of the request are in, and there is another request *)
NextFifoRequest ==
  /\ call = "fifo_read"
  /\ Len(data) < FifoWords /\ Len(data) = attempt * Packets
  /\ Build("fifo_read", "none", packet_id_mode)
  /\ attempt' = attempt + 1 /\ ans' = 0
  /\ Transmit(req')
  /\ UNCHANGED <<firmware, host, call, result, data, rx, calls, late>>

FifoPacket ==
  /\ call = "fifo_read" /\ rx # <<>> /\ Len(data) < attempt * Packets
  /\ LET a == Head(rx) IN
       IF Matches(a) /\ StatusFine(a)
         THEN /\ data' = Append(data, a.word)
              /\ ans' = a.sent
              /\ IF Len(data') = FifoWords THEN End("returned")
                                           ELSE UNCHANGED <<call, result>>
         ELSE End("raised") /\ UNCHANGED <<data, ans>>
  /\ rx' = Tail(rx)
  /\ UNCHANGED <<firmware, host, asked, underway, calls, late>>

(* mutant: fifo_read waits on for a lost packet *)
FifoWaits ==
  /\ call = "fifo_read" /\ Len(data) < attempt * Packets
  /\ NoAnswer
  /\ UNCHANGED <<firmware, host, asked, underway, call, result, ans, data, rx, calls>>

FifoTimeout ==
  /\ call = "fifo_read" /\ Len(data) < attempt * Packets
  /\ NoAnswer
  /\ End("raised")
  /\ UNCHANGED <<firmware, host, asked, underway, ans, data, rx, calls>>

-----------------------------------------------------------------------------
Init ==
  /\ firmware \in Firmwares
  /\ position = 0
  /\ is_open = FALSE /\ packet_id_mode = FALSE /\ opened = FALSE
  /\ pids = 0 /\ call = "none" /\ result = "returned"
  /\ req = [cmd |-> "none", arg |-> "none", new |-> FALSE, pid |-> 0, sent |-> 0]
  /\ attempt = 0 /\ ans = 0 /\ data = <<>>
  /\ wire = <<>> /\ rx = <<>>
  /\ sent = 0 /\ calls = 0 /\ lost = 0 /\ late = 0 /\ errors = 0

Connection == Open \/ OpenAgain \/ Close

InCall == DetectAnswer \/ DetectTimeout \/ ExchangeAnswer \/ ExchangeTimeout
          \/ NextFifoRequest \/ FifoPacket \/ FifoTimeout

Register ==
  /\ calls < MaxCalls /\ calls' = calls + 1
  /\ \/ Exchange("link_read", "none") \/ Exchange("reg_read", "none")
     \/ Exchange("reg_write", "start") \/ Exchange("fifo_write", "none")

Fifo == calls < MaxCalls /\ calls' = calls + 1 /\ FifoRead

Next == Arrive \/ Connection \/ InCall \/ Register \/ Fifo

Spec == Init /\ [][Next]_vars

-----------------------------------------------------------------------------
AnswerRecord == [cmd : Commands, new : BOOLEAN, pid : 0..(Pids - 1), sent : Nat,
                 word : Nat, ok : BOOLEAN]

RequestRecord == [cmd : Commands \union {"none"}, arg : {"none", "start", "reset"},
                  new : BOOLEAN, pid : 0..(Pids - 1), sent : Nat]

TypeOK ==
  /\ firmware \in Firmwares /\ position \in Nat
  /\ is_open \in BOOLEAN /\ packet_id_mode \in BOOLEAN /\ opened \in BOOLEAN
  /\ call \in Commands \union {"none", "detect"} /\ result \in {"returned", "raised"}
  /\ sent \in Nat /\ pids \in 0..sent /\ req \in RequestRecord
  /\ attempt \in Nat /\ ans \in 0..sent /\ data \in Seq(Nat)
  /\ wire \in Seq(AnswerRecord) /\ rx \in Seq(AnswerRecord)
  /\ calls \in 0..MaxCalls /\ lost \in 0..MaxLost /\ late \in 0..MaxLate
  /\ errors \in 0..MaxErrors

(* The network made no answer late, and no status cut an answer short. *)
Prompt == late = 0 /\ errors = 0

(* An accepted answer is the answer to this very request: always with       *)
(* packet identifiers, and without them as long as no answer is late.       *)
AnswersRight == (packet_id_mode \/ Prompt) /\ ans # 0 => ans = req.sent

(* transport.py:11: the generation "is detected on open()". *)
OpenDetects == opened => packet_id_mode = firmware

-----------------------------------------------------------------------------
(* What MemoryTransfer's invariant needs of the link. *)

(* the answers still to be looked at, in their order *)
Pipe == rx \o wire

(* socket, call and the request in progress belong together *)
CallInv ==
  /\ ~is_open => rx = <<>> /\ ~opened /\ call = "none"
  /\ packet_id_mode => firmware
  /\ req.sent = sent /\ (req.new => pids > 0 /\ req.pid = Pid(pids))
  /\ call = "detect" => req.cmd = "link_read" /\ req.new /\ ans = 0
  /\ call \in Commands => opened /\ req.cmd = call /\ req.new = packet_id_mode
  /\ call \in Exchanges \union {"detect"} => attempt \in 1..Retries
  /\ call = "fifo_read" => attempt \in 1..Requests /\ Len(data) <= attempt * Packets

(* answers come in the order of their requests, those of the wire in time *)
OrderInv ==
  /\ \A i \in DOMAIN Pipe : Pipe[i].sent \in ans..sent
  /\ \A i, j \in DOMAIN Pipe : i <= j => Pipe[i].sent <= Pipe[j].sent
  /\ \A i \in DOMAIN wire : sent - wire[i].sent <= Lifetime

(* a's identifier was the k-th: since then there were no more identifiers   *)
(* than requests, and only the request in progress may have the last one    *)
Numbered(a, k) ==
  /\ a.pid = Pid(k) /\ pids - k <= sent - a.sent
  /\ k = pids /\ req.new => a.sent = sent

(* an answer's identifier tells its request *)
NumberInv ==
  \A i \in DOMAIN Pipe :
    /\ Pipe[i].new = firmware
    /\ Pipe[i].sent = sent => Pipe[i].cmd = req.cmd /\ Pipe[i].pid = req.pid
    /\ firmware => \E k \in 1..pids : Numbered(Pipe[i], k)

(* how many requests old an answer can be: a repeated request has drained   *)
(* the socket, the attempts of the detection do not                         *)
Oldest ==
  CASE call = "detect" -> Lifetime + attempt - 1
    [] call = "none" -> Lifetime + Retries - 1
    [] call = "fifo_read" -> 1
    [] OTHER -> IF attempt = 1 THEN Lifetime + Retries ELSE Lifetime

BacklogInv ==
  call = "detect" \/ packet_id_mode => \A i \in DOMAIN Pipe : sent - Pipe[i].sent <= Oldest

(* without delays and errors only the request in progress has answers *)
QuietInv ==
  Prompt =>
    /\ \A i \in DOMAIN Pipe : Pipe[i].sent = sent /\ Pipe[i].ok
    /\ call = "none" => Pipe = <<>>
    /\ call # "fifo_read" => Len(Pipe) <= 1

LinkInv == CallInv /\ OrderInv /\ NumberInv /\ BacklogInv /\ QuietInv /\ AnswersRight
=============================================================================
