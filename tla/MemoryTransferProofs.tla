------------------------ MODULE MemoryTransferProofs ------------------------
(***************************************************************************)
(* For any number of packets, requests, retries, attempts and chunks, any  *)
(* losses, delays and errors: the invariant of the link and of the         *)
(* transfers run over it. An answer that is accepted answers the request   *)
(* in progress; a read that ends well has every word in its place, and a   *)
(* write that ends well has written its area.                              *)
(***************************************************************************)
EXTENDS MemoryTransfer, SequenceTheorems, TLAPS

-----------------------------------------------------------------------------
(* Sequences and remainders *)

(* Equal remainders of numbers less than a cycle apart. *)
LEMMA SameNumber ==
  ASSUME NEW p \in Nat, p > 0, NEW k \in Nat, NEW n \in Nat, k <= n, n - k < p,
         k % p = n % p
  PROVE  k = n
<1> DEFINE q == k \div p
           r == n \div p
<1>1. q \in Int /\ r \in Int /\ k = p * q + (k % p) /\ n = p * r + (n % p)
  BY SMT
<1>2. p * (r - q) = n - k
  <2>1. p * r - p * q = n - k
    BY <1>1
  <2>2. p * (r - q) = p * r - p * q
    BY <1>1, SMT
  <2> QED
    BY <2>1, <2>2
<1> HIDE DEF q, r
<1>3. r - q = 0
  <2>1. r - q >= 1 => p * (r - q) >= p
    BY <1>1, SMT
  <2>2. r - q <= -1 => p * (r - q) <= -p
    BY <1>1, SMT
  <2> QED
    BY <1>1, <1>2, <2>1, <2>2
<1> QED
  BY <1>1, <1>2, <1>3

(* A sequence without one of its elements. *)
LEMMA DropSeq ==
  ASSUME NEW S, NEW s \in Seq(S), NEW i \in DOMAIN s
  PROVE  /\ Drop(s, i) \in Seq(S) /\ Len(Drop(s, i)) = Len(s) - 1
         /\ \A j \in DOMAIN Drop(s, i) : \E l \in DOMAIN s : Drop(s, i)[j] = s[l]
<1>1. Len(s) \in Nat /\ DOMAIN s = 1..Len(s) /\ i \in 1..Len(s)
  BY LenProperties
<1>2. \A j \in 1..(Len(s) - 1) : (IF j < i THEN j ELSE j + 1) \in DOMAIN s
  BY <1>1
<1>3. \A l \in DOMAIN s : s[l] \in S
  BY <1>1, ElementOfSeq
<1>4. \A j \in 1..(Len(s) - 1) : s[IF j < i THEN j ELSE j + 1] \in S
  BY <1>2, <1>3
<1>5. Len(s) - 1 \in Nat
  BY <1>1
<1>6. Drop(s, i) \in [1..(Len(s) - 1) -> S]
  BY <1>4 DEF Drop
<1>7. Drop(s, i) \in Seq(S)
  BY <1>5, <1>6, SeqDef
<1>8. Len(Drop(s, i)) = Len(s) - 1
  BY <1>5, <1>6, <1>7, LenProperties
<1> QED
  BY <1>2, <1>6, <1>7, <1>8 DEF Drop

-----------------------------------------------------------------------------
(* The answers to be looked at *)

(* the first k are gone, and those of X come behind the rest *)
Moved(k, X) ==
  /\ k \in 0..Len(Pipe) /\ Len(Pipe') = Len(Pipe) - k + Len(X)
  /\ \A i \in 1..(Len(Pipe) - k) : Pipe'[i] = Pipe[k + i]
  /\ \A i \in 1..Len(X) : Pipe'[Len(Pipe) - k + i] = X[i]

(* The pipe is a sequence of answers, those of the socket before those of   *)
(* the wire.                                                                *)
LEMMA PipeType ==
  ASSUME TypeOK
  PROVE  /\ Pipe \in Seq(AnswerRecord) /\ Len(Pipe) = Len(rx) + Len(wire) /\ Len(Pipe) \in Nat
         /\ DOMAIN Pipe = 1..Len(Pipe)
         /\ \A i \in DOMAIN Pipe : Pipe[i] = IF i <= Len(rx) THEN rx[i] ELSE wire[i - Len(rx)]
         /\ \A i \in DOMAIN Pipe : Pipe[i] \in AnswerRecord
         /\ Len(rx) \in Nat /\ Len(wire) \in Nat
         /\ DOMAIN rx = 1..Len(rx) /\ DOMAIN wire = 1..Len(wire)
<1>1. rx \in Seq(AnswerRecord) /\ wire \in Seq(AnswerRecord)
  BY DEF TypeOK
<1>2. /\ Pipe \in Seq(AnswerRecord) /\ Len(Pipe) = Len(rx) + Len(wire)
      /\ \A i \in 1..(Len(rx) + Len(wire)) :
           Pipe[i] = IF i <= Len(rx) THEN rx[i] ELSE wire[i - Len(rx)]
  BY <1>1, ConcatProperties DEF Pipe
<1>3. /\ Len(rx) \in Nat /\ Len(wire) \in Nat /\ Len(Pipe) \in Nat
      /\ DOMAIN Pipe = 1..Len(Pipe) /\ DOMAIN rx = 1..Len(rx) /\ DOMAIN wire = 1..Len(wire)
  BY <1>1, <1>2, LenProperties
<1>4. \A i \in DOMAIN Pipe : Pipe[i] \in AnswerRecord
  BY <1>2, <1>3, ElementOfSeq
<1> QED
  BY <1>2, <1>3, <1>4

LEMMA NextPipeType ==
  ASSUME TypeOK'
  PROVE  Pipe' \in Seq(AnswerRecord) /\ Len(Pipe') \in Nat /\ DOMAIN Pipe' = 1..Len(Pipe')
<1>1. rx' \in Seq(AnswerRecord) /\ wire' \in Seq(AnswerRecord)
  BY DEF TypeOK
<1>2. Pipe' \in Seq(AnswerRecord)
  BY <1>1, ConcatProperties DEF Pipe
<1> QED
  BY <1>2, LenProperties

(* The numbers of requests. *)
LEMMA CountTypes ==
  ASSUME TypeOK
  PROVE  /\ sent \in Nat /\ pids \in Nat /\ pids <= sent /\ ans \in Nat /\ ans <= sent
         /\ attempt \in Nat /\ position \in Nat /\ Len(data) \in Nat
  BY LenProperties DEF TypeOK

LEMMA NextCountTypes ==
  ASSUME TypeOK'
  PROVE  /\ sent' \in Nat /\ pids' \in Nat /\ pids' <= sent' /\ ans' \in Nat /\ ans' <= sent'
         /\ attempt' \in Nat /\ position' \in Nat /\ Len(data') \in Nat
  BY LenProperties DEF TypeOK

(* The socket loses its first answers, and the wire gets more. *)
LEMMA PipeMoves ==
  ASSUME TypeOK, NEW X \in Seq(AnswerRecord), wire' = wire \o X,
         NEW k \in 0..Len(rx), rx' \in Seq(AnswerRecord), Len(rx') = Len(rx) - k,
         \A i \in 1..(Len(rx) - k) : rx'[i] = rx[k + i]
  PROVE  Moved(k, X)
<1> DEFINE n == Len(rx)
           m == Len(wire)
           x == Len(X)
<1>1. /\ n \in Nat /\ m \in Nat /\ x \in Nat /\ Len(Pipe) = n + m /\ DOMAIN Pipe = 1..(n + m)
      /\ \A i \in 1..(n + m) : Pipe[i] = IF i <= n THEN rx[i] ELSE wire[i - n]
  BY PipeType, LenProperties
<1>2. /\ wire' \in Seq(AnswerRecord) /\ Len(wire') = m + x
      /\ \A i \in 1..(m + x) : wire'[i] = IF i <= m THEN wire[i] ELSE X[i - m]
  BY ConcatProperties DEF TypeOK
<1>3. /\ Len(Pipe') = (n - k) + (m + x)
      /\ \A i \in 1..((n - k) + (m + x)) :
           Pipe'[i] = IF i <= n - k THEN rx'[i] ELSE wire'[i - (n - k)]
  <2>1. /\ Len(rx' \o wire') = Len(rx') + Len(wire')
        /\ \A i \in 1..(Len(rx') + Len(wire')) :
             (rx' \o wire')[i] = IF i <= Len(rx') THEN rx'[i] ELSE wire'[i - Len(rx')]
    BY <1>2, ConcatProperties
  <2> QED
    BY <1>2, <2>1 DEF Pipe
<1>4. k \in 0..(n + m) /\ k \in Int /\ k <= n
  BY <1>1
<1>5. \A i \in 1..(n + m - k) : Pipe'[i] = Pipe[k + i]
  <2> SUFFICES ASSUME NEW i \in 1..(n + m - k) PROVE Pipe'[i] = Pipe[k + i]
    OBVIOUS
  <2>1. k + i \in 1..(n + m) /\ i \in 1..((n - k) + (m + x))
    BY <1>1, <1>4
  <2>2. CASE i <= n - k
    BY <1>1, <1>3, <1>4, <2>1, <2>2
  <2>3. CASE i > n - k
    <3>1. Pipe[k + i] = wire[k + i - n]
      BY <1>1, <1>4, <2>1, <2>3
    <3>2. Pipe'[i] = wire'[i - (n - k)]
      BY <1>1, <1>3, <1>4, <2>1, <2>3
    <3>3. i - (n - k) = k + i - n /\ i - (n - k) \in 1..(m + x) /\ i - (n - k) <= m
      BY <1>1, <1>4, <2>3
    <3> QED
      BY <1>2, <3>1, <3>2, <3>3
  <2> QED
    BY <1>1, <1>4, <2>2, <2>3
<1>6. \A i \in 1..x : Pipe'[n + m - k + i] = X[i]
  <2> SUFFICES ASSUME NEW i \in 1..x PROVE Pipe'[n + m - k + i] = X[i]
    OBVIOUS
  <2>1. /\ n + m - k + i \in 1..((n - k) + (m + x)) /\ n + m - k + i > n - k
        /\ (n + m - k + i) - (n - k) = m + i /\ m + i \in 1..(m + x) /\ m + i > m
        /\ (m + i) - m = i
    BY <1>1, <1>4
  <2>2. Pipe'[n + m - k + i] = wire'[m + i]
    <3> DEFINE j == n + m - k + i
    <3>1. j \in 1..((n - k) + (m + x)) /\ ~(j <= n - k) /\ j - (n - k) = m + i
      BY <1>1, <1>4, <2>1
    <3>2. Pipe'[j] = wire'[j - (n - k)]
      <4> HIDE DEF n, m, x, j
      <4> QED
        BY <1>3, <3>1
    <3> QED
      BY <3>1, <3>2
  <2>3. wire'[m + i] = X[i]
    <3> HIDE DEF n, m, x
    <3> QED
      BY <1>1, <1>2, <2>1
  <2> QED
    BY <2>2, <2>3
<1>7. Len(Pipe) = n + m /\ Len(Pipe') = n + m - k + x /\ k \in 0..Len(Pipe)
  BY <1>1, <1>3, <1>4
<1>8. Len(Pipe) - k = n + m - k
  BY <1>7
<1>9. /\ \A i \in 1..(Len(Pipe) - k) : Pipe'[i] = Pipe[k + i]
      /\ \A i \in 1..x : Pipe'[Len(Pipe) - k + i] = X[i]
      /\ Len(Pipe') = Len(Pipe) - k + x
  <2> HIDE DEF n, m, x
  <2> QED
    BY <1>5, <1>6, <1>7, <1>8, ZenonT(30)
<1> QED
  BY <1>7, <1>9, Zenon DEF Moved

(* a request is sent, with the socket left alone *)
LEMMA PipeSend ==
  ASSUME TypeOK, NEW X \in Seq(AnswerRecord), wire' = wire \o X, rx' = rx
  PROVE  Moved(0, X)
<1>1. rx' \in Seq(AnswerRecord) /\ Len(rx) \in Nat
  BY PipeType DEF TypeOK
<1>2. 0 \in 0..Len(rx) /\ Len(rx') = Len(rx) - 0 /\ \A i \in 1..(Len(rx) - 0) : rx'[i] = rx[0 + i]
  BY <1>1
<1> QED
  BY <1>1, <1>2, PipeMoves, Zenon

(* a request is sent, or none, with the socket emptied *)
LEMMA PipeDrain ==
  ASSUME TypeOK, NEW X \in Seq(AnswerRecord), wire' = wire \o X, rx' = <<>>
  PROVE  Moved(Len(rx), X)
<1>1. <<>> \in Seq(AnswerRecord) /\ Len(<<>>) = 0 /\ Len(rx) \in Nat
  BY PipeType
<1>2. /\ Len(rx) \in 0..Len(rx) /\ Len(rx') = Len(rx) - Len(rx) /\ rx' \in Seq(AnswerRecord)
      /\ \A i \in 1..(Len(rx) - Len(rx)) : rx'[i] = rx[Len(rx) + i]
  BY <1>1
<1> QED
  BY <1>2, PipeMoves

(* the first answer is received, and a request sent or none *)
LEMMA PipeTake ==
  ASSUME TypeOK, NEW X \in Seq(AnswerRecord), wire' = wire \o X, rx # <<>>, rx' = Tail(rx)
  PROVE  /\ Moved(1, X) /\ 1 \in DOMAIN Pipe /\ Head(rx) = Pipe[1] /\ Head(rx) \in AnswerRecord
<1>1. /\ rx \in Seq(AnswerRecord) /\ Len(rx) \in Nat /\ Len(rx) # 0
      /\ Tail(rx) \in Seq(AnswerRecord) /\ Len(Tail(rx)) = Len(rx) - 1
      /\ \A i \in 1..(Len(rx) - 1) : Tail(rx)[i] = rx[1 + i]
      /\ Head(rx) \in AnswerRecord
  BY PipeType, HeadTailProperties, EmptySeq DEF TypeOK
<1>2. Moved(1, X)
  <2>1. /\ 1 \in 0..Len(rx) /\ Len(rx') = Len(rx) - 1 /\ rx' \in Seq(AnswerRecord)
        /\ \A i \in 1..(Len(rx) - 1) : rx'[i] = rx[1 + i]
    BY <1>1
  <2> QED
    BY <2>1, PipeMoves
<1>3. 1 \in DOMAIN Pipe /\ Head(rx) = Pipe[1]
  <2>1. Head(rx) = rx[1] /\ 1 <= Len(rx)
    BY <1>1
  <2>2. Len(wire) \in Nat /\ 1 \in 1..(Len(rx) + Len(wire))
    BY <1>1, <2>1, PipeType
  <2> QED
    BY <1>1, <2>1, <2>2, PipeType
<1> QED
  BY <1>1, <1>2, <1>3

(* An answer goes from the wire to the socket, or is lost at a closed one. *)
LEMMA PipeArrive ==
  ASSUME TypeOK, ~is_open => rx = <<>>, Arrive
  PROVE  /\ Moved(IF is_open THEN 0 ELSE 1, <<>>)
         /\ rx' \in Seq(AnswerRecord) /\ wire' \in Seq(AnswerRecord)
         /\ \A i \in DOMAIN wire' : \E j \in DOMAIN wire : wire'[i] = wire[j]
<1> DEFINE n == Len(rx)
           m == Len(wire)
<1>1. /\ n \in Nat /\ m \in Nat /\ Len(Pipe) = n + m /\ DOMAIN wire = 1..m
      /\ \A i \in 1..(n + m) : Pipe[i] = IF i <= n THEN rx[i] ELSE wire[i - n]
      /\ rx \in Seq(AnswerRecord) /\ wire \in Seq(AnswerRecord)
  BY PipeType DEF TypeOK
<1>2. /\ wire' = Tail(wire) /\ wire' \in Seq(AnswerRecord) /\ Len(wire') = m - 1 /\ m - 1 \in Nat
      /\ \A i \in 1..(m - 1) : wire'[i] = wire[i + 1]
      /\ Head(wire) \in AnswerRecord /\ Head(wire) = wire[1]
  BY <1>1, HeadTailProperties, EmptySeq DEF Arrive
<1>3. \A i \in DOMAIN wire' : \E j \in DOMAIN wire : wire'[i] = wire[j]
  <2>1. DOMAIN wire' = 1..(m - 1)
    BY <1>2, LenProperties
  <2>2. \A i \in 1..(m - 1) : i + 1 \in 1..m
    BY <1>1
  <2> QED
    BY <1>1, <1>2, <2>1, <2>2
<1>4. Len(<<>>) = 0
  OBVIOUS
<1>5. CASE is_open
  <2>1. /\ rx' = Append(rx, wire[1]) /\ rx' \in Seq(AnswerRecord) /\ Len(rx') = n + 1
        /\ \A i \in 1..n : rx'[i] = rx[i]
        /\ rx'[n + 1] = wire[1]
    BY <1>1, <1>2, <1>5, AppendProperties DEF Arrive
  <2>2. /\ Len(Pipe') = n + m
        /\ \A i \in 1..(n + m) : Pipe'[i] = IF i <= n + 1 THEN rx'[i] ELSE wire'[i - (n + 1)]
    BY <1>1, <1>2, <2>1, ConcatProperties DEF Pipe
  <2>3. \A i \in 1..(n + m) : Pipe'[i] = Pipe[i]
    <3> SUFFICES ASSUME NEW i \in 1..(n + m) PROVE Pipe'[i] = Pipe[i]
      OBVIOUS
    <3>1. CASE i <= n
      BY <1>1, <2>1, <2>2, <3>1
    <3>2. CASE i = n + 1
      BY <1>1, <2>1, <2>2, <3>2
    <3>3. CASE i > n + 1
      <4>1. i - (n + 1) \in 1..(m - 1) /\ (i - (n + 1)) + 1 = i - n /\ i > n /\ ~(i <= n + 1) /\ ~(i <= n)
        BY <1>1, <3>3
      <4> QED
        BY <1>1, <1>2, <2>2, <4>1
    <3> QED
      BY <1>1, <3>1, <3>2, <3>3
  <2> QED
    BY <1>1, <1>2, <1>3, <1>4, <1>5, <2>1, <2>2, <2>3 DEF Moved
<1>6. CASE ~is_open
  <2>1. rx = <<>> /\ rx' = <<>> /\ n = 0
    BY <1>6 DEF Arrive
  <2>2. Pipe' = wire' /\ Pipe = wire
    BY <1>1, <1>2, <2>1, ConcatEmptySeq DEF Pipe
  <2>3. \A i \in 1..(m - 1) : i + 1 = 1 + i
    BY <1>1
  <2> QED
    BY <1>1, <1>2, <1>3, <1>4, <1>6, <2>1, <2>2, <2>3 DEF Moved
<1> QED
  BY <1>5, <1>6

-----------------------------------------------------------------------------
(* Requests *)

Expected(r) == IF r.cmd = "fifo_read" THEN Packets ELSE 1

(* r was sent, and X are its answers *)
Answering(X, r) ==
  /\ X \in Seq(AnswerRecord) /\ wire' = wire \o X /\ Len(X) <= Expected(r)
  /\ \A j \in 1..Len(X) :
       X[j].cmd = r.cmd /\ X[j].pid = r.pid /\ X[j].sent = r.sent /\ X[j].new = firmware
  /\ X # <<>> => Understood(r)
  /\ position' \in {position, Position(r)} /\ position' \in Nat
  /\ Len(X) = Expected(r) =>
       /\ r.cmd = "fifo_read" => \A j \in 1..Len(X) : X[j].word = position + j
       /\ position' = Position(r) \/ \E j \in 1..Len(X) : ~X[j].ok
  /\ lost' \in 0..MaxLost /\ errors' \in 0..MaxErrors
  /\ errors' = 0 => errors = 0 /\ \A j \in 1..Len(X) : X[j].ok

(* What a request leaves of itself, served, lost or failed. *)
LEMMA Transmitted ==
  ASSUME TypeOK, NEW r \in RequestRecord, r.cmd # "none", Transmit(r)
  PROVE  \E X : Answering(X, r)
<1> DEFINE A == Answers(r)
           e == Expected(r)
<1>1. /\ position \in Nat /\ Packets \in Nat \ {0} /\ firmware \in BOOLEAN
      /\ lost \in 0..MaxLost /\ errors \in 0..MaxErrors /\ MaxLost \in Nat /\ MaxErrors \in Nat
      /\ e \in Nat \ {0} /\ wire \in Seq(AnswerRecord)
  BY UdpLinkAssumption DEF TypeOK, Expected
<1>2. Position(r) \in Nat
  BY <1>1 DEF Position
<1>3. ASSUME NEW w \in Nat PROVE Answer(r, w) \in AnswerRecord
  <2>1. r.cmd \in Commands /\ r.pid \in 0..(Pids - 1) /\ r.sent \in Nat
    BY DEF RequestRecord
  <2> QED
    BY <1>1, <2>1 DEF Answer, AnswerRecord
<1>4. /\ A \in Seq(AnswerRecord) /\ Len(A) = e
      /\ \A j \in 1..e : \E w \in Nat :
           A[j] = Answer(r, w) /\ (r.cmd = "fifo_read" => w = position + j)
  <2>1. CASE r.cmd = "fifo_read"
    <3>1. A = [i \in 1..Packets |-> Answer(r, position + i)] /\ e = Packets
      BY <2>1 DEF Answers, Expected
    <3>2. \A i \in 1..Packets : position + i \in Nat
      BY <1>1
    <3>3. A \in [1..Packets -> AnswerRecord]
      BY <1>3, <3>1, <3>2
    <3>4. A \in Seq(AnswerRecord)
      BY <1>1, <3>3, SeqDef
    <3>5. Len(A) = e
      BY <1>1, <3>1, <3>3, <3>4, LenProperties
    <3> QED
      BY <3>1, <3>2, <3>4, <3>5
  <2>2. CASE r.cmd # "fifo_read"
    <3>1. A = <<Answer(r, 0)>> /\ e = 1
      BY <2>2 DEF Answers, Expected
    <3>2. Answer(r, 0) \in AnswerRecord
      BY <1>3
    <3> QED
      BY <2>2, <3>1, <3>2
  <2> QED
    BY <2>1, <2>2
<1>5. DOMAIN A = 1..e
  BY <1>4, LenProperties
<1>6. \A j \in 1..e : /\ A[j].cmd = r.cmd /\ A[j].pid = r.pid /\ A[j].sent = r.sent
                      /\ A[j].new = firmware /\ A[j].ok
                      /\ (r.cmd = "fifo_read" => A[j].word = position + j)
  BY <1>4 DEF Answer
<1>7. <<>> \in Seq(AnswerRecord) /\ Len(<<>>) = 0 /\ wire \o <<>> = wire
  BY <1>1, ConcatEmptySeq
<1> HIDE DEF A, e
<1>8. CASE /\ Understood(r) /\ wire' = wire \o Answers(r) /\ position' = Position(r)
           /\ UNCHANGED <<lost, errors>>
  <2>1. Answering(A, r)
    BY <1>1, <1>2, <1>4, <1>6, <1>8 DEF Answering, A, e
  <2> QED
    BY <2>1
<1>9. CASE ~Understood(r) /\ UNCHANGED underway
  <2>1. Answering(<<>>, r)
    BY <1>1, <1>7, <1>9 DEF Answering, underway, e
  <2> QED
    BY <2>1
<1>10. CASE /\ Understood(r) /\ lost < MaxLost /\ lost' = lost + 1 /\ UNCHANGED errors
            /\ \/ UNCHANGED <<wire, position>>
               \/ /\ position' = Position(r)
                  /\ \E i \in DOMAIN Answers(r) : wire' = wire \o Drop(Answers(r), i)
  <2>1. lost' \in 0..MaxLost
    BY <1>1, <1>10
  <2>2. CASE UNCHANGED <<wire, position>>
    <3>1. Answering(<<>>, r)
      BY <1>1, <1>7, <1>10, <2>1, <2>2 DEF Answering, e
    <3> QED
      BY <3>1
  <2>3. ASSUME NEW i \in DOMAIN A, wire' = wire \o Drop(A, i), position' = Position(r)
        PROVE  Answering(Drop(A, i), r)
    <3>1. /\ Drop(A, i) \in Seq(AnswerRecord) /\ Len(Drop(A, i)) = e - 1
          /\ \A j \in DOMAIN Drop(A, i) : \E l \in DOMAIN A : Drop(A, i)[j] = A[l]
      BY <1>4, <2>3, DropSeq
    <3>2. \A j \in 1..Len(Drop(A, i)) : \E l \in 1..e : Drop(A, i)[j] = A[l]
      BY <1>5, <3>1, LenProperties
    <3>3. \A j \in 1..Len(Drop(A, i)) :
             /\ Drop(A, i)[j].cmd = r.cmd /\ Drop(A, i)[j].pid = r.pid
             /\ Drop(A, i)[j].sent = r.sent /\ Drop(A, i)[j].new = firmware /\ Drop(A, i)[j].ok
      BY <1>6, <3>2
    <3>4. Len(Drop(A, i)) <= e /\ Len(Drop(A, i)) # e
      BY <1>1, <3>1
    <3> DEFINE D == Drop(A, i)
    <3> HIDE DEF D
    <3> QED
      BY <1>1, <1>2, <1>10, <2>1, <2>3, <3>1, <3>3, <3>4 DEF Answering, e, D
  <2> QED
    BY <1>10, <2>2, <2>3 DEF A
<1>11. CASE /\ Understood(r) /\ errors < MaxErrors /\ errors' = errors + 1
            /\ position' \in {position, Position(r)} /\ UNCHANGED lost
            /\ \E i \in DOMAIN Answers(r) : wire' = wire \o [Answers(r) EXCEPT ![i].ok = FALSE]
  <2>1. PICK i \in DOMAIN A : wire' = wire \o [A EXCEPT ![i].ok = FALSE]
    BY <1>11 DEF A
  <2> DEFINE f == [A[i] EXCEPT !.ok = FALSE]
             B == [A EXCEPT ![i] = f]
  <2>2. A[i] \in AnswerRecord /\ i \in 1..Len(A)
    BY <1>4, <1>5, <2>1, ElementOfSeq
  <2>3. /\ f \in AnswerRecord /\ ~f.ok /\ f.cmd = A[i].cmd /\ f.pid = A[i].pid
        /\ f.sent = A[i].sent /\ f.new = A[i].new /\ f.word = A[i].word
    BY <2>2 DEF AnswerRecord
  <2>4. /\ B \in Seq(AnswerRecord) /\ Len(B) = e
        /\ \A j \in 1..e : B[j] = IF j = i THEN f ELSE A[j]
    <3> HIDE DEF f
    <3> QED
      BY <1>4, <2>2, <2>3, ExceptSeq
  <2>5. [A EXCEPT ![i].ok = FALSE] = B
    OBVIOUS
  <2> HIDE DEF f, B
  <2>6. /\ \A j \in 1..e : /\ B[j].cmd = r.cmd /\ B[j].pid = r.pid /\ B[j].sent = r.sent
                           /\ B[j].new = firmware
                           /\ (r.cmd = "fifo_read" => B[j].word = position + j)
        /\ i \in 1..e /\ ~B[i].ok
    BY <1>5, <1>6, <2>3, <2>4
  <2>7. errors' \in 0..MaxErrors /\ errors' # 0
    BY <1>1, <1>11
  <2>8. wire' = wire \o B
    BY <2>1, <2>5
  <2>9. Answering(B, r)
    <3>1. \A j \in 1..Len(B) : B[j].cmd = r.cmd /\ B[j].pid = r.pid /\ B[j].sent = r.sent
                               /\ B[j].new = firmware
      BY <2>4, <2>6
    <3>2. r.cmd = "fifo_read" => \A j \in 1..Len(B) : B[j].word = position + j
      BY <2>4, <2>6
    <3>3. \E j \in 1..Len(B) : ~B[j].ok
      BY <2>4, <2>6
    <3>4. Len(B) <= Expected(r)
      BY <1>1, <2>4 DEF e
    <3>5. lost' \in 0..MaxLost /\ position' \in {position, Position(r)} /\ position' \in Nat
      BY <1>1, <1>2, <1>11
    <3> QED
      BY <1>11, <2>4, <2>7, <2>8, <3>1, <3>2, <3>3, <3>4, <3>5 DEF Answering
  <2> QED
    BY <2>9
<1> QED
  BY <1>8, <1>9, <1>10, <1>11 DEF Transmit

-----------------------------------------------------------------------------
(* The link, whatever happens to its answers *)

(* the next request is built *)
Built ==
  /\ sent' = sent + 1 /\ req'.sent = sent'
  /\ pids' = (IF req'.new THEN pids + 1 ELSE pids)
  /\ req'.new => req'.pid = Pid(pids')
  /\ \A i \in DOMAIN wire : sent - wire[i].sent < Lifetime

(* answers go, and those of the request in progress come *)
Turn(k, X) ==
  /\ Moved(k, X) /\ UNCHANGED firmware
  /\ \A j \in 1..Len(X) : /\ X[j].cmd = req'.cmd /\ X[j].pid = req'.pid
                          /\ X[j].sent = sent' /\ X[j].new = firmware
  /\ X # <<>> => Understood(req') /\ Len(X) > 0
  /\ \A i \in DOMAIN wire' : wire'[i].sent = sent' \/ \E j \in DOMAIN wire : wire'[i] = wire[j]
  /\ UNCHANGED <<pids, req, sent>> \/ Built

(* What is in the pipe after a turn was there before or is new. *)
LEMMA TurnedPipe ==
  ASSUME TypeOK, TypeOK', NEW k, NEW X \in Seq(AnswerRecord), Turn(k, X)
  PROVE  /\ k \in 0..Len(Pipe) /\ Len(Pipe) \in Nat /\ Len(X) \in Nat
         /\ DOMAIN Pipe = 1..Len(Pipe) /\ DOMAIN Pipe' = 1..Len(Pipe')
         /\ Len(Pipe') = Len(Pipe) - k + Len(X)
         /\ \A i \in DOMAIN Pipe' :
              \/ i <= Len(Pipe) - k /\ k + i \in DOMAIN Pipe /\ Pipe'[i] = Pipe[k + i]
              \/ /\ i > Len(Pipe) - k /\ i - (Len(Pipe) - k) \in 1..Len(X)
                 /\ Pipe'[i] = X[i - (Len(Pipe) - k)]
<1> DEFINE n == Len(Pipe) - k
           x == Len(X)
<1>1. /\ k \in 0..Len(Pipe) /\ Len(Pipe) \in Nat /\ x \in Nat
      /\ DOMAIN Pipe = 1..Len(Pipe) /\ DOMAIN Pipe' = 1..Len(Pipe') /\ Len(Pipe') = n + x
      /\ \A i \in 1..n : Pipe'[i] = Pipe[k + i]
      /\ \A i \in 1..x : Pipe'[n + i] = X[i]
  <2>1. DOMAIN Pipe' = 1..Len(Pipe')
    BY NextPipeType
  <2> QED
    BY <2>1, PipeType, LenProperties DEF Turn, Moved
<1>2. n \in Nat
  BY <1>1
<1>3. ASSUME NEW i \in DOMAIN Pipe'
      PROVE  \/ i <= n /\ k + i \in DOMAIN Pipe /\ Pipe'[i] = Pipe[k + i]
             \/ i > n /\ i - n \in 1..x /\ Pipe'[i] = X[i - n]
  <2>1. CASE i <= n
    <3>1. i \in 1..n /\ k + i \in 1..Len(Pipe)
      BY <1>1, <1>3, <2>1
    <3> QED
      BY <1>1, <2>1, <3>1
  <2>2. CASE i > n
    <3>1. i - n \in 1..x /\ n + (i - n) = i
      <4> HIDE DEF n, x
      <4> QED
        BY <1>1, <1>2, <1>3, <2>2
    <3>2. Pipe'[n + (i - n)] = X[i - n]
      BY <1>1, <3>1
    <3> QED
      BY <2>2, <3>1, <3>2
  <2> QED
    BY <1>1, <1>2, <1>3, <2>1, <2>2
<1> QED
  BY <1>1, <1>3

(* The order of the answers is kept. *)
LEMMA OrderStep ==
  ASSUME TypeOK, TypeOK', OrderInv, NEW k, NEW X \in Seq(AnswerRecord), Turn(k, X),
         ans' <= sent', \A i \in DOMAIN Pipe : i > k => ans' <= Pipe[i].sent
  PROVE  OrderInv'
<1>1. /\ k \in 0..Len(Pipe) /\ Len(Pipe) \in Nat
      /\ DOMAIN Pipe = 1..Len(Pipe) /\ DOMAIN Pipe' = 1..Len(Pipe')
      /\ \A i \in DOMAIN Pipe' :
           \/ i <= Len(Pipe) - k /\ k + i \in DOMAIN Pipe /\ Pipe'[i] = Pipe[k + i]
           \/ /\ i > Len(Pipe) - k /\ i - (Len(Pipe) - k) \in 1..Len(X)
              /\ Pipe'[i] = X[i - (Len(Pipe) - k)]
  BY TurnedPipe
<1>2. \A j \in 1..Len(X) : X[j].sent = sent'
  BY DEF Turn
<1>3. /\ sent \in Nat /\ sent' \in Nat /\ sent <= sent' /\ ans' \in Nat /\ Lifetime \in Nat
      /\ sent' = sent \/ Built
  <2>1. sent' = sent \/ Built
    BY DEF Turn
  <2>2. Built => sent' = sent + 1
    BY DEF Built
  <2> QED
    BY <2>1, <2>2, CountTypes, NextCountTypes, UdpLinkAssumption
<1>4. /\ \A i \in DOMAIN Pipe : Pipe[i].sent \in Nat /\ Pipe[i].sent <= sent
      /\ \A i \in DOMAIN wire : wire[i].sent \in Nat
  <2>1. \A i \in DOMAIN Pipe : Pipe[i] \in AnswerRecord
    BY PipeType
  <2>2. \A i \in DOMAIN wire : wire[i] \in AnswerRecord
    BY PipeType, ElementOfSeq DEF TypeOK
  <2>3. \A i \in DOMAIN Pipe : Pipe[i].sent \in ans..sent
    BY DEF OrderInv
  <2> QED
    BY <2>1, <2>2, <2>3, CountTypes DEF AnswerRecord
<1>5. ASSUME NEW i \in DOMAIN Pipe' PROVE Pipe'[i].sent \in ans'..sent'
  <2>1. CASE i <= Len(Pipe) - k /\ k + i \in DOMAIN Pipe /\ Pipe'[i] = Pipe[k + i]
    <3>1. k + i > k
      BY <1>1, <1>5
    <3> QED
      BY <1>3, <1>4, <2>1, <3>1
  <2>2. CASE Pipe'[i].sent = sent'
    BY <1>3, <2>2
  <2> QED
    BY <1>1, <1>2, <1>5, <2>1, <2>2
<1>6. ASSUME NEW i \in DOMAIN Pipe', NEW j \in DOMAIN Pipe', i <= j
      PROVE  Pipe'[i].sent <= Pipe'[j].sent
  <2>1. CASE j <= Len(Pipe) - k /\ k + j \in DOMAIN Pipe /\ Pipe'[j] = Pipe[k + j]
    <3>1. k + i \in DOMAIN Pipe /\ Pipe'[i] = Pipe[k + i] /\ k + i <= k + j
      BY <1>1, <1>6, <2>1
    <3> QED
      BY <2>1, <3>1 DEF OrderInv
  <2>2. CASE Pipe'[j].sent = sent'
    BY <1>3, <1>5, <1>6, <2>2
  <2> QED
    BY <1>1, <1>2, <1>6, <2>1, <2>2
<1>7. ASSUME NEW i \in DOMAIN wire' PROVE sent' - wire'[i].sent <= Lifetime
  <2>1. CASE wire'[i].sent = sent'
    <3> DEFINE s == sent'
    <3>1. s \in Nat /\ Lifetime \in Nat
      BY <1>3
    <3> HIDE DEF s
    <3>2. s - s <= Lifetime
      BY <3>1
    <3> QED
      BY <2>1, <3>2 DEF s
  <2>2. ASSUME NEW j \in DOMAIN wire, wire'[i] = wire[j] PROVE sent' - wire'[i].sent <= Lifetime
    <3>1. sent - wire[j].sent <= Lifetime
      BY DEF OrderInv
    <3>2. Built => sent' = sent + 1 /\ sent - wire[j].sent < Lifetime
      BY DEF Built
    <3> QED
      BY <1>3, <1>4, <2>2, <3>1, <3>2
  <2> QED
    BY <1>7, <2>1, <2>2 DEF Turn
<1> QED
  BY <1>5, <1>6, <1>7 DEF OrderInv

(* The identifiers still tell the requests. *)
LEMMA NumberStep ==
  ASSUME TypeOK, TypeOK', CallInv, CallInv', OrderInv, NumberInv,
         NEW k, NEW X \in Seq(AnswerRecord), Turn(k, X)
  PROVE  NumberInv'
<1>1. /\ k \in 0..Len(Pipe) /\ Len(Pipe) \in Nat
      /\ DOMAIN Pipe = 1..Len(Pipe) /\ DOMAIN Pipe' = 1..Len(Pipe')
      /\ \A i \in DOMAIN Pipe' :
           \/ i <= Len(Pipe) - k /\ k + i \in DOMAIN Pipe /\ Pipe'[i] = Pipe[k + i]
           \/ /\ i > Len(Pipe) - k /\ i - (Len(Pipe) - k) \in 1..Len(X)
              /\ Pipe'[i] = X[i - (Len(Pipe) - k)]
  BY TurnedPipe
<1>2. /\ sent \in Nat /\ sent' \in Nat /\ pids \in Nat /\ pids' \in Nat
      /\ firmware' = firmware /\ (UNCHANGED <<pids, req, sent>> \/ Built)
  BY CountTypes, NextCountTypes DEF Turn
<1>3. \A i \in DOMAIN Pipe : Pipe[i].sent \in Nat /\ Pipe[i].sent <= sent
  <2>1. \A i \in DOMAIN Pipe : Pipe[i] \in AnswerRecord
    BY PipeType
  <2>2. \A i \in DOMAIN Pipe : Pipe[i].sent \in ans..sent
    BY DEF OrderInv
  <2> QED
    BY <2>1, <2>2, CountTypes DEF AnswerRecord
<1> DEFINE Later(a, n) == /\ a.pid = Pid(n) /\ pids' - n <= sent' - a.sent
                          /\ n = pids' /\ req'.new => a.sent = sent'
           Good(a) == /\ a.new = firmware'
                      /\ a.sent = sent' => a.cmd = req'.cmd /\ a.pid = req'.pid
                      /\ firmware' => \E n \in 1..pids' : Later(a, n)
<1>4. ASSUME NEW a, NEW i \in DOMAIN Pipe, a = Pipe[i] PROVE Good(a)
  <2>1. CASE UNCHANGED <<pids, req, sent>>
    <3>1. \A n : Later(a, n) <=> Numbered(a, n)
      BY <2>1 DEF Numbered
    <3> HIDE DEF Later
    <3> QED
      BY <1>2, <1>4, <2>1, <3>1 DEF NumberInv
  <2>2. CASE Built
    <3>1. a.new = firmware' /\ a.sent # sent'
      BY <1>2, <1>3, <1>4, <2>2 DEF NumberInv, Built
    <3>2. ASSUME firmware' PROVE \E n \in 1..pids' : Later(a, n)
      <4>1. PICK n \in 1..pids : Numbered(a, n)
        BY <1>2, <1>4, <3>2 DEF NumberInv
      <4>2. n \in 1..pids' /\ pids' - n <= sent' - a.sent /\ (req'.new => n # pids')
        BY <1>2, <1>3, <1>4, <2>2, <4>1 DEF Numbered, Built
      <4>3. a.pid = Pid(n)
        BY <4>1 DEF Numbered
      <4> QED
        BY <4>2, <4>3 DEF Numbered
    <3> QED
      BY <3>1, <3>2
  <2> QED
    BY <1>2, <2>1, <2>2
<1>5. ASSUME NEW a, NEW j \in 1..Len(X), a = X[j] PROVE Good(a)
  <2>1. /\ a.cmd = req'.cmd /\ a.pid = req'.pid /\ a.sent = sent' /\ a.new = firmware
        /\ Understood(req')
    BY <1>5 DEF Turn
  <2>2. ASSUME firmware' PROVE \E n \in 1..pids' : Later(a, n)
    <3>1. req'.new /\ a.pid = Pid(pids') /\ pids' > 0
      BY <1>2, <2>1, <2>2 DEF Understood, CallInv
    <3>2. Later(a, pids')
      <4>1. pids' - pids' = 0 /\ sent' - sent' = 0
        BY NextCountTypes
      <4> QED
        BY <2>1, <3>1, <4>1
    <3> QED
      BY <1>2, <3>1, <3>2
  <2> QED
    BY <1>2, <2>1, <2>2
<1>6. \A i \in DOMAIN Pipe' : Good(Pipe'[i])
  <2>1. \A a : (\E i \in DOMAIN Pipe : a = Pipe[i]) \/ (\E j \in 1..Len(X) : a = X[j]) => Good(a)
    BY <1>4, <1>5
  <2> HIDE DEF Good
  <2> QED
    BY <1>1, <2>1
<1> QED
  BY <1>6 DEF NumberInv, Numbered

(* An age within the bound is kept within it. *)
LEMMA BacklogStep ==
  ASSUME TypeOK, TypeOK', NEW k, NEW X \in Seq(AnswerRecord), Turn(k, X),
         call' = "detect" \/ packet_id_mode' =>
           /\ 0 <= Oldest'
           /\ \A i \in DOMAIN Pipe : i > k => sent' - Pipe[i].sent <= Oldest'
  PROVE  BacklogInv'
<1> SUFFICES ASSUME call' = "detect" \/ packet_id_mode', NEW i \in DOMAIN Pipe'
             PROVE  sent' - Pipe'[i].sent <= Oldest'
  BY DEF BacklogInv
<1>1. \/ i <= Len(Pipe) - k /\ k + i \in DOMAIN Pipe /\ Pipe'[i] = Pipe[k + i]
      \/ /\ i > Len(Pipe) - k /\ i - (Len(Pipe) - k) \in 1..Len(X)
         /\ Pipe'[i] = X[i - (Len(Pipe) - k)]
  BY TurnedPipe
<1>2. CASE i <= Len(Pipe) - k /\ k + i \in DOMAIN Pipe /\ Pipe'[i] = Pipe[k + i]
  <2>1. k + i > k
    BY <1>2, TurnedPipe
  <2> QED
    BY <1>2, <2>1
<1>3. CASE i > Len(Pipe) - k /\ i - (Len(Pipe) - k) \in 1..Len(X) /\ Pipe'[i] = X[i - (Len(Pipe) - k)]
  <2>1. Pipe'[i].sent = sent' /\ sent' - sent' = 0
    BY <1>3, NextCountTypes DEF Turn
  <2> QED
    BY <2>1
<1> QED
  BY <1>1, <1>2, <1>3

(* Without delays and errors the pipe stays short and current. *)
LEMMA QuietStep ==
  ASSUME TypeOK, TypeOK', NEW k, NEW X \in Seq(AnswerRecord), Turn(k, X),
         Prompt' =>
           /\ \A i \in DOMAIN Pipe : i > k => Pipe[i].sent = sent' /\ Pipe[i].ok
           /\ \A j \in 1..Len(X) : X[j].ok
           /\ call' = "none" => Len(Pipe) - k + Len(X) = 0
           /\ call' # "fifo_read" => Len(Pipe) - k + Len(X) <= 1
  PROVE  QuietInv'
<1> SUFFICES ASSUME Prompt'
             PROVE  /\ \A i \in DOMAIN Pipe' : Pipe'[i].sent = sent' /\ Pipe'[i].ok
                    /\ call' = "none" => Pipe' = <<>>
                    /\ call' # "fifo_read" => Len(Pipe') <= 1
  BY DEF QuietInv
<1>1. ASSUME NEW i \in DOMAIN Pipe' PROVE Pipe'[i].sent = sent' /\ Pipe'[i].ok
  <2>1. \/ i <= Len(Pipe) - k /\ k + i \in DOMAIN Pipe /\ Pipe'[i] = Pipe[k + i]
        \/ /\ i > Len(Pipe) - k /\ i - (Len(Pipe) - k) \in 1..Len(X)
           /\ Pipe'[i] = X[i - (Len(Pipe) - k)]
    BY <1>1, TurnedPipe
  <2>2. CASE i <= Len(Pipe) - k /\ k + i \in DOMAIN Pipe /\ Pipe'[i] = Pipe[k + i]
    <3>1. k + i > k
      BY <1>1, <2>2, TurnedPipe
    <3> QED
      BY <2>2, <3>1
  <2>3. CASE i > Len(Pipe) - k /\ i - (Len(Pipe) - k) \in 1..Len(X) /\ Pipe'[i] = X[i - (Len(Pipe) - k)]
    BY <2>3 DEF Turn
  <2> QED
    BY <2>1, <2>2, <2>3
<1>2. Len(Pipe') = Len(Pipe) - k + Len(X)
  BY TurnedPipe
<1>3. Len(Pipe') = 0 => Pipe' = <<>>
  BY NextPipeType, EmptySeq
<1> QED
  BY <1>1, <1>2, <1>3

(* An answer with the identifier of the request in progress answers it: the *)
(* backlog is shorter than the identifiers' cycle.                          *)
LEMMA IdentifierTells ==
  ASSUME TypeOK, LinkInv, packet_id_mode, call \in Commands, NEW i \in DOMAIN Pipe,
         Pipe[i].pid = req.pid
  PROVE  Pipe[i].sent = sent
<1>1. firmware /\ req.new /\ req.pid = Pid(pids)
  BY DEF LinkInv, CallInv
<1>2. PICK k \in 1..pids : Numbered(Pipe[i], k)
  BY <1>1 DEF LinkInv, NumberInv
<1>3. sent - Pipe[i].sent <= Oldest
  BY DEF LinkInv, BacklogInv
<1>4. /\ Lifetime \in Nat /\ Pids \in Nat /\ Retries \in Nat /\ Retries > 1
      /\ Lifetime + Retries < Pids
  BY UdpLinkAssumption, MemoryTransferAssumption
<1>5. Oldest \in Int /\ Oldest <= Lifetime + Retries
  BY <1>4 DEF Oldest, Commands
<1>6. Pipe[i].sent \in Nat /\ sent \in Nat /\ pids \in Nat
  BY PipeType, CountTypes DEF AnswerRecord
<1>7. pids - k < Pids /\ k <= pids /\ k \in Nat /\ Pids > 0
  BY <1>2, <1>3, <1>4, <1>5, <1>6 DEF Numbered
<1>8. k % Pids = pids % Pids
  BY <1>1, <1>2 DEF Numbered, Pid
<1>9. k = pids
  BY <1>4, <1>6, <1>7, <1>8, SameNumber
<1> QED
  BY <1>1, <1>2, <1>9 DEF Numbered

(* An accepted answer is one of the request in progress, and so are those   *)
(* behind it.                                                               *)
LEMMA AcceptedCurrent ==
  ASSUME TypeOK, LinkInv, Trusted, call \in Commands, rx # <<>>, Matches(Head(rx))
  PROVE  Head(rx).sent = sent /\ \A i \in DOMAIN Pipe : Pipe[i].sent = sent
<1>1. 1 \in DOMAIN Pipe /\ Head(rx) = Pipe[1]
  <2>1. <<>> \in Seq(AnswerRecord) /\ wire = wire \o <<>>
    BY PipeType, ConcatEmptySeq DEF TypeOK
  <2>2. Len(rx) \in Nat /\ Len(rx) # 0
    BY PipeType, EmptySeq DEF TypeOK
  <2>3. 1 \in 1..Len(rx) /\ 1 \in 1..(Len(rx) + Len(wire)) /\ Head(rx) = rx[1]
    BY <2>2, PipeType
  <2> QED
    BY <2>3, PipeType
<1>2. Pipe[1].sent = sent
  <2>1. CASE packet_id_mode
    BY <1>1, <2>1, IdentifierTells DEF Matches
  <2>2. CASE Prompt
    BY <1>1, <2>2 DEF LinkInv, QuietInv
  <2> QED
    BY <2>1, <2>2 DEF Trusted
<1>3. \A i \in DOMAIN Pipe : Pipe[i].sent = sent
  <2>1. \A i \in DOMAIN Pipe : Pipe[i].sent \in ans..sent /\ (1 <= i => Pipe[1].sent <= Pipe[i].sent)
    BY <1>1 DEF LinkInv, OrderInv
  <2>2. \A i \in DOMAIN Pipe : 1 <= i
    BY PipeType
  <2> QED
    BY <1>2, <2>1, <2>2, CountTypes
<1> QED
  BY <1>1, <1>2, <1>3

-----------------------------------------------------------------------------
(* Each action of the link *)

(* An identifier fits into its byte. *)
LEMMA PidRange ==
  ASSUME NEW n \in Nat, Pids \in Nat, Pids > 0
  PROVE  Pid(n) \in 0..(Pids - 1) /\ 0 \in 0..(Pids - 1)
  BY DEF Pid

(* The last request built. *)
LEMMA BuildType ==
  ASSUME TypeOK, NEW cmd \in Commands, NEW arg \in {"none", "start", "reset"},
         NEW new \in BOOLEAN, Build(cmd, arg, new)
  PROVE  /\ Built /\ req' \in RequestRecord
         /\ req'.cmd = cmd /\ req'.arg = arg /\ req'.new = new /\ req'.sent = sent'
         /\ sent' \in Nat /\ pids' \in 0..sent' /\ (new => pids' > 0)
<1>1. /\ sent' = sent + 1 /\ pids' = (IF new THEN pids + 1 ELSE pids)
      /\ req' = [cmd |-> cmd, arg |-> arg, new |-> new,
                 pid |-> IF new THEN Pid(pids') ELSE 0, sent |-> sent']
      /\ \A i \in DOMAIN wire : sent - wire[i].sent < Lifetime
  BY DEF Build, NextPid
<1>2. sent' \in Nat /\ pids' \in 0..sent' /\ (new => pids' > 0) /\ pids' \in Nat
  BY <1>1, CountTypes
<1>3. 0 \in 0..(Pids - 1) /\ Pid(pids') \in 0..(Pids - 1)
  <2>1. Pids \in Nat /\ Pids > 0
    BY UdpLinkAssumption
  <2> QED
    BY <1>2, <2>1, PidRange
<1>4. req' \in RequestRecord
  BY <1>1, <1>2, <1>3 DEF RequestRecord
<1> QED
  BY <1>1, <1>2, <1>4 DEF Built

(* A turn in which a request is sent. *)
LEMMA SentTurn ==
  ASSUME TypeOK, NEW k, NEW X, Moved(k, X), Answering(X, req'), req'.sent = sent',
         UNCHANGED firmware, UNCHANGED <<pids, req, sent>> \/ Built
  PROVE  Turn(k, X) /\ X \in Seq(AnswerRecord) /\ wire' \in Seq(AnswerRecord)
<1>1. X \in Seq(AnswerRecord) /\ wire \in Seq(AnswerRecord) /\ wire' = wire \o X
  BY DEF Answering, TypeOK
<1> DEFINE m == Len(wire)
           x == Len(X)
<1>2. /\ m \in Nat /\ x \in Nat /\ DOMAIN wire = 1..m /\ (X # <<>> => x > 0)
  BY <1>1, LenProperties, EmptySeq
<1>3. /\ wire' \in Seq(AnswerRecord) /\ DOMAIN wire' = 1..(m + x)
      /\ \A i \in 1..(m + x) : wire'[i] = IF i <= m THEN wire[i] ELSE X[i - m]
  BY <1>1, ConcatProperties, LenProperties
<1>4. \A j \in 1..x : X[j].sent = sent'
  BY DEF Answering
<1>5. ASSUME NEW i \in DOMAIN wire'
      PROVE  wire'[i].sent = sent' \/ \E j \in DOMAIN wire : wire'[i] = wire[j]
  <2>1. CASE i <= m
    <3>1. i \in DOMAIN wire /\ wire'[i] = wire[i]
      BY <1>2, <1>3, <1>5, <2>1
    <3> QED
      BY <3>1
  <2>2. CASE ~(i <= m)
    <3>1. i - m \in 1..x /\ wire'[i] = X[i - m]
      BY <1>2, <1>3, <1>5, <2>2
    <3> QED
      BY <1>4, <3>1
  <2> QED
    BY <2>1, <2>2
<1> QED
  BY <1>1, <1>2, <1>3, <1>5 DEF Turn, Answering

(* A turn in which none is sent. *)
LEMMA IdleTurn ==
  ASSUME TypeOK, NEW k, Moved(k, <<>>), UNCHANGED <<firmware, pids, req, sent>>,
         \A i \in DOMAIN wire' : \E j \in DOMAIN wire : wire'[i] = wire[j]
  PROVE  Turn(k, <<>>) /\ <<>> \in Seq(AnswerRecord)
<1>1. <<>> \in Seq(AnswerRecord) /\ Len(<<>>) = 0
  BY EmptySeq
<1> QED
  BY <1>1 DEF Turn

LEMMA SameWire ==
  ASSUME TypeOK, wire' = wire
  PROVE  /\ <<>> \in Seq(AnswerRecord) /\ wire' = wire \o <<>> /\ Len(<<>>) = 0
         /\ \A i \in DOMAIN wire' : \E j \in DOMAIN wire : wire'[i] = wire[j]
  BY EmptySeq, ConcatEmptySeq DEF TypeOK

(* How old an answer may be. *)
LEMMA OldestType ==
  ASSUME TypeOK, CallInv
  PROVE  /\ Oldest \in Nat
         /\ Lifetime \in Nat /\ Retries \in Nat /\ Retries > 1 /\ attempt \in Nat
<1>1. Lifetime \in Nat /\ Retries \in Nat /\ Retries > 1 /\ attempt \in Nat
  BY UdpLinkAssumption, MemoryTransferAssumption, CountTypes
<1>2. call = "detect" => attempt \in 1..Retries
  BY DEF CallInv
<1> QED
  BY <1>1, <1>2 DEF Oldest

LEMMA NextOldest ==
  ASSUME TypeOK', CallInv'
  PROVE  /\ Oldest' \in Nat
         /\ call' = "detect" => Oldest' = Lifetime + attempt' - 1
         /\ call' = "none" => Oldest' = Lifetime + Retries - 1
         /\ call' = "fifo_read" => Oldest' = 1
         /\ call' \in Exchanges => Oldest' = IF attempt' = 1 THEN Lifetime + Retries ELSE Lifetime
<1>1. Lifetime \in Nat /\ Retries \in Nat /\ Retries > 1 /\ attempt' \in Nat
  BY UdpLinkAssumption, MemoryTransferAssumption, NextCountTypes
<1>2. call' = "detect" => attempt' \in 1..Retries
  BY DEF CallInv
<1> QED
  BY <1>1, <1>2 DEF Oldest, Exchanges, Commands

(* The numbers of the requests that the answers belong to. *)
LEMMA SentTypes ==
  ASSUME TypeOK, OrderInv
  PROVE  /\ \A i \in DOMAIN Pipe : Pipe[i].sent \in Nat /\ Pipe[i].sent <= sent /\ ans <= Pipe[i].sent
         /\ \A i \in DOMAIN wire : wire[i].sent \in Nat
         /\ \A i \in DOMAIN Pipe : i > Len(rx) =>
              /\ i - Len(rx) \in DOMAIN wire /\ Pipe[i] = wire[i - Len(rx)]
              /\ sent - Pipe[i].sent <= Lifetime
<1>1. \A i \in DOMAIN Pipe : Pipe[i] \in AnswerRecord
  BY PipeType
<1>2. \A i \in DOMAIN wire : wire[i] \in AnswerRecord
  BY PipeType, ElementOfSeq DEF TypeOK
<1>3. \A i \in DOMAIN Pipe : Pipe[i].sent \in ans..sent
  BY DEF OrderInv
<1>4. ASSUME NEW i \in DOMAIN Pipe, i > Len(rx)
      PROVE  i - Len(rx) \in DOMAIN wire /\ Pipe[i] = wire[i - Len(rx)]
  BY <1>4, PipeType
<1>5. \A i \in DOMAIN wire : sent - wire[i].sent <= Lifetime
  BY DEF OrderInv
<1> QED
  BY <1>1, <1>2, <1>3, <1>4, <1>5, CountTypes DEF AnswerRecord

LEMMA ArriveLink ==
  ASSUME TypeOK, LinkInv, Arrive
  PROVE  TypeOK' /\ LinkInv'
<1> DEFINE k == IF is_open THEN 0 ELSE 1
<1>1. /\ Moved(k, <<>>) /\ rx' \in Seq(AnswerRecord) /\ wire' \in Seq(AnswerRecord)
      /\ \A i \in DOMAIN wire' : \E j \in DOMAIN wire : wire'[i] = wire[j]
  BY PipeArrive DEF LinkInv, CallInv
<1>2. UNCHANGED <<firmware, is_open, packet_id_mode, opened, pids, req, attempt, sent, position,
                  lost, errors, call, result, ans, data, calls, late>>
  BY DEF Arrive, host, asked
<1>3. TypeOK'
  BY <1>1, <1>2 DEF TypeOK
<1>4. Turn(k, <<>>) /\ <<>> \in Seq(AnswerRecord)
  BY <1>1, <1>2, IdleTurn
<1>5. CallInv'
  <2>1. ~is_open => rx' = rx
    BY DEF Arrive
  <2> QED
    BY <1>2, <2>1 DEF CallInv, LinkInv
<1>6. OrderInv'
  BY <1>2, <1>3, <1>4, OrderStep, SentTypes, CountTypes DEF LinkInv
<1>7. NumberInv'
  BY <1>3, <1>4, <1>5, NumberStep DEF LinkInv
<1>8. BacklogInv'
  <2>1. Oldest' = Oldest
    BY <1>2 DEF Oldest
  <2>2. call' = "detect" \/ packet_id_mode' =>
          /\ 0 <= Oldest'
          /\ \A i \in DOMAIN Pipe : i > k => sent' - Pipe[i].sent <= Oldest'
    BY <1>2, <2>1, OldestType DEF LinkInv, BacklogInv
  <2> QED
    BY <1>3, <1>4, <2>2, BacklogStep
<1>9. QuietInv'
  <2>1. /\ k \in 0..Len(Pipe) /\ Len(Pipe) \in Nat /\ Len(<<>>) = 0 /\ (Pipe = <<>> => Len(Pipe) = 0)
    BY <1>1, PipeType DEF Moved
  <2>2. Prompt' <=> Prompt
    BY <1>2 DEF Prompt
  <2>3. Prompt' => /\ \A i \in DOMAIN Pipe : i > k => Pipe[i].sent = sent' /\ Pipe[i].ok
                   /\ \A j \in 1..Len(<<>>) : <<>>[j].ok
                   /\ call' = "none" => Len(Pipe) - k + Len(<<>>) = 0
                   /\ call' # "fifo_read" => Len(Pipe) - k + Len(<<>>) <= 1
    <3>1. Len(Pipe) = 0 => k = 0
      BY <2>1
    <3> HIDE DEF k
    <3> QED
      BY <1>2, <2>1, <2>2, <3>1 DEF LinkInv, QuietInv
  <2> QED
    BY <1>3, <1>4, <2>3, QuietStep
<1>10. AnswersRight'
  BY <1>2 DEF AnswersRight, LinkInv, Prompt
<1> QED
  BY <1>3, <1>5, <1>6, <1>7, <1>8, <1>9, <1>10 DEF LinkInv

(* What is left to show of a turn. *)
LEMMA LinkStep ==
  ASSUME TypeOK, TypeOK', LinkInv, CallInv', AnswersRight',
         NEW k, NEW X \in Seq(AnswerRecord), Turn(k, X),
         ans' <= sent', \A i \in DOMAIN Pipe : i > k => ans' <= Pipe[i].sent,
         call' = "detect" \/ packet_id_mode' =>
           \A i \in DOMAIN Pipe : i > k => sent' - Pipe[i].sent <= Oldest',
         Prompt' =>
           /\ \A i \in DOMAIN Pipe : i > k => Pipe[i].sent = sent' /\ Pipe[i].ok
           /\ \A j \in 1..Len(X) : X[j].ok
           /\ call' = "none" => Len(Pipe) - k + Len(X) = 0
           /\ call' # "fifo_read" => Len(Pipe) - k + Len(X) <= 1
  PROVE  LinkInv'
<1>1. OrderInv'
  BY OrderStep DEF LinkInv
<1>2. NumberInv'
  BY NumberStep DEF LinkInv
<1>3. 0 <= Oldest'
  BY NextOldest
<1>4. BacklogInv'
  BY <1>3, BacklogStep
<1>5. QuietInv'
  BY QuietStep
<1> QED
  BY <1>1, <1>2, <1>4, <1>5 DEF LinkInv

(* Exactly one packet answers a request that does not read a FIFO. *)
LEMMA OneAnswer ==
  ASSUME NEW r, NEW X, Answering(X, r), r.cmd # "fifo_read"
  PROVE  Len(X) <= 1
  BY DEF Answering, Expected

LEMMA OpenLink ==
  ASSUME TypeOK, LinkInv, Open
  PROVE  TypeOK' /\ LinkInv'
<1>1. /\ call = "none" /\ calls < MaxCalls /\ calls' = calls + 1 /\ is_open' = TRUE
      /\ rx' = <<>> /\ Build("link_read", "none", TRUE)
      /\ call' = "detect" /\ attempt' = 1 /\ ans' = 0 /\ Transmit(req')
      /\ UNCHANGED <<packet_id_mode, opened, firmware, result, data, late>>
  BY DEF Open
<1>2. /\ Built /\ req' \in RequestRecord /\ req'.cmd = "link_read" /\ req'.new /\ req'.sent = sent'
      /\ sent' \in Nat /\ pids' \in 0..sent' /\ pids' > 0
  BY <1>1, BuildType DEF Commands
<1>3. PICK X : Answering(X, req')
  BY <1>1, <1>2, Transmitted
<1>4. Moved(Len(rx), X)
  BY <1>1, <1>3, PipeDrain DEF Answering
<1>5. Turn(Len(rx), X) /\ X \in Seq(AnswerRecord) /\ wire' \in Seq(AnswerRecord)
  BY <1>1, <1>2, <1>3, <1>4, SentTurn
<1>6. calls' \in 0..MaxCalls /\ <<>> \in Seq(AnswerRecord)
  BY <1>1, UdpLinkAssumption DEF TypeOK
<1>7. TypeOK'
  BY <1>1, <1>2, <1>3, <1>5, <1>6 DEF TypeOK, Answering
<1>8. CallInv'
  <2>1. 1 \in 1..Retries
    BY OldestType DEF LinkInv
  <2> QED
    BY <1>1, <1>2, <2>1 DEF CallInv, LinkInv, Built, Exchanges, Commands
<1>9. AnswersRight'
  BY <1>1 DEF AnswersRight
<1>10. ans' <= sent' /\ \A i \in DOMAIN Pipe : ans' <= Pipe[i].sent
  BY <1>1, <1>2, SentTypes DEF LinkInv
<1>11. ASSUME NEW i \in DOMAIN Pipe, i > Len(rx) PROVE sent' - Pipe[i].sent <= Oldest'
  <2>1. i - Len(rx) \in DOMAIN wire /\ Pipe[i] = wire[i - Len(rx)] /\ Pipe[i].sent \in Nat
    BY <1>11, SentTypes DEF LinkInv
  <2>2. sent - Pipe[i].sent < Lifetime /\ sent' = sent + 1
    BY <1>2, <2>1 DEF Built
  <2>3. Oldest' = Lifetime /\ Lifetime \in Nat
    BY <1>1, <1>7, <1>8, NextOldest, OldestType DEF LinkInv
  <2> QED
    BY <2>1, <2>2, <2>3, CountTypes
<1>12. Prompt' =>
         /\ \A i \in DOMAIN Pipe : i > Len(rx) => Pipe[i].sent = sent' /\ Pipe[i].ok
         /\ \A j \in 1..Len(X) : X[j].ok
         /\ call' = "none" => Len(Pipe) - Len(rx) + Len(X) = 0
         /\ call' # "fifo_read" => Len(Pipe) - Len(rx) + Len(X) <= 1
  <2> SUFFICES ASSUME Prompt'
               PROVE  /\ Pipe = <<>> /\ Len(rx) = 0 /\ Len(X) <= 1
                      /\ \A j \in 1..Len(X) : X[j].ok
    BY <1>1, <1>5, LenProperties
  <2>1. errors' = 0 /\ errors = 0 /\ late = 0 /\ \A j \in 1..Len(X) : X[j].ok
    BY <1>1, <1>3 DEF Prompt, Answering
  <2>2. Pipe = <<>>
    BY <1>1, <2>1 DEF Prompt, LinkInv, QuietInv
  <2>3. Len(rx) = 0
    BY <2>2, PipeType
  <2> QED
    BY <1>2, <1>3, <2>1, <2>2, <2>3, OneAnswer
<1> QED
  BY <1>5, <1>7, <1>8, <1>9, <1>10, <1>11, <1>12, LinkStep

LEMMA OpenAgainLink ==
  ASSUME TypeOK, LinkInv, OpenAgain
  PROVE  TypeOK' /\ LinkInv'
<1>1. /\ call = "none" /\ is_open /\ opened' = TRUE
      /\ UNCHANGED <<firmware, is_open, packet_id_mode, pids, req, attempt, sent, position, wire,
                     lost, errors, call, result, ans, data, rx, calls, late>>
  BY DEF OpenAgain, asked, underway
<1>2. TypeOK'
  BY <1>1 DEF TypeOK
<1>3. Pipe' = Pipe
  BY <1>1 DEF Pipe
<1>4. CallInv'
  BY <1>1 DEF LinkInv, CallInv
<1>5. OrderInv' /\ NumberInv'
  BY <1>1, <1>3 DEF LinkInv, OrderInv, NumberInv, Numbered
<1>6. BacklogInv' /\ QuietInv' /\ AnswersRight'
  BY <1>1, <1>3 DEF LinkInv, BacklogInv, Oldest, QuietInv, AnswersRight, Prompt
<1> QED
  BY <1>2, <1>4, <1>5, <1>6 DEF LinkInv

LEMMA CloseLink ==
  ASSUME TypeOK, LinkInv, Close
  PROVE  TypeOK' /\ LinkInv'
<1>1. /\ call = "none" /\ is_open' = FALSE /\ opened' = FALSE /\ rx' = <<>>
      /\ UNCHANGED <<firmware, packet_id_mode, pids, req, attempt, sent, position, wire,
                     lost, errors, call, result, ans, data, calls, late>>
  BY DEF Close, asked, underway
<1>2. TypeOK'
  BY <1>1, EmptySeq DEF TypeOK
<1>3. Moved(Len(rx), <<>>)
  BY <1>1, SameWire, PipeDrain
<1>4. Turn(Len(rx), <<>>) /\ <<>> \in Seq(AnswerRecord) /\ Len(<<>>) = 0
  BY <1>1, <1>3, SameWire, IdleTurn
<1>5. CallInv'
  BY <1>1 DEF LinkInv, CallInv, Exchanges, Commands
<1>6. AnswersRight'
  BY <1>1 DEF LinkInv, AnswersRight, Prompt
<1>7. ans' <= sent' /\ \A i \in DOMAIN Pipe : ans' <= Pipe[i].sent
  BY <1>1, SentTypes, CountTypes DEF LinkInv
<1>8. packet_id_mode => \A i \in DOMAIN Pipe : sent' - Pipe[i].sent <= Oldest'
  BY <1>1 DEF LinkInv, BacklogInv, Oldest
<1>9. Prompt' => Pipe = <<>> /\ Len(Pipe) = 0 /\ Len(rx) = 0
  <2>1. Prompt' => Pipe = <<>>
    BY <1>1 DEF Prompt, LinkInv, QuietInv
  <2> QED
    BY <2>1, PipeType
<1>10. Prompt' =>
         /\ \A i \in DOMAIN Pipe : i > Len(rx) => Pipe[i].sent = sent' /\ Pipe[i].ok
         /\ \A j \in 1..Len(<<>>) : <<>>[j].ok
         /\ call' = "none" => Len(Pipe) - Len(rx) + Len(<<>>) = 0
         /\ call' # "fifo_read" => Len(Pipe) - Len(rx) + Len(<<>>) <= 1
  BY <1>4, <1>9
<1> QED
  BY <1>1, <1>2, <1>4, <1>5, <1>6, <1>7, <1>8, <1>10, LinkStep

(* What is left to show of a step that sends no request. *)
LEMMA IdleLink ==
  ASSUME TypeOK, TypeOK', LinkInv, CallInv', AnswersRight', NEW k, Moved(k, <<>>),
         UNCHANGED <<firmware, pids, req, sent, wire>>,
         ans' <= sent', \A i \in DOMAIN Pipe : i > k => ans' <= Pipe[i].sent,
         call' = "detect" \/ packet_id_mode' =>
           \A i \in DOMAIN Pipe : i > k => sent - Pipe[i].sent <= Oldest',
         Prompt' =>
           /\ Prompt
           /\ call' = "none" => Len(Pipe) = k
           /\ call' # "fifo_read" => Len(Pipe) - k <= 1
  PROVE  LinkInv'
<1>1. Turn(k, <<>>) /\ <<>> \in Seq(AnswerRecord) /\ Len(<<>>) = 0
  BY IdleTurn, SameWire
<1>2. Prompt' =>
         /\ \A i \in DOMAIN Pipe : i > k => Pipe[i].sent = sent' /\ Pipe[i].ok
         /\ \A j \in 1..Len(<<>>) : <<>>[j].ok
         /\ call' = "none" => Len(Pipe) - k + Len(<<>>) = 0
         /\ call' # "fifo_read" => Len(Pipe) - k + Len(<<>>) <= 1
  BY <1>1, PipeType DEF LinkInv, QuietInv, Moved
<1> QED
  BY <1>1, <1>2, LinkStep

(* A request changes nothing of the answers, and leaves its own at the end. *)
LEMMA RequestLink ==
  ASSUME TypeOK, LinkInv, call = "none", opened, calls' \in 0..MaxCalls, data' \in Seq(Nat),
         NEW cmd \in Commands, NEW arg \in {"none", "start", "reset"}, Request(cmd, arg),
         cmd = "fifo_read" =>
           data' = <<>> /\ (packet_id_mode => \A i \in DOMAIN Pipe : Pipe[i].sent = sent)
  PROVE  /\ TypeOK' /\ LinkInv'
         /\ \E X \in Seq(AnswerRecord) : Answering(X, req') /\ Turn(0, X)
         /\ req'.cmd = cmd /\ req'.arg = arg /\ sent' = sent + 1
<1>1. /\ Build(cmd, arg, packet_id_mode) /\ call' = cmd /\ attempt' = 1 /\ ans' = 0
      /\ Transmit(req')
      /\ UNCHANGED <<firmware, is_open, packet_id_mode, opened, result, rx, late>>
  BY DEF Request, host
<1>2. /\ Built /\ req' \in RequestRecord /\ req'.cmd = cmd /\ req'.arg = arg
      /\ req'.new = packet_id_mode /\ req'.sent = sent'
      /\ sent' \in Nat /\ pids' \in 0..sent' /\ (packet_id_mode => pids' > 0)
  BY <1>1, BuildType DEF TypeOK
<1>3. PICK X : Answering(X, req')
  BY <1>1, <1>2, Transmitted DEF Commands
<1>4. Turn(0, X) /\ X \in Seq(AnswerRecord) /\ wire' \in Seq(AnswerRecord)
  <2>1. Moved(0, X)
    BY <1>1, <1>3, PipeSend DEF Answering
  <2> QED
    BY <1>1, <1>2, <1>3, <2>1, SentTurn
<1>5. TypeOK'
  BY <1>1, <1>2, <1>3, <1>4 DEF TypeOK, Answering
<1>6. CallInv'
  <2>1. 1 \in 1..Retries /\ 1 \in 1..Requests /\ 0 <= 1 * Packets
    BY OldestType, UdpLinkAssumption DEF LinkInv
  <2>2. cmd = "fifo_read" => Len(data') = 0
    OBVIOUS
  <2>3. (req'.new => req'.pid = Pid(pids')) /\ cmd \notin {"none", "detect"}
    BY <1>2 DEF Built, Commands
  <2>4. is_open
    BY DEF LinkInv, CallInv
  <2> QED
    BY <1>1, <1>2, <2>1, <2>2, <2>3, <2>4 DEF CallInv, LinkInv
<1>7. AnswersRight'
  BY <1>1 DEF AnswersRight
<1>8. ans' <= sent' /\ (\A i \in DOMAIN Pipe : i > 0 => ans' <= Pipe[i].sent) /\ sent' = sent + 1
  BY <1>1, <1>2, SentTypes DEF LinkInv, Built
<1>9. packet_id_mode => \A i \in DOMAIN Pipe : sent' - Pipe[i].sent <= Oldest'
  <2> SUFFICES ASSUME packet_id_mode, NEW i \in DOMAIN Pipe PROVE sent' - Pipe[i].sent <= Oldest'
    OBVIOUS
  <2>1. Pipe[i].sent \in Nat /\ sent \in Nat /\ Lifetime \in Nat /\ Retries \in Nat /\ Retries > 1
    BY SentTypes, CountTypes, OldestType DEF LinkInv
  <2>2. CASE cmd = "fifo_read"
    <3>1. Oldest' = 1
      BY <1>1, <1>5, <1>6, <2>2, NextOldest
    <3> QED
      BY <1>8, <2>1, <2>2, <3>1
  <2>3. CASE cmd # "fifo_read"
    <3>1. Oldest' = Lifetime + Retries
      BY <1>1, <1>5, <1>6, <2>3, NextOldest DEF Exchanges
    <3>2. sent - Pipe[i].sent <= Lifetime + Retries - 1
      BY DEF LinkInv, BacklogInv, Oldest
    <3> QED
      BY <1>8, <2>1, <3>1, <3>2
  <2> QED
    BY <2>2, <2>3
<1>10. Prompt' =>
         /\ \A i \in DOMAIN Pipe : i > 0 => Pipe[i].sent = sent' /\ Pipe[i].ok
         /\ \A j \in 1..Len(X) : X[j].ok
         /\ call' = "none" => Len(Pipe) - 0 + Len(X) = 0
         /\ call' # "fifo_read" => Len(Pipe) - 0 + Len(X) <= 1
  <2> SUFFICES ASSUME Prompt'
               PROVE  /\ Pipe = <<>> /\ (cmd # "fifo_read" => Len(X) <= 1)
                      /\ \A j \in 1..Len(X) : X[j].ok
    BY <1>1, <1>4, LenProperties DEF Commands
  <2>1. errors = 0 /\ late = 0 /\ \A j \in 1..Len(X) : X[j].ok
    BY <1>1, <1>3 DEF Prompt, Answering
  <2>2. Pipe = <<>>
    BY <2>1 DEF Prompt, LinkInv, QuietInv
  <2> QED
    BY <1>2, <1>3, <2>1, <2>2, OneAnswer
<1>11. LinkInv'
  <2>1. call' = "detect" \/ packet_id_mode' => packet_id_mode
    BY <1>1 DEF Commands
  <2> QED
    BY <1>4, <1>5, <1>6, <1>7, <1>8, <1>9, <1>10, <2>1, LinkStep
<1> QED
  BY <1>2, <1>3, <1>4, <1>5, <1>8, <1>11

(* The detection tries again or gives up. *)
LEMMA DetectAgainLink ==
  ASSUME TypeOK, LinkInv, call = "detect", DetectAgain, NEW k,
         \A X \in Seq(AnswerRecord) : wire' = wire \o X => Moved(k, X),
         rx' \in Seq(AnswerRecord), late' \in 0..MaxLate, UNCHANGED <<firmware, ans, data, calls>>,
         Prompt' => Pipe = <<>> /\ late = 0
  PROVE  TypeOK' /\ LinkInv'
<1>1. UNCHANGED <<is_open, packet_id_mode, opened>>
  BY DEF DetectAgain, host
<1>2. /\ ans = 0 /\ req.cmd = "link_read" /\ is_open /\ attempt \in 1..Retries
      /\ Lifetime \in Nat /\ Retries \in Nat /\ attempt \in Nat
  BY OldestType DEF LinkInv, CallInv
<1>3. \A i \in DOMAIN Pipe : /\ Pipe[i].sent \in Nat /\ 0 <= Pipe[i].sent
                             /\ sent - Pipe[i].sent <= Lifetime + attempt - 1
  <2>1. \A i \in DOMAIN Pipe : sent - Pipe[i].sent <= Oldest
    BY DEF LinkInv, BacklogInv
  <2> QED
    BY <2>1, SentTypes DEF LinkInv, Oldest
<1>4. Prompt' => Len(Pipe) = 0 /\ \A i : i \notin DOMAIN Pipe
  BY PipeType
<1>5. CASE attempt < Retries
  <2>1. /\ Build("link_read", "none", TRUE) /\ attempt' = attempt + 1 /\ Transmit(req')
        /\ UNCHANGED <<call, result>>
    BY <1>5 DEF DetectAgain
  <2>2. /\ Built /\ req' \in RequestRecord /\ req'.cmd = "link_read" /\ req'.new /\ req'.sent = sent'
        /\ sent' \in Nat /\ pids' \in 0..sent' /\ pids' > 0
    BY <2>1, BuildType DEF Commands
  <2>3. PICK X : Answering(X, req')
    BY <2>1, <2>2, Transmitted
  <2>4. Turn(k, X) /\ X \in Seq(AnswerRecord) /\ wire' \in Seq(AnswerRecord) /\ Moved(k, X)
    <3>1. Moved(k, X)
      BY <2>3 DEF Answering
    <3> QED
      BY <2>2, <2>3, <3>1, SentTurn
  <2>5. attempt' \in Nat
    BY <1>2, <2>1
  <2>6. TypeOK'
    BY <1>1, <1>2, <2>1, <2>2, <2>3, <2>4, <2>5 DEF TypeOK, Answering
  <2>7. attempt' \in 1..Retries
    BY <1>2, <1>5, <2>1
  <2>8. CallInv'
    BY <1>1, <1>2, <2>1, <2>2, <2>7 DEF CallInv, LinkInv, Built, Exchanges, Commands
  <2>9. AnswersRight'
    BY <1>2 DEF AnswersRight
  <2>10. Oldest' = Lifetime + attempt /\ sent' = sent + 1
    BY <1>2, <2>1, <2>2, <2>6, <2>8, NextOldest DEF Built
  <2>11. \A i \in DOMAIN Pipe : sent' - Pipe[i].sent <= Oldest'
    BY <1>2, <1>3, <2>10, CountTypes, SMTT(40)
  <2>12. ans' <= sent' /\ \A i \in DOMAIN Pipe : ans' <= Pipe[i].sent
    BY <1>2, <1>3, <2>2
  <2>13. Prompt' =>
         /\ \A i \in DOMAIN Pipe : i > k => Pipe[i].sent = sent' /\ Pipe[i].ok
         /\ \A j \in 1..Len(X) : X[j].ok
         /\ call' = "none" => Len(Pipe) - k + Len(X) = 0
         /\ call' # "fifo_read" => Len(Pipe) - k + Len(X) <= 1
    <3>1. k \in 0..Len(Pipe) /\ Len(X) \in Nat /\ Len(X) <= 1
      BY <2>2, <2>3, <2>4, OneAnswer, LenProperties DEF Moved
    <3>2. errors' = 0 => \A j \in 1..Len(X) : X[j].ok
      BY <2>3 DEF Answering
    <3> QED
      BY <1>4, <2>1, <3>1, <3>2 DEF Prompt
  <2> QED
    BY <2>4, <2>6, <2>8, <2>9, <2>11, <2>12, <2>13, LinkStep
<1>6. CASE ~(attempt < Retries)
  <2>1. /\ call' = "none" /\ result' = "raised"
        /\ UNCHANGED <<pids, req, attempt, sent, position, wire, lost, errors>>
    BY <1>6 DEF DetectAgain, End, asked, underway
  <2>2. TypeOK'
    BY <1>1, <2>1 DEF TypeOK
  <2>3. Moved(k, <<>>)
    BY <2>1, SameWire
  <2>4. CallInv'
    BY <1>1, <1>2, <2>1 DEF CallInv, LinkInv, Exchanges, Commands
  <2>5. AnswersRight'
    BY <1>2 DEF AnswersRight
  <2>6. Oldest' = Lifetime + Retries - 1
    BY <2>1, <2>2, <2>4, NextOldest
  <2>7. \A i \in DOMAIN Pipe : sent - Pipe[i].sent <= Oldest'
    BY <1>2, <1>3, <2>6, CountTypes
  <2>8. ans' <= sent' /\ \A i \in DOMAIN Pipe : ans' <= Pipe[i].sent
    BY <1>2, <1>3, <2>1, CountTypes
  <2>9. Prompt' => Prompt /\ Len(Pipe) = k /\ Len(Pipe) - k <= 1
    <3>1. Prompt' => Prompt
      BY <2>1 DEF Prompt
    <3>2. k \in 0..Len(Pipe)
      BY <2>3 DEF Moved
    <3> QED
      BY <1>4, <3>1, <3>2
  <2> QED
    BY <2>1, <2>2, <2>3, <2>4, <2>5, <2>7, <2>8, <2>9, IdleLink
<1> QED
  BY <1>5, <1>6

(* errors are only ever counted up *)
LEMMA TransmitErrors ==
  ASSUME TypeOK, NEW r, Transmit(r)
  PROVE  errors' = 0 => errors = 0
<1>1. errors \in Nat
  BY UdpLinkAssumption DEF TypeOK
<1>2. errors' = errors \/ errors' = errors + 1
  BY DEF Transmit, underway
<1> QED
  BY <1>1, <1>2

LEMMA DetectAnswerLink ==
  ASSUME TypeOK, LinkInv, DetectAnswer
  PROVE  TypeOK' /\ LinkInv'
<1>1. /\ call = "detect" /\ rx # <<>> /\ rx' = Tail(rx)
      /\ UNCHANGED <<firmware, ans, data, calls, late>>
  BY DEF DetectAnswer
<1>2. /\ \A X \in Seq(AnswerRecord) : wire' = wire \o X => Moved(1, X)
      /\ 1 \in DOMAIN Pipe /\ Head(rx) = Pipe[1] /\ Head(rx) \in AnswerRecord
      /\ rx' \in Seq(AnswerRecord)
  <2>1. \A X \in Seq(AnswerRecord) : wire' = wire \o X => Moved(1, X)
    BY <1>1, PipeTake
  <2>2. 1 \in DOMAIN Pipe /\ Head(rx) = Pipe[1]
    <3>1. Len(rx) \in Nat /\ Len(rx) # 0
      BY <1>1, PipeType, EmptySeq DEF TypeOK
    <3> QED
      BY <3>1, PipeType
  <2> QED
    BY <1>1, <2>1, <2>2, PipeType, HeadTailProperties DEF TypeOK
<1>3. /\ ans = 0 /\ req.cmd = "link_read" /\ is_open /\ attempt \in 1..Retries
      /\ Lifetime \in Nat /\ Retries \in Nat /\ attempt \in Nat
  BY <1>1, OldestType DEF LinkInv, CallInv
<1>4. Prompt => Len(Pipe) = 1 /\ ShowsProtocol(Head(rx))
  <2> SUFFICES ASSUME Prompt PROVE Len(Pipe) = 1 /\ ShowsProtocol(Head(rx))
    OBVIOUS
  <2>1. Pipe[1].sent = sent /\ Len(Pipe) <= 1
    BY <1>1, <1>2 DEF LinkInv, QuietInv
  <2>2. Pipe[1].cmd = req.cmd /\ Pipe[1].pid = req.pid
    BY <1>2, <2>1 DEF LinkInv, NumberInv
  <2> QED
    BY <1>2, <1>3, <2>1, <2>2, PipeType DEF ShowsProtocol
<1>5. CASE ShowsProtocol(Head(rx))
  <2>1. /\ packet_id_mode' = Head(rx).new /\ opened' = TRUE /\ is_open' = is_open
        /\ call' = "none" /\ result' = "returned"
        /\ UNCHANGED <<pids, req, attempt, sent, position, wire, lost, errors>>
    BY <1>5 DEF DetectAnswer, Detected, End, asked, underway
  <2>2. packet_id_mode' \in BOOLEAN /\ packet_id_mode' = firmware
    BY <1>2, <2>1 DEF AnswerRecord, LinkInv, NumberInv
  <2>3. TypeOK'
    BY <1>1, <1>2, <2>1, <2>2 DEF TypeOK
  <2>4. Moved(1, <<>>)
    BY <1>2, <2>1, SameWire
  <2>5. CallInv'
    BY <1>1, <1>3, <2>1, <2>2 DEF CallInv, LinkInv, Exchanges, Commands
  <2>6. AnswersRight'
    BY <1>1, <1>3 DEF AnswersRight
  <2>7. Oldest' = Lifetime + Retries - 1
    BY <2>1, <2>3, <2>5, NextOldest
  <2>8. \A i \in DOMAIN Pipe : sent - Pipe[i].sent <= Oldest'
    <3>1. \A i \in DOMAIN Pipe : sent - Pipe[i].sent <= Lifetime + attempt - 1
      BY <1>1 DEF LinkInv, BacklogInv, Oldest
    <3> QED
      BY <1>3, <2>7, <3>1, SentTypes, CountTypes DEF LinkInv
  <2>9. ans' <= sent' /\ \A i \in DOMAIN Pipe : ans' <= Pipe[i].sent
    BY <1>1, <2>1, SentTypes, CountTypes DEF LinkInv
  <2>10. Prompt' => Prompt /\ Len(Pipe) = 1 /\ Len(Pipe) - 1 <= 1
    <3>1. Prompt' => Prompt
      BY <1>1, <2>1 DEF Prompt
    <3>2. Len(Pipe) = 1 => Len(Pipe) - 1 <= 1
      OBVIOUS
    <3> QED
      BY <1>4, <3>1, <3>2
  <2> QED
    BY <1>1, <2>1, <2>3, <2>4, <2>5, <2>6, <2>8, <2>9, <2>10, IdleLink
<1>6. CASE ~ShowsProtocol(Head(rx))
  <2>1. DetectAgain
    BY <1>6 DEF DetectAnswer
  <2>2. errors' = 0 => errors = 0
    BY <2>1, TransmitErrors DEF DetectAgain, underway
  <2>3. ~Prompt'
    BY <1>1, <1>4, <1>6, <2>2 DEF Prompt
  <2>4. late' \in 0..MaxLate
    BY <1>1 DEF TypeOK
  <2> QED
    BY <1>1, <1>2, <2>1, <2>3, <2>4, DetectAgainLink
<1> QED
  BY <1>5, <1>6

(* Nothing came within the time, or something is still to come. *)
LEMMA SilentTurn ==
  ASSUME TypeOK, NoAnswer, rx' = rx
  PROVE  /\ rx = <<>> /\ late' \in 0..MaxLate /\ rx' \in Seq(AnswerRecord)
         /\ late' = 0 => Pipe = <<>> /\ late = 0
         /\ \A X \in Seq(AnswerRecord) : wire' = wire \o X => Moved(0, X)
<1>1. rx = <<>> /\ ((wire = <<>> /\ late' = late) \/ (late < MaxLate /\ late' = late + 1))
  BY DEF NoAnswer
<1>2. late \in 0..MaxLate /\ MaxLate \in Nat /\ rx' \in Seq(AnswerRecord)
  BY UdpLinkAssumption DEF TypeOK
<1>3. late' = 0 => Pipe = <<>> /\ late = 0
  BY <1>1, <1>2 DEF Pipe
<1>4. \A X \in Seq(AnswerRecord) : wire' = wire \o X => Moved(0, X)
  BY PipeSend
<1> QED
  BY <1>1, <1>2, <1>3, <1>4

LEMMA DetectTimeoutLink ==
  ASSUME TypeOK, LinkInv, DetectTimeout
  PROVE  TypeOK' /\ LinkInv'
<1>1. /\ call = "detect" /\ NoAnswer /\ DetectAgain /\ rx' = rx
      /\ UNCHANGED <<firmware, ans, data, calls>>
  BY DEF DetectTimeout
<1>2. Prompt' => Pipe = <<>> /\ late = 0
  BY <1>1, SilentTurn DEF Prompt
<1> QED
  BY <1>1, <1>2, SilentTurn, DetectAgainLink

(* The request is repeated after a drain, or the call gives up. *)
LEMMA ExchangeAgainLink ==
  ASSUME TypeOK, LinkInv, call \in Exchanges, NEW left \in Seq(AnswerRecord), ExchangeAgain(left),
         NEW k, rx' = left /\ wire' = wire => Moved(k, <<>>),
         late' \in 0..MaxLate, UNCHANGED <<firmware, is_open, packet_id_mode, opened, ans, data, calls>>,
         Prompt' => Pipe = <<>> /\ late = 0
  PROVE  /\ TypeOK' /\ LinkInv' /\ UNCHANGED <<req, sent>>
         /\ \/ /\ call' = call
               /\ \E X \in Seq(AnswerRecord) : Answering(X, req) /\ Turn(Len(rx), X)
            \/ call' = "none" /\ result' = "raised" /\ Moved(k, <<>>) /\ UNCHANGED position
<1>1. /\ attempt \in 1..Retries /\ Lifetime \in Nat /\ Retries \in Nat /\ Retries > 1
      /\ attempt \in Nat /\ call \in Commands /\ call # "fifo_read" /\ req.cmd = call
      /\ call \notin {"none", "detect"}
  BY OldestType DEF LinkInv, CallInv, Exchanges, Commands
<1>2. Prompt' => Len(Pipe) = 0 /\ (\A i : i \notin DOMAIN Pipe) /\ Len(rx) = 0
  <2> SUFFICES ASSUME Pipe = <<>>
               PROVE  Len(Pipe) = 0 /\ (\A i : i \notin DOMAIN Pipe) /\ Len(rx) = 0
    OBVIOUS
  <2>1. Len(Pipe) = 0 /\ DOMAIN Pipe = 1..0
    BY PipeType
  <2>2. Len(rx) \in Nat /\ Len(wire) \in Nat /\ Len(Pipe) = Len(rx) + Len(wire)
    BY PipeType
  <2> QED
    BY <2>1, <2>2
<1>3. req.sent = sent /\ req \in RequestRecord /\ (\A i \in DOMAIN Pipe : 0 <= Pipe[i].sent)
  BY SentTypes DEF LinkInv, CallInv, TypeOK
<1>4. CASE attempt < Retries
  <2>1. /\ rx' = <<>> /\ attempt' = attempt + 1 /\ Transmit(req)
        /\ UNCHANGED <<pids, req, sent, call, result>>
    BY <1>4 DEF ExchangeAgain, Drained
  <2>2. PICK X : Answering(X, req)
    BY <1>1, <1>3, <2>1, Transmitted
  <2>3. Turn(Len(rx), X) /\ X \in Seq(AnswerRecord) /\ wire' \in Seq(AnswerRecord) /\ Moved(Len(rx), X)
    <3>1. Moved(Len(rx), X)
      BY <2>1, <2>2, PipeDrain DEF Answering
    <3>2. Answering(X, req') /\ req'.sent = sent'
      BY <1>3, <2>1, <2>2
    <3> QED
      BY <2>1, <3>1, <3>2, SentTurn
  <2>4. attempt' \in Nat /\ <<>> \in Seq(AnswerRecord)
    BY <1>1, <2>1
  <2>5. TypeOK'
    BY <2>1, <2>2, <2>3, <2>4 DEF TypeOK, Answering
  <2>6. attempt' \in 1..Retries /\ attempt' # 1
    BY <1>1, <1>4, <2>1
  <2>7. CallInv'
    BY <1>1, <2>1, <2>6 DEF CallInv, LinkInv, Exchanges
  <2>8. errors' = 0 => errors = 0
    BY <2>1, TransmitErrors
  <2>9. AnswersRight'
    BY <2>1, <2>8 DEF AnswersRight, LinkInv, Prompt
  <2>10. \A i \in DOMAIN Pipe : i > Len(rx) => sent' - Pipe[i].sent <= Oldest'
    <3>1. Oldest' = Lifetime
      BY <2>1, <2>5, <2>6, <2>7, NextOldest
    <3> QED
      BY <2>1, <3>1, SentTypes DEF LinkInv
  <2>11. ans' <= sent' /\ \A i \in DOMAIN Pipe : ans' <= Pipe[i].sent
    BY <2>1, SentTypes, CountTypes DEF LinkInv
  <2>12. Prompt' =>
         /\ \A i \in DOMAIN Pipe : i > Len(rx) => Pipe[i].sent = sent' /\ Pipe[i].ok
         /\ \A j \in 1..Len(X) : X[j].ok
         /\ call' = "none" => Len(Pipe) - Len(rx) + Len(X) = 0
         /\ call' # "fifo_read" => Len(Pipe) - Len(rx) + Len(X) <= 1
    <3>1. Len(X) \in Nat /\ Len(X) <= 1
      BY <1>1, <2>2, <2>3, OneAnswer, LenProperties
    <3>2. errors' = 0 => \A j \in 1..Len(X) : X[j].ok
      BY <2>2 DEF Answering
    <3> QED
      BY <1>1, <1>2, <2>1, <3>1, <3>2 DEF Prompt
  <2>13. LinkInv'
    BY <2>3, <2>5, <2>7, <2>9, <2>10, <2>11, <2>12, LinkStep
  <2> QED
    BY <2>1, <2>2, <2>3, <2>5, <2>13
<1>5. CASE ~(attempt < Retries)
  <2>1. /\ call' = "none" /\ result' = "raised" /\ rx' = left
        /\ UNCHANGED <<pids, req, attempt, sent, position, wire, lost, errors>>
    BY <1>5 DEF ExchangeAgain, End, asked, underway
  <2>2. TypeOK'
    BY <2>1 DEF TypeOK
  <2>3. Moved(k, <<>>)
    BY <2>1
  <2>4. CallInv'
    BY <1>1, <2>1 DEF CallInv, LinkInv, Exchanges, Commands
  <2>5. AnswersRight'
    BY <2>1 DEF AnswersRight, LinkInv, Prompt
  <2>6. packet_id_mode => \A i \in DOMAIN Pipe : sent - Pipe[i].sent <= Oldest'
    <3>1. Oldest' = Lifetime + Retries - 1
      BY <2>1, <2>2, <2>4, NextOldest
    <3>2. Oldest = Lifetime
      BY <1>1, <1>5 DEF Oldest
    <3> QED
      BY <1>1, <3>1, <3>2, SentTypes, CountTypes, SMTT(40) DEF LinkInv, BacklogInv
  <2>7. ans' <= sent' /\ \A i \in DOMAIN Pipe : ans' <= Pipe[i].sent
    BY <2>1, SentTypes, CountTypes DEF LinkInv
  <2>8. Prompt' => Prompt /\ Len(Pipe) = k /\ Len(Pipe) - k <= 1
    <3>1. Prompt' => Prompt
      BY <2>1 DEF Prompt
    <3>2. k \in 0..Len(Pipe)
      BY <2>3 DEF Moved
    <3> QED
      BY <1>2, <3>1, <3>2
  <2>9. LinkInv'
    <3>1. call' = "detect" \/ packet_id_mode' => packet_id_mode
      BY <2>1
    <3> QED
      BY <2>1, <2>2, <2>3, <2>4, <2>5, <2>6, <2>7, <2>8, <3>1, IdleLink
  <2> QED
    BY <2>1, <2>2, <2>3, <2>9
<1> QED
  BY <1>4, <1>5

(* An answer, accepted, with or without an error status, or not. *)
LEMMA ExchangeAnswerLink ==
  ASSUME TypeOK, LinkInv, ExchangeAnswer
  PROVE  /\ TypeOK' /\ LinkInv' /\ UNCHANGED <<req, sent, packet_id_mode, opened, calls, data>>
         /\ 1 \in DOMAIN Pipe /\ (Prompt' => Prompt)
         /\ \/ /\ Moved(1, <<>>) /\ call' = "none" /\ UNCHANGED position
               /\ ans' = Pipe[1].sent /\ (Trusted => ans' = sent)
               /\ result' = (IF Pipe[1].ok THEN "returned" ELSE "raised")
            \/ /\ call' = call
               /\ \E X \in Seq(AnswerRecord) : Answering(X, req) /\ Turn(Len(rx), X)
            \/ call' = "none" /\ result' = "raised" /\ Moved(1, <<>>) /\ UNCHANGED position
<1>1. /\ call \in Exchanges /\ rx # <<>>
      /\ UNCHANGED <<firmware, is_open, packet_id_mode, opened, data, calls, late>>
  BY DEF ExchangeAnswer, host
<1>2. 1 \in DOMAIN Pipe /\ Head(rx) = Pipe[1] /\ Head(rx) \in AnswerRecord /\ Tail(rx) \in Seq(AnswerRecord)
  <2>1. Len(rx) \in Nat /\ Len(rx) # 0
    BY <1>1, PipeType, EmptySeq DEF TypeOK
  <2> QED
    BY <1>1, <2>1, PipeType, HeadTailProperties DEF TypeOK
<1>3. rx' = Tail(rx) /\ wire' = wire => Moved(1, <<>>)
  BY <1>1, SameWire, PipeTake
<1>4. /\ call \in Commands /\ call \notin {"none", "detect", "fifo_read"} /\ req.cmd = call /\ is_open
      /\ Lifetime \in Nat /\ Retries \in Nat /\ Retries > 1
  BY <1>1, OldestType DEF LinkInv, CallInv, Exchanges, Commands
<1>5. CASE Matches(Head(rx))
  <2>1. /\ ans' = Pipe[1].sent /\ call' = "none"
        /\ result' = (IF Pipe[1].ok THEN "returned" ELSE "raised") /\ rx' = Tail(rx)
        /\ UNCHANGED <<pids, req, attempt, sent, position, wire, lost, errors>>
    BY <1>2, <1>5 DEF ExchangeAnswer, End, StatusFine, asked, underway
  <2>2. ans' \in 0..sent'
    BY <1>2, <2>1, SentTypes, CountTypes DEF LinkInv
  <2>3. TypeOK'
    BY <1>1, <1>2, <2>1, <2>2 DEF TypeOK
  <2>4. CallInv'
    BY <1>1, <1>4, <2>1 DEF CallInv, LinkInv, Exchanges, Commands
  <2>5. Trusted => \A i \in DOMAIN Pipe : Pipe[i].sent = sent
    BY <1>1, <1>4, <1>5, AcceptedCurrent
  <2>6. AnswersRight'
    <3>1. Trusted' => Trusted
      BY <1>1, <2>1 DEF Trusted, Prompt
    <3> QED
      BY <1>2, <2>1, <2>5, <3>1 DEF AnswersRight, Trusted, LinkInv, CallInv
  <2>7. packet_id_mode => \A i \in DOMAIN Pipe : sent - Pipe[i].sent <= Oldest'
    <3>1. 0 <= Oldest'
      BY <2>3, <2>4, NextOldest
    <3>2. sent - sent = 0
      BY CountTypes
    <3> QED
      BY <2>5, <3>1, <3>2 DEF Trusted
  <2>8. ans' <= sent' /\ \A i \in DOMAIN Pipe : ans' <= Pipe[i].sent
    <3>1. \A i \in DOMAIN Pipe : 1 <= i => Pipe[1].sent <= Pipe[i].sent
      BY <1>2 DEF LinkInv, OrderInv
    <3>2. \A i \in DOMAIN Pipe : 1 <= i
      BY PipeType
    <3> QED
      BY <2>1, <2>2, <3>1, <3>2, CountTypes
  <2>9. Prompt' => Prompt /\ Len(Pipe) = 1 /\ Len(Pipe) - 1 <= 1
    <3>1. Prompt' => Prompt
      BY <1>1, <2>1 DEF Prompt
    <3>2. Prompt => Len(Pipe) <= 1
      BY <1>4 DEF LinkInv, QuietInv
    <3> QED
      BY <1>2, <3>1, <3>2, PipeType
  <2>10. LinkInv'
    <3>1. call' = "detect" \/ packet_id_mode' => packet_id_mode
      BY <1>1, <2>1
    <3> QED
      BY <1>1, <1>3, <2>1, <2>3, <2>4, <2>6, <2>7, <2>8, <2>9, <3>1, IdleLink
  <2> QED
    BY <1>1, <1>2, <1>3, <2>1, <2>3, <2>5, <2>9, <2>10
<1>6. CASE ~Matches(Head(rx))
  <2>1. ExchangeAgain(Tail(rx)) /\ ans' = ans
    BY <1>6 DEF ExchangeAnswer
  <2>2. ~Prompt
    <3> SUFFICES ASSUME Prompt PROVE FALSE
      OBVIOUS
    <3>1. Pipe[1].sent = sent
      BY <1>2 DEF LinkInv, QuietInv
    <3>2. Pipe[1].cmd = req.cmd /\ Pipe[1].pid = req.pid
      BY <1>2, <3>1 DEF LinkInv, NumberInv
    <3> QED
      BY <1>2, <1>6, <3>2 DEF Matches
  <2>3. errors' = 0 => errors = 0
    BY <2>1, TransmitErrors DEF ExchangeAgain, underway
  <2>4. ~Prompt' /\ late' \in 0..MaxLate
    BY <1>1, <2>2, <2>3 DEF Prompt, TypeOK
  <2>5. /\ TypeOK' /\ LinkInv' /\ UNCHANGED <<req, sent>>
        /\ \/ /\ call' = call
              /\ \E X \in Seq(AnswerRecord) : Answering(X, req) /\ Turn(Len(rx), X)
           \/ call' = "none" /\ result' = "raised" /\ Moved(1, <<>>) /\ UNCHANGED position
    BY <1>1, <1>2, <1>3, <2>1, <2>4, ExchangeAgainLink
  <2> QED
    BY <1>1, <1>2, <2>4, <2>5
<1> QED
  BY <1>5, <1>6

LEMMA ExchangeTimeoutLink ==
  ASSUME TypeOK, LinkInv, ExchangeTimeout
  PROVE  /\ TypeOK' /\ LinkInv' /\ UNCHANGED <<req, sent, packet_id_mode, opened, calls, data, ans>>
         /\ (Prompt' => Prompt)
         /\ \/ /\ call' = call
               /\ \E X \in Seq(AnswerRecord) : Answering(X, req) /\ Turn(Len(rx), X)
            \/ call' = "none" /\ result' = "raised" /\ Moved(0, <<>>) /\ UNCHANGED position
<1>1. /\ call \in Exchanges /\ NoAnswer /\ ExchangeAgain(rx)
      /\ UNCHANGED <<firmware, is_open, packet_id_mode, opened, ans, data, calls>>
  BY DEF ExchangeTimeout, host
<1>2. /\ late' \in 0..MaxLate /\ rx \in Seq(AnswerRecord)
      /\ late' = 0 => Pipe = <<>> /\ late = 0
  <2>1. rx = <<>> /\ ((wire = <<>> /\ late' = late) \/ (late < MaxLate /\ late' = late + 1))
    BY <1>1 DEF NoAnswer
  <2>2. late \in 0..MaxLate /\ MaxLate \in Nat /\ rx \in Seq(AnswerRecord)
    BY UdpLinkAssumption DEF TypeOK
  <2> QED
    BY <2>1, <2>2 DEF Pipe
<1>3. rx' = rx /\ wire' = wire => Moved(0, <<>>)
  BY SameWire, PipeSend
<1>4. Prompt' => Pipe = <<>> /\ late = 0
  BY <1>2 DEF Prompt
<1>5. errors' = 0 => errors = 0
  BY <1>1, TransmitErrors DEF ExchangeAgain, underway
<1>6. Prompt' => Prompt
  BY <1>4, <1>5 DEF Prompt
<1>7. /\ TypeOK' /\ LinkInv' /\ UNCHANGED <<req, sent>>
      /\ \/ /\ call' = call
            /\ \E X \in Seq(AnswerRecord) : Answering(X, req) /\ Turn(Len(rx), X)
         \/ call' = "none" /\ result' = "raised" /\ Moved(0, <<>>) /\ UNCHANGED position
  BY <1>1, <1>2, <1>3, <1>4, ExchangeAgainLink
<1> QED
  BY <1>1, <1>6, <1>7

-----------------------------------------------------------------------------
(* fifo_read *)

(* The pipe keeps what it holds. *)
LEMMA PipeStays ==
  ASSUME TypeOK, TypeOK', Moved(0, <<>>)
  PROVE  Pipe' = Pipe
<1>1. /\ Pipe \in Seq(AnswerRecord) /\ Len(Pipe) \in Nat /\ DOMAIN Pipe = 1..Len(Pipe)
      /\ Pipe' \in Seq(AnswerRecord) /\ Len(Pipe') \in Nat /\ DOMAIN Pipe' = 1..Len(Pipe')
  BY PipeType, NextPipeType
<1>2. Len(Pipe') = Len(Pipe) /\ \A i \in 1..Len(Pipe) : Pipe'[i] = Pipe[i]
  BY <1>1 DEF Moved
<1> QED
  BY <1>1, <1>2, SeqEqual

(* The words of attempt requests, of all requests, and of one more. *)
LEMMA AskedWords ==
  ASSUME TypeOK, CallInv, call = "fifo_read"
  PROVE  /\ Asked \in Nat /\ FifoWords \in Nat /\ Packets \in Nat /\ Packets > 0
         /\ attempt \in 1..Requests /\ Requests \in Nat
         /\ Packets <= Asked /\ Asked <= FifoWords /\ (attempt + 1) * Packets = Asked + Packets
         /\ Asked < FifoWords => attempt + 1 \in 1..Requests
         /\ Len(data) \in Nat /\ Len(data) <= Asked /\ position \in Nat
<1>1. attempt \in 1..Requests /\ Requests \in Nat /\ Packets \in Nat /\ Packets > 0
  BY UdpLinkAssumption DEF CallInv
<1>2. attempt * Packets \in Nat /\ Packets * Requests \in Nat
  BY <1>1
<1>3. Packets * (attempt - 1) \in Nat /\ Packets * (Requests - attempt) \in Nat
  <2>1. attempt - 1 \in Nat /\ Requests - attempt \in Nat
    BY <1>1
  <2> QED
    BY <1>1, <2>1
<1>4. /\ Packets * (attempt - 1) = attempt * Packets - Packets
      /\ Packets * (Requests - attempt) = Packets * Requests - attempt * Packets
      /\ (attempt + 1) * Packets = attempt * Packets + Packets
  BY <1>1
<1>5. attempt = Requests => attempt * Packets = Packets * Requests
  BY <1>1
<1>6. Len(data) \in Nat /\ Len(data) <= attempt * Packets /\ position \in Nat
  BY CountTypes DEF CallInv
<1>7. attempt + 1 \in 1..Requests \/ attempt = Requests
  BY <1>1
<1> QED
  BY <1>1, <1>2, <1>3, <1>4, <1>5, <1>6, <1>7 DEF Asked, FifoWords

(* The transfer begins: only its own answers can line up behind no others. *)
LEMMA FifoReadFifo ==
  ASSUME TypeOK, TypeOK', CallInv', NEW X \in Seq(AnswerRecord), Turn(0, X), Answering(X, req'),
         req'.cmd = "fifo_read", req'.arg = "none", sent' = sent + 1, attempt' = 1, data' = <<>>,
         Trusted' => position = 0 /\ \A i \in DOMAIN Pipe : Pipe[i].sent = sent
  PROVE  FifoInv'
<1> SUFFICES ASSUME call' = "fifo_read", Trusted', Lined' PROVE Short' \/ Exact'
  BY DEF FifoInv
<1>1. /\ Len(Pipe) \in Nat /\ Len(X) \in Nat /\ DOMAIN Pipe = 1..Len(Pipe)
      /\ DOMAIN Pipe' = 1..Len(Pipe') /\ Len(Pipe') = Len(Pipe) + Len(X)
      /\ \A i \in 1..Len(Pipe) : Pipe'[i] = Pipe[i]
      /\ \A i \in 1..Len(X) : Pipe'[Len(Pipe) + i] = X[i]
  BY TurnedPipe, LenProperties DEF Turn, Moved
<1>2. Len(Pipe) = 0
  <2> SUFFICES ASSUME Len(Pipe) # 0 PROVE FALSE
    OBVIOUS
  <2>1. 1 \in DOMAIN Pipe /\ 1 \in DOMAIN Pipe' /\ Pipe'[1] = Pipe[1]
    BY <1>1
  <2>2. Pipe' # <<>>
    BY <2>1
  <2> QED
    BY <2>1, <2>2, CountTypes DEF Lined
<1>3. /\ Packets \in Nat /\ Asked' = Packets /\ Len(data') = 0 /\ position = 0
      /\ Len(Pipe') = Len(X) /\ Len(X) <= Packets
      /\ \A i \in 1..Len(X) : Pipe'[i] = X[i]
  <2>1. Packets \in Nat
    BY UdpLinkAssumption
  <2> QED
    BY <1>1, <1>2, <2>1 DEF Asked, Answering, Expected
<1>4. CASE Len(X) = Packets
  <2>1. /\ \A j \in 1..Len(X) : X[j].word = j
        /\ position' = Packets \/ \E j \in 1..Len(X) : ~X[j].ok
    <3>1. Len(X) = Expected(req') /\ Position(req') = position + Packets
      <4>1. Len(X) = Expected(req')
        BY <1>4 DEF Expected
      <4>2. Position(req') = position + Packets
        BY DEF Position
      <4> QED
        BY <4>1, <4>2
    <3>2. /\ \A j \in 1..Len(X) : X[j].word = position + j
          /\ position' = position + Packets \/ \E j \in 1..Len(X) : ~X[j].ok
      BY <3>1 DEF Answering
    <3> QED
      BY <1>3, <3>2
  <2>2. data' = [i \in 1..Len(data') |-> i]
    BY <1>3
  <2>3. \A i \in DOMAIN Pipe' : Pipe'[i].word = Len(data') + i
    BY <1>1, <1>3, <2>1
  <2>4. position' = Asked' \/ \E i \in DOMAIN Pipe' : ~Pipe'[i].ok
    BY <1>1, <1>3, <2>1
  <2>5. Len(data') + Len(Pipe') = Asked'
    BY <1>3, <1>4
  <2>6. Exact'
    BY <2>2, <2>3, <2>4, <2>5 DEF Exact
  <2> QED
    BY <2>6
<1>5. CASE Len(X) # Packets
  BY <1>3, <1>5 DEF Short
<1> QED
  BY <1>4, <1>5

LEMMA NextFifoRequestLink ==
  ASSUME TypeOK, LinkInv, FifoInv, NextFifoRequest
  PROVE  /\ TypeOK' /\ LinkInv' /\ FifoInv'
         /\ call = "fifo_read" /\ call' = call /\ UNCHANGED <<calls, opened, packet_id_mode>>
<1>1. /\ call = "fifo_read" /\ Len(data) < FifoWords /\ Len(data) = Asked
      /\ Build("fifo_read", "none", packet_id_mode) /\ attempt' = attempt + 1 /\ ans' = 0
      /\ Transmit(req')
      /\ UNCHANGED <<firmware, is_open, packet_id_mode, opened, call, result, data, rx, calls, late>>
  BY DEF NextFifoRequest, host, Asked
<1>2. /\ Asked \in Nat /\ FifoWords \in Nat /\ Packets \in Nat /\ Packets > 0
      /\ attempt \in 1..Requests /\ attempt' \in 1..Requests /\ attempt' \in Nat
      /\ Packets <= Asked /\ Asked' = Asked + Packets
      /\ Len(data) \in Nat /\ position \in Nat
  BY <1>1, AskedWords DEF LinkInv, Asked
<1>3. /\ Built /\ req' \in RequestRecord /\ req'.cmd = "fifo_read" /\ req'.arg = "none"
      /\ req'.new = packet_id_mode /\ req'.sent = sent'
      /\ sent' \in Nat /\ pids' \in 0..sent' /\ (packet_id_mode => pids' > 0)
  BY <1>1, BuildType DEF TypeOK, Commands
<1>4. PICK X : Answering(X, req')
  BY <1>1, <1>3, Transmitted
<1>5. Turn(0, X) /\ X \in Seq(AnswerRecord) /\ wire' \in Seq(AnswerRecord)
  <2>1. Moved(0, X)
    BY <1>1, <1>4, PipeSend DEF Answering
  <2> QED
    BY <1>1, <1>3, <1>4, <2>1, SentTurn
<1>6. TypeOK'
  BY <1>1, <1>2, <1>3, <1>4, <1>5 DEF TypeOK, Answering
<1>7. Trusted => Len(Pipe) = 0 /\ Exact /\ position = Asked
  <2> SUFFICES ASSUME Trusted PROVE Len(Pipe) = 0 /\ Exact /\ position = Asked
    OBVIOUS
  <2>1. Len(Pipe) \in Nat /\ DOMAIN Pipe = 1..Len(Pipe)
    BY PipeType
  <2>2. data # <<>>
    BY <1>1, <1>2
  <2>3. Short \/ Exact
    BY <1>1, <2>2 DEF FifoInv
  <2>4. Exact /\ Len(Pipe) = 0
    BY <1>1, <1>2, <2>1, <2>3 DEF Short, Exact
  <2> QED
    BY <1>2, <2>1, <2>4 DEF Exact
<1>8. errors' = 0 => errors = 0
  BY <1>1, TransmitErrors
<1>9. Trusted' => Trusted
  BY <1>1, <1>8 DEF Trusted, Prompt
<1>10. CallInv'
  <2>1. Len(data') <= attempt' * Packets
    BY <1>1, <1>2 DEF Asked
  <2>2. req'.new => req'.pid = Pid(pids')
    BY <1>3 DEF Built
  <2> QED
    BY <1>1, <1>2, <1>3, <2>1, <2>2 DEF CallInv, LinkInv, Exchanges, Commands
<1>11. AnswersRight'
  BY <1>1 DEF AnswersRight
<1>12. LinkInv'
  <2>1. ans' <= sent' /\ \A i \in DOMAIN Pipe : ans' <= Pipe[i].sent
    BY <1>1, <1>3, SentTypes DEF LinkInv
  <2>2. Trusted' => \A i : i \notin DOMAIN Pipe
    BY <1>7, <1>9, PipeType
  <2>3. call' = "detect" \/ packet_id_mode' => Trusted'
    BY <1>1 DEF Trusted
  <2>4. Prompt' => Trusted' /\ \A j \in 1..Len(X) : X[j].ok
    BY <1>4 DEF Prompt, Trusted, Answering
  <2> QED
    BY <1>1, <1>5, <1>6, <1>10, <1>11, <2>1, <2>2, <2>3, <2>4, LinkStep
<1>13. FifoInv'
  <2> SUFFICES ASSUME Trusted' PROVE Lined' /\ (Short' \/ Exact')
    BY DEF FifoInv
  <2>1. /\ Len(Pipe) = 0 /\ Len(X) \in Nat /\ DOMAIN Pipe' = 1..Len(Pipe') /\ Len(Pipe') = Len(X)
        /\ \A i \in 1..Len(X) : Pipe'[i] = X[i] /\ X[i].sent = sent'
    BY <1>5, <1>6, <1>7, <1>9, TurnedPipe, LenProperties DEF Turn, Moved
  <2>2. Lined'
    <3> SUFFICES ASSUME Pipe' # <<>> PROVE Pipe'[1].sent = sent'
      BY DEF Lined
    <3>1. Len(Pipe') # 0
      BY <1>6, NextPipeType, EmptySeq
    <3> QED
      BY <2>1, <3>1
  <2>3. Len(X) <= Packets
    BY <1>3, <1>4 DEF Answering, Expected
  <2>4. CASE Len(X) = Packets
    <3>1. /\ \A j \in 1..Len(X) : X[j].word = Asked + j
          /\ position' = Asked' \/ \E j \in 1..Len(X) : ~X[j].ok
      BY <1>2, <1>3, <1>4, <1>7, <1>9, <2>4 DEF Answering, Expected, Position
    <3>2. data' = [i \in 1..Len(data') |-> i]
      BY <1>1, <1>7, <1>9 DEF Exact
    <3>3. Exact'
      BY <1>1, <1>2, <2>1, <2>4, <3>1, <3>2 DEF Exact
    <3> QED
      BY <2>2, <3>3
  <2>5. CASE Len(X) # Packets
    <3>1. Len(data') = Asked /\ Len(Pipe') = Len(X) /\ Len(X) \in Nat
      BY <1>1, <2>1
    <3>2. Short'
      BY <1>2, <2>3, <2>5, <3>1 DEF Short
    <3> QED
      BY <2>2, <3>2
  <2> QED
    BY <2>4, <2>5
<1> QED
  BY <1>1, <1>6, <1>12, <1>13

(* A packet comes: of a transfer the link can tell, it is the next one. *)
LEMMA FifoPacketLink ==
  ASSUME TypeOK, LinkInv, FifoInv, FifoPacket
  PROVE  /\ TypeOK' /\ LinkInv' /\ FifoInv'
         /\ call = "fifo_read" /\ call' \in {"none", "fifo_read"}
         /\ UNCHANGED <<calls, opened, packet_id_mode>>
         /\ Trusted' /\ call' = "none" /\ result' = "returned" => Received'
<1>1. /\ call = "fifo_read" /\ rx # <<>> /\ Len(data) < Asked /\ rx' = Tail(rx)
      /\ UNCHANGED <<firmware, is_open, packet_id_mode, opened, pids, req, attempt, sent,
                     position, wire, lost, errors, calls, late>>
  BY DEF FifoPacket, host, asked, underway, Asked
<1>2. /\ Asked \in Nat /\ FifoWords \in Nat /\ Asked <= FifoWords
      /\ attempt \in 1..Requests /\ Len(data) \in Nat /\ data \in Seq(Nat)
  BY <1>1, AskedWords DEF LinkInv, TypeOK
<1>3. /\ 1 \in DOMAIN Pipe /\ Head(rx) = Pipe[1] /\ Head(rx) \in AnswerRecord
      /\ Tail(rx) \in Seq(AnswerRecord) /\ Pipe # <<>>
  <2>1. Len(rx) \in Nat /\ Len(rx) # 0
    BY <1>1, PipeType, EmptySeq DEF TypeOK
  <2> QED
    BY <1>1, <2>1, PipeType, HeadTailProperties DEF TypeOK
<1>4. Moved(1, <<>>)
  BY <1>1, SameWire, PipeTake
<1>5. /\ Len(Pipe) \in Nat /\ DOMAIN Pipe = 1..Len(Pipe) /\ 1 <= Len(Pipe)
      /\ Len(Pipe') = Len(Pipe) - 1 /\ \A i \in 1..(Len(Pipe) - 1) : Pipe'[i] = Pipe[i + 1]
  <2>1. Len(Pipe) \in Nat /\ DOMAIN Pipe = 1..Len(Pipe) /\ 1 <= Len(Pipe)
    BY <1>3, PipeType
  <2>2. \A i \in 1..(Len(Pipe) - 1) : 1 + i = i + 1
    BY <2>1
  <2> QED
    BY <1>4, <2>1, <2>2 DEF Moved
<1>6. (Trusted' <=> Trusted) /\ (Prompt' <=> Prompt)
  BY <1>1 DEF Trusted, Prompt
<1>7. call \in Commands /\ is_open /\ opened /\ req.cmd = call /\ req.new = packet_id_mode
  BY <1>1 DEF LinkInv, CallInv, Commands
<1>8. CASE Matches(Head(rx)) /\ StatusFine(Head(rx))
  <2>1. /\ data' = Append(data, Pipe[1].word) /\ ans' = Pipe[1].sent /\ Pipe[1].ok
        /\ IF Len(data') = FifoWords THEN call' = "none" /\ result' = "returned"
                                     ELSE UNCHANGED <<call, result>>
    BY <1>3, <1>8 DEF FifoPacket, StatusFine, End
  <2>2. /\ data' \in Seq(Nat) /\ Len(data') = Len(data) + 1
        /\ data'[Len(data) + 1] = Pipe[1].word
        /\ \A i \in 1..Len(data) : data'[i] = data[i]
    <3>1. Pipe[1].word \in Nat
      BY <1>3 DEF AnswerRecord
    <3> QED
      BY <1>2, <2>1, <3>1, AppendProperties
  <2>3. ans' \in 0..sent'
    BY <1>1, <1>3, <2>1, SentTypes, CountTypes DEF LinkInv
  <2>4. TypeOK'
    BY <1>1, <1>3, <2>1, <2>2, <2>3 DEF TypeOK
  <2>5. call' \in {"none", "fifo_read"}
    BY <1>1, <2>1
  <2>6. CallInv'
    <3>1. Len(data') <= attempt' * Packets
      BY <1>1, <1>2, <2>2 DEF Asked
    <3> QED
      BY <1>1, <1>2, <1>7, <2>5, <3>1 DEF CallInv, LinkInv, Exchanges, Commands
  <2>7. Trusted => \A i \in DOMAIN Pipe : Pipe[i].sent = sent
    BY <1>1, <1>7, <1>8, AcceptedCurrent
  <2>8. AnswersRight'
    BY <1>1, <1>3, <1>6, <2>1, <2>7 DEF AnswersRight, Trusted, LinkInv, CallInv
  <2>9. Trusted => Lined /\ (Short \/ Exact)
    BY <1>1, <1>3, <2>7 DEF FifoInv, Lined
  <2>10. Short => Len(data') + Len(Pipe') < Asked
    BY <1>2, <1>5, <2>2 DEF Short
  <2>11. Exact => /\ Len(data') + Len(Pipe') = Asked
                  /\ data' = [i \in 1..Len(data') |-> i]
                  /\ \A i \in DOMAIN Pipe' : Pipe'[i].word = Len(data') + i
                  /\ position' = Asked \/ \E i \in DOMAIN Pipe' : ~Pipe'[i].ok
    <3> SUFFICES ASSUME Exact
                 PROVE  /\ Len(data') + Len(Pipe') = Asked
                        /\ data' = [i \in 1..Len(data') |-> i]
                        /\ \A i \in DOMAIN Pipe' : Pipe'[i].word = Len(data') + i
                        /\ position' = Asked \/ \E i \in DOMAIN Pipe' : ~Pipe'[i].ok
      OBVIOUS
    <3>1. /\ Len(data) + Len(Pipe) = Asked /\ (\A i \in 1..Len(data) : data[i] = i)
          /\ \A i \in DOMAIN Pipe : Pipe[i].word = Len(data) + i
          /\ position = Asked \/ \E i \in DOMAIN Pipe : ~Pipe[i].ok
      BY DEF Exact
    <3>2. Len(data') + Len(Pipe') = Asked
      BY <1>2, <1>5, <2>2, <3>1
    <3>3. \A i \in 1..Len(data') : data'[i] = i
      <4> SUFFICES ASSUME NEW i \in 1..Len(data') PROVE data'[i] = i
        OBVIOUS
      <4>1. CASE i <= Len(data)
        <5>1. i \in 1..Len(data)
          BY <1>2, <2>2, <4>1
        <5>2. data'[i] = data[i]
          BY <2>2, <5>1
        <5> QED
          BY <3>1, <5>1, <5>2
      <4>2. CASE i = Len(data) + 1
        BY <1>3, <2>2, <3>1, <4>2
      <4> QED
        BY <1>2, <2>2, <4>1, <4>2
    <3>4. data' = [i \in 1..Len(data') |-> i]
      BY <2>2, <3>3, LenProperties
    <3>5. DOMAIN Pipe' = 1..(Len(Pipe) - 1)
      BY <1>5, <2>4, NextPipeType
    <3>6. \A i \in DOMAIN Pipe' : Pipe'[i].word = Len(data') + i
      <4> SUFFICES ASSUME NEW i \in DOMAIN Pipe' PROVE Pipe'[i].word = Len(data') + i
        OBVIOUS
      <4>1. i \in 1..(Len(Pipe) - 1) /\ i + 1 \in DOMAIN Pipe
        BY <1>5, <3>5
      <4>2. Pipe'[i] = Pipe[i + 1] /\ Pipe[i + 1].word = Len(data) + (i + 1)
        BY <1>5, <3>1, <4>1
      <4> QED
        BY <1>2, <2>2, <4>1, <4>2
    <3>7. position' = Asked \/ \E i \in DOMAIN Pipe' : ~Pipe'[i].ok
      <4> SUFFICES ASSUME NEW i \in DOMAIN Pipe, ~Pipe[i].ok
                   PROVE  \E j \in DOMAIN Pipe' : ~Pipe'[j].ok
        BY <1>1, <3>1
      <4>1. i # 1
        BY <2>1
      <4>2. i - 1 \in 1..(Len(Pipe) - 1) /\ (i - 1) + 1 = i
        BY <1>5, <4>1
      <4> QED
        BY <1>5, <3>5, <4>2
    <3> QED
      BY <3>2, <3>4, <3>6, <3>7
  <2>12. FifoInv'
    <3> SUFFICES ASSUME Trusted PROVE Short' \/ Exact'
      <4>1. Trusted => Lined'
        <5> SUFFICES ASSUME Trusted, Pipe' # <<>> PROVE Pipe'[1].sent = sent'
          BY DEF Lined
        <5>1. 1 \in DOMAIN Pipe'
          BY <2>4, NextPipeType, EmptySeq
        <5>2. 2 \in DOMAIN Pipe /\ Pipe'[1] = Pipe[2]
          BY <1>5, <2>4, <5>1, NextPipeType
        <5> QED
          BY <1>1, <2>7, <5>2
      <4> QED
        BY <1>6, <4>1 DEF FifoInv
    <3>1. Asked' = Asked
      BY <1>1 DEF Asked
    <3> QED
      BY <2>9, <2>10, <2>11, <3>1 DEF Short, Exact
  <2>13. Trusted' /\ call' = "none" => Received' /\ Len(Pipe') = 0
    <3> SUFFICES ASSUME Trusted', call' = "none" PROVE Received' /\ Len(Pipe') = 0
      OBVIOUS
    <3>1. Len(data') = FifoWords
      BY <1>1, <2>1
    <3>2. Len(Pipe') \in Nat
      BY <2>4, NextPipeType
    <3>3. Exact /\ Len(data') + Len(Pipe') = Asked
      BY <1>2, <1>6, <2>9, <2>10, <2>11, <3>1, <3>2
    <3> QED
      BY <1>2, <2>11, <3>1, <3>2, <3>3 DEF Received
  <2>14. LinkInv'
    <3>1. 0 <= Oldest' /\ sent - sent = 0
      BY <2>4, <2>6, NextOldest, CountTypes
    <3>2. ans' <= sent' /\ \A i \in DOMAIN Pipe : ans' <= Pipe[i].sent
      <4>1. \A i \in DOMAIN Pipe : 1 <= i => Pipe[1].sent <= Pipe[i].sent
        BY <1>3 DEF LinkInv, OrderInv
      <4>2. \A i \in DOMAIN Pipe : 1 <= i
        BY PipeType
      <4> QED
        BY <2>1, <2>3, <4>1, <4>2, CountTypes
    <3>3. call' = "detect" \/ packet_id_mode' => Trusted
      BY <1>1, <2>5 DEF Trusted
    <3>4. Prompt' => Prompt /\ (call' = "none" => Len(Pipe) = 1)
                     /\ (call' # "fifo_read" => Len(Pipe) - 1 <= 1)
      BY <1>5, <1>6, <2>5, <2>13 DEF Trusted
    <3> QED
      BY <1>1, <1>4, <2>4, <2>6, <2>7, <2>8, <3>1, <3>2, <3>3, <3>4, IdleLink
  <2> QED
    BY <1>1, <2>4, <2>5, <2>12, <2>13, <2>14
<1>9. CASE ~(Matches(Head(rx)) /\ StatusFine(Head(rx)))
  <2>1. call' = "none" /\ result' = "raised" /\ UNCHANGED <<data, ans>>
    BY <1>9 DEF FifoPacket, End
  <2>2. TypeOK'
    BY <1>1, <1>3, <2>1 DEF TypeOK
  <2>3. CallInv'
    BY <1>1, <1>7, <2>1 DEF CallInv, LinkInv, Exchanges, Commands
  <2>4. ~Prompt'
    <3> SUFFICES ASSUME Prompt PROVE FALSE
      BY <1>6
    <3>1. Pipe[1].sent = sent /\ Pipe[1].ok
      BY <1>3 DEF LinkInv, QuietInv
    <3>2. Pipe[1].cmd = req.cmd /\ Pipe[1].pid = req.pid
      BY <1>3, <3>1 DEF LinkInv, NumberInv
    <3> QED
      BY <1>3, <1>9, <3>1, <3>2 DEF Matches, StatusFine
  <2>5. AnswersRight'
    BY <1>1, <1>6, <2>1 DEF AnswersRight, LinkInv
  <2>6. packet_id_mode => \A i \in DOMAIN Pipe : sent - Pipe[i].sent <= Oldest'
    <3>1. Oldest' = Lifetime + Retries - 1 /\ Lifetime \in Nat /\ Retries \in Nat /\ Retries > 1
      BY <2>1, <2>2, <2>3, NextOldest, OldestType DEF LinkInv
    <3>2. packet_id_mode => \A i \in DOMAIN Pipe : sent - Pipe[i].sent <= 1
      BY <1>1 DEF LinkInv, BacklogInv, Oldest
    <3> QED
      BY <3>1, <3>2, SentTypes, CountTypes DEF LinkInv
  <2>7. ans' <= sent' /\ \A i \in DOMAIN Pipe : ans' <= Pipe[i].sent
    BY <1>1, <2>1, SentTypes, CountTypes DEF LinkInv
  <2>8. LinkInv'
    <3>1. call' = "detect" \/ packet_id_mode' => packet_id_mode
      BY <1>1, <2>1
    <3> QED
      BY <1>1, <1>4, <2>2, <2>3, <2>4, <2>5, <2>6, <2>7, <3>1, IdleLink
  <2>9. FifoInv'
    BY <2>1 DEF FifoInv
  <2> QED
    BY <1>1, <2>1, <2>2, <2>8, <2>9
<1> QED
  BY <1>8, <1>9

LEMMA FifoTimeoutLink ==
  ASSUME TypeOK, LinkInv, FifoTimeout
  PROVE  /\ TypeOK' /\ LinkInv' /\ FifoInv'
         /\ call = "fifo_read" /\ call' = "none" /\ result' = "raised"
         /\ UNCHANGED <<calls, opened, packet_id_mode>>
<1>1. /\ call = "fifo_read" /\ NoAnswer /\ call' = "none" /\ result' = "raised" /\ rx' = rx
      /\ UNCHANGED <<firmware, is_open, packet_id_mode, opened, pids, req, attempt, sent,
                     position, wire, lost, errors, ans, data, calls>>
  BY DEF FifoTimeout, host, asked, underway, End
<1>2. /\ late' \in 0..MaxLate /\ (late' = 0 => Pipe = <<>> /\ late = 0) /\ Moved(0, <<>>)
  BY <1>1, SameWire, SilentTurn
<1>3. Prompt' => Prompt /\ Len(Pipe) = 0
  BY <1>1, <1>2, PipeType DEF Prompt
<1>4. TypeOK'
  BY <1>1, <1>2 DEF TypeOK
<1>5. CallInv'
  BY <1>1 DEF CallInv, LinkInv, Exchanges, Commands
<1>6. AnswersRight'
  BY <1>1, <1>3 DEF AnswersRight, LinkInv
<1>7. packet_id_mode => \A i \in DOMAIN Pipe : sent - Pipe[i].sent <= Oldest'
  <2>1. Oldest' = Lifetime + Retries - 1 /\ Lifetime \in Nat /\ Retries \in Nat /\ Retries > 1
    BY <1>1, <1>4, <1>5, NextOldest, OldestType DEF LinkInv
  <2>2. packet_id_mode => \A i \in DOMAIN Pipe : sent - Pipe[i].sent <= 1
    BY <1>1 DEF LinkInv, BacklogInv, Oldest
  <2> QED
    BY <2>1, <2>2, SentTypes, CountTypes DEF LinkInv
<1>8. ans' <= sent' /\ \A i \in DOMAIN Pipe : ans' <= Pipe[i].sent
  BY <1>1, SentTypes, CountTypes DEF LinkInv
<1>9. LinkInv'
  <2>1. call' = "detect" \/ packet_id_mode' => packet_id_mode
    BY <1>1
  <2>2. Prompt' => Prompt /\ Len(Pipe) = 0 /\ Len(Pipe) - 0 <= 1
    BY <1>3
  <2> QED
    BY <1>1, <1>2, <1>4, <1>5, <1>6, <1>7, <1>8, <2>1, <2>2, IdleLink
<1>10. FifoInv'
  BY <1>1 DEF FifoInv
<1> QED
  BY <1>1, <1>4, <1>9, <1>10

-----------------------------------------------------------------------------
(* The steps of a transfer *)

(* What a served request did to the data transfer logic. *)
LEMMA PositionOf ==
  ASSUME TypeOK, NEW r \in RequestRecord
  PROVE  /\ r.cmd = "fifo_write" /\ r.arg = "none" => Position(r) = position + 1
         /\ r.cmd = "reg_write" /\ r.arg = "start" => Position(r) = 0
         /\ r.cmd = "reg_write" /\ r.arg = "reset" => Position(r) = position
  BY DEF Position

(* An answer without an error was there before, or its request was served. *)
LEMMA NewlyServed ==
  ASSUME TypeOK, TypeOK', NEW k, NEW X \in Seq(AnswerRecord), Turn(k, X), Answering(X, req'),
         req'.cmd # "fifo_read"
  PROVE  \A i \in DOMAIN Pipe' :
           Pipe'[i].ok => \/ position' = Position(req')
                          \/ \E j \in DOMAIN Pipe : Pipe'[i] = Pipe[j]
<1>1. Len(X) \in Nat /\ Len(X) <= 1 /\ Expected(req') = 1
  BY LenProperties, OneAnswer DEF Expected
<1>2. \A j \in 1..Len(X) : X[j].ok => position' = Position(req')
  <2> SUFFICES ASSUME NEW j \in 1..Len(X), X[j].ok PROVE position' = Position(req')
    OBVIOUS
  <2>1. Len(X) = 1
    <3>1. Len(X) # 0
      OBVIOUS
    <3>2. \A n \in Nat : n <= 1 /\ n # 0 => n = 1
      OBVIOUS
    <3> QED
      BY <1>1, <3>1, <3>2, Zenon
  <2>2. j = 1
    BY <2>1
  <2> QED
    BY <1>1, <2>1, <2>2 DEF Answering
<1>3. \A i \in DOMAIN Pipe' :
        (\E j \in DOMAIN Pipe : Pipe'[i] = Pipe[j]) \/ \E j \in 1..Len(X) : Pipe'[i] = X[j]
  BY TurnedPipe
<1> QED
  BY <1>2, <1>3

(* How an attempt of a call can go: again, in vain, or answered. *)
Outcome ==
  /\ UNCHANGED <<req, sent, packet_id_mode, opened, calls, data>>
  /\ Trusted' => Trusted
  /\ position' \in {position, Position(req)}
  /\ \A i \in DOMAIN Pipe' :
       Pipe'[i].ok => \/ position' = Position(req)
                      \/ \E j \in DOMAIN Pipe : Pipe'[i] = Pipe[j]
  /\ \/ call' = call
     \/ call' = "none" /\ result' = "raised"
     \/ /\ call' = "none" /\ UNCHANGED position
        /\ Trusted => ans' = sent /\ \E j \in DOMAIN Pipe : Pipe[j].sent = sent /\ Pipe[j].ok

(* Nothing is new in the pipe. *)
LEMMA LessPipe ==
  ASSUME TypeOK, TypeOK', NEW k, Moved(k, <<>>)
  PROVE  \A i \in DOMAIN Pipe' : \E j \in DOMAIN Pipe : Pipe'[i] = Pipe[j]
<1> SUFFICES ASSUME NEW i \in DOMAIN Pipe' PROVE \E j \in DOMAIN Pipe : Pipe'[i] = Pipe[j]
  OBVIOUS
<1>1. /\ Len(Pipe) \in Nat /\ DOMAIN Pipe = 1..Len(Pipe)
      /\ Len(Pipe') \in Nat /\ DOMAIN Pipe' = 1..Len(Pipe')
  BY PipeType, NextPipeType
<1>2. k \in 0..Len(Pipe) /\ Len(Pipe') = Len(Pipe) - k
  BY <1>1 DEF Moved
<1>3. i \in 1..(Len(Pipe) - k) /\ k + i \in DOMAIN Pipe
  BY <1>1, <1>2
<1> QED
  BY <1>3 DEF Moved

LEMMA ExchangeOutcome ==
  ASSUME TypeOK, LinkInv, ExchangeAnswer \/ ExchangeTimeout
  PROVE  TypeOK' /\ LinkInv' /\ Outcome /\ call \in Exchanges
<1>1. call \in Exchanges /\ req.cmd # "fifo_read"
  BY DEF ExchangeAnswer, ExchangeTimeout, LinkInv, CallInv, Exchanges
<1>2. /\ TypeOK' /\ LinkInv' /\ UNCHANGED <<req, sent, packet_id_mode, opened, calls, data>>
      /\ Prompt' => Prompt
  BY ExchangeAnswerLink, ExchangeTimeoutLink
<1>3. Trusted' => Trusted
  BY <1>2 DEF Trusted
<1>4. ASSUME call' = call, NEW X \in Seq(AnswerRecord), Answering(X, req), Turn(Len(rx), X)
      PROVE  Outcome
  <2>1. Answering(X, req') /\ req'.cmd # "fifo_read"
    BY <1>1, <1>2, <1>4
  <2>2. \A i \in DOMAIN Pipe' :
          Pipe'[i].ok => \/ position' = Position(req')
                         \/ \E j \in DOMAIN Pipe : Pipe'[i] = Pipe[j]
    BY <1>2, <1>4, <2>1, NewlyServed
  <2>3. position' \in {position, Position(req)}
    BY <1>4 DEF Answering
  <2> QED
    BY <1>2, <1>3, <1>4, <2>2, <2>3 DEF Outcome
<1>5. ASSUME NEW k, call' = "none", Moved(k, <<>>), UNCHANGED position,
             \/ result' = "raised"
             \/ Trusted => ans' = sent /\ \E j \in DOMAIN Pipe : Pipe[j].sent = sent /\ Pipe[j].ok
      PROVE  Outcome
  BY <1>2, <1>3, <1>5, LessPipe DEF Outcome
<1>6. CASE ExchangeAnswer
  <2>1. 1 \in DOMAIN Pipe
    BY <1>6, ExchangeAnswerLink
  <2>2. \/ \E X \in Seq(AnswerRecord) : call' = call /\ Answering(X, req) /\ Turn(Len(rx), X)
        \/ call' = "none" /\ result' = "raised" /\ Moved(1, <<>>) /\ UNCHANGED position
        \/ /\ call' = "none" /\ Moved(1, <<>>) /\ UNCHANGED position
           /\ ans' = Pipe[1].sent /\ (Trusted => ans' = sent)
           /\ result' = (IF Pipe[1].ok THEN "returned" ELSE "raised")
    BY <1>6, ExchangeAnswerLink
  <2> QED
    BY <1>1, <1>2, <1>4, <1>5, <2>1, <2>2
<1>7. CASE ExchangeTimeout
  <2>1. \/ \E X \in Seq(AnswerRecord) : call' = call /\ Answering(X, req) /\ Turn(Len(rx), X)
        \/ call' = "none" /\ result' = "raised" /\ Moved(0, <<>>) /\ UNCHANGED position
    BY <1>7, ExchangeTimeoutLink
  <2> QED
    BY <1>1, <1>2, <1>4, <1>5, <2>1
<1> QED
  BY <1>6, <1>7

(* Only another attempt sends the request again. *)
LEMMA AttemptMoves ==
  ASSUME TypeOK, LinkInv, ExchangeAnswer \/ ExchangeTimeout
  PROVE  \/ UNCHANGED <<attempt, position>>
         \/ /\ attempt < Retries /\ attempt' = attempt + 1
            /\ position' \in {position, Position(req)}
<1>1. ASSUME NEW left, ExchangeAgain(left)
      PROVE  \/ UNCHANGED <<attempt, position>>
             \/ /\ attempt < Retries /\ attempt' = attempt + 1
                /\ position' \in {position, Position(req)}
  <2>1. CASE attempt < Retries
    <3>1. attempt' = attempt + 1 /\ Transmit(req)
      BY <1>1, <2>1 DEF ExchangeAgain
    <3>2. position' \in {position, Position(req)}
      BY <3>1 DEF Transmit, underway
    <3> QED
      BY <2>1, <3>1, <3>2
  <2>2. CASE ~(attempt < Retries)
    BY <1>1, <2>2 DEF ExchangeAgain, asked, underway
  <2> QED
    BY <2>1, <2>2
<1>2. CASE ExchangeAnswer
  <2>1. \/ UNCHANGED <<asked, underway>>
        \/ ExchangeAgain(Tail(rx))
    BY <1>2 DEF ExchangeAnswer
  <2> QED
    BY <1>1, <2>1 DEF asked, underway
<1>3. CASE ExchangeTimeout
  BY <1>1, <1>3 DEF ExchangeTimeout
<1> QED
  BY <1>2, <1>3

(* With no transfer under way the calls of other methods are not its own. *)
LEMMA NoTransfer ==
  ASSUME op' = "none", call' # "fifo_read", TypeOK', LinkInv',
         step' \in Steps, issued' \in BOOLEAN, tries' \in 0..Attempts, chunk' \in 0..Chunks,
         outcome' \in {"returned", "raised"}
  PROVE  IInvT'
<1>1. TypeOKT'
  BY DEF TypeOKT
<1>2. ReadInv' /\ ReadExact'
  BY DEF ReadInv, ReadExact, Reading
<1>3. FifoInv' /\ StartInv' /\ WriteInv' /\ RepeatsInv' /\ ResetInv' /\ WriteCovers'
  BY DEF FifoInv, StartInv, WriteInv, RepeatsInv, ResetInv, WriteCovers
<1> QED
  BY <1>1, <1>2, <1>3 DEF IInvT

LEMMA TransferTypes ==
  ASSUME IInvT, UNCHANGED transfer
  PROVE  /\ op' \in {"none", "read", "counters", "write"} /\ step' \in Steps /\ issued' \in BOOLEAN
         /\ tries' \in 0..Attempts /\ chunk' \in 0..Chunks /\ outcome' \in {"returned", "raised"}
         /\ UNCHANGED <<op, step, issued, tries, chunk, outcome>>
  BY DEF IInvT, TypeOKT, transfer

LEMMA ArriveKeeps ==
  ASSUME IInvT, Arrive, UNCHANGED transfer
  PROVE  IInvT'
<1>1. TypeOK /\ LinkInv /\ TypeOK' /\ LinkInv'
  BY ArriveLink DEF IInvT, TypeOKT
<1>2. UNCHANGED <<packet_id_mode, opened, req, attempt, sent, position, late, errors, call, result,
                  ans, data>>
  BY DEF Arrive, host, asked
<1>3. UNCHANGED <<op, step, issued, tries, chunk, outcome>>
  BY TransferTypes
<1>4. CASE op = "none"
  <2>1. call' # "fifo_read" /\ op' = "none"
    BY <1>2, <1>3, <1>4 DEF IInvT, ReadInv, Reading
  <2> QED
    BY <1>1, <2>1, TransferTypes, NoTransfer
<1>5. CASE op # "none"
  <2>1. is_open /\ (~is_open => rx = <<>>)
    BY <1>5 DEF IInvT, LinkInv, CallInv
  <2>2. Pipe' = Pipe
    BY <1>1, <2>1, PipeArrive, PipeStays
  <2>3. TypeOKT' /\ (op' # "none" => opened' /\ call' # "detect")
    BY <1>1, <1>2, <1>3 DEF IInvT, TypeOKT
  <2>4. Prompt' = Prompt /\ Trusted' = Trusted
    BY <1>2 DEF Prompt, Trusted
  <2>5. FifoInv'
    BY <1>2, <2>2, <2>4 DEF IInvT, FifoInv, Lined, Short, Exact, Asked
  <2>6. StartInv' /\ ResetInv'
    BY <1>2, <1>3, <2>2, <2>4 DEF IInvT, StartInv, ResetInv, ServedInv
  <2>7. ReadInv' /\ WriteInv' /\ RepeatsInv'
    BY <1>2, <1>3, <2>2, <2>4 DEF IInvT, ReadInv, WriteInv, RepeatsInv, ServedInv, Reading, Received
  <2>8. ReadExact' /\ WriteCovers'
    BY <1>2, <1>3, <2>4 DEF IInvT, ReadExact, WriteCovers, Trusted
  <2> QED
    BY <1>1, <2>3, <2>5, <2>6, <2>7, <2>8 DEF IInvT
<1> QED
  BY <1>4, <1>5

(* open, close, and the calls of other methods *)
LEMMA ConnectionKeeps ==
  ASSUME IInvT, op = "none", Connection, UNCHANGED transfer
  PROVE  IInvT'
<1>1. TypeOK /\ LinkInv
  BY DEF IInvT, TypeOKT
<1>2. TypeOK' /\ LinkInv'
  BY <1>1, OpenLink, OpenAgainLink, CloseLink DEF Connection
<1>3. call' # "fifo_read"
  BY DEF Connection, Open, OpenAgain, Close
<1>4. op' = "none"
  BY TransferTypes
<1> QED
  BY <1>2, <1>3, <1>4, TransferTypes, NoTransfer

(* A call of a method of the link: no answer of its own tells of a request *)
(* that was not served.                                                     *)
LEMMA ExchangeLink ==
  ASSUME TypeOK, LinkInv, calls' \in 0..MaxCalls,
         NEW cmd \in Exchanges, NEW arg \in {"none", "start", "reset"}, Exchange(cmd, arg)
  PROVE  /\ TypeOK' /\ LinkInv' /\ call = "none" /\ call' = cmd
         /\ req'.cmd = cmd /\ req'.arg = arg
         /\ UNCHANGED <<opened, packet_id_mode, data, result>> /\ (Trusted' => Trusted)
         /\ position' \in {position, Position(req')}
         /\ \A i \in DOMAIN Pipe' :
              Pipe'[i].sent = sent' /\ Pipe'[i].ok => position' = Position(req')
<1>1. /\ call = "none" /\ opened /\ Request(cmd, arg) /\ data' = data
      /\ cmd \in Commands /\ cmd # "fifo_read"
  BY DEF Exchange, Exchanges
<1>2. data' \in Seq(Nat)
  BY <1>1 DEF TypeOK
<1>3. /\ TypeOK' /\ LinkInv' /\ req'.cmd = cmd /\ req'.arg = arg /\ sent' = sent + 1
      /\ \E X \in Seq(AnswerRecord) : Answering(X, req') /\ Turn(0, X)
  BY <1>1, <1>2, RequestLink
<1>4. PICK X \in Seq(AnswerRecord) : Answering(X, req') /\ Turn(0, X)
  BY <1>3
<1>5. \A i \in DOMAIN Pipe' :
        Pipe'[i].ok => \/ position' = Position(req')
                       \/ \E j \in DOMAIN Pipe : Pipe'[i] = Pipe[j]
  BY <1>1, <1>3, <1>4, NewlyServed
<1>6. \A j \in DOMAIN Pipe : Pipe[j].sent # sent'
  BY <1>3, SentTypes, CountTypes DEF LinkInv
<1>7. call' = cmd /\ UNCHANGED <<opened, packet_id_mode, result, late>>
  BY <1>1 DEF Request, host
<1>8. Trusted' => Trusted
  BY <1>4, <1>7 DEF Trusted, Prompt, Answering
<1>9. position' \in {position, Position(req')}
  BY <1>4 DEF Answering
<1> QED
  BY <1>1, <1>3, <1>5, <1>6, <1>7, <1>8, <1>9

LEMMA RegisterKeeps ==
  ASSUME IInvT, op = "none", Register, UNCHANGED transfer
  PROVE  IInvT'
<1>1. TypeOK /\ LinkInv
  BY DEF IInvT, TypeOKT
<1>2. calls' \in 0..MaxCalls
  BY <1>1, UdpLinkAssumption DEF Register, TypeOK
<1>3. \E cmd \in Exchanges, arg \in {"none", "start", "reset"} : Exchange(cmd, arg)
  BY DEF Register, Exchanges, Commands
<1>4. TypeOK' /\ LinkInv' /\ call' # "fifo_read"
  BY <1>1, <1>2, <1>3, ExchangeLink DEF Exchanges
<1>5. op' = "none"
  BY TransferTypes
<1> QED
  BY <1>4, <1>5, TransferTypes, NoTransfer

LEMMA BeginKeeps ==
  ASSUME IInvT, NEW o \in {"read", "counters", "write"}, Begin(o)
  PROVE  IInvT'
<1>1. /\ TypeOK /\ LinkInv /\ op = "none" /\ call = "none" /\ opened
      /\ calls < MaxCalls /\ calls' = calls + 1
      /\ op' = o /\ step' = "start" /\ issued' = FALSE /\ tries' = 1 /\ chunk' = 0
      /\ UNCHANGED <<outcome, firmware, is_open, packet_id_mode, opened, pids, req, attempt, sent,
                     position, wire, lost, errors, call, result, ans, data, rx, late>>
  BY DEF IInvT, TypeOKT, Begin, host, asked, underway
<1>2. TypeOK'
  <2>1. calls' \in 0..MaxCalls
    BY <1>1, UdpLinkAssumption DEF TypeOK
  <2> QED
    BY <1>1, <2>1 DEF TypeOK
<1>3. LinkInv'
  <2>1. Pipe' = Pipe /\ Oldest' = Oldest /\ (Prompt' <=> Prompt)
    BY <1>1 DEF Pipe, Oldest, Prompt, Exchanges
  <2>2. CallInv' /\ OrderInv'
    BY <1>1, <2>1 DEF LinkInv, CallInv, OrderInv
  <2>3. NumberInv' /\ BacklogInv'
    BY <1>1, <2>1 DEF LinkInv, NumberInv, Numbered, BacklogInv
  <2>4. QuietInv' /\ AnswersRight'
    BY <1>1, <2>1 DEF LinkInv, QuietInv, AnswersRight
  <2> QED
    BY <2>2, <2>3, <2>4 DEF LinkInv
<1>4. TypeOKT' /\ (op' # "none" => opened' /\ call' # "detect")
  <2>1. 1 \in 0..Attempts /\ 0 \in 0..Chunks
    BY MemoryTransferAssumption
  <2> QED
    BY <1>1, <1>2, <2>1 DEF IInvT, TypeOKT, Steps
<1>5. FifoInv' /\ ReadInv' /\ ReadExact'
  BY <1>1 DEF FifoInv, ReadInv, ReadExact
<1>6. StartInv' /\ WriteInv' /\ RepeatsInv' /\ ResetInv' /\ WriteCovers'
  BY <1>1 DEF StartInv, WriteInv, RepeatsInv, ResetInv, WriteCovers
<1> QED
  BY <1>2, <1>3, <1>4, <1>5, <1>6 DEF IInvT

-----------------------------------------------------------------------------
(* Within a call of a transfer *)

(* The call belongs to a step of the transfer. *)
LEMMA CallOfStep ==
  ASSUME IInvT, op # "none", call # "none"
  PROVE  /\ TypeOK /\ LinkInv /\ opened /\ call # "detect" /\ issued /\ call \in Commands
         /\ req \in RequestRecord /\ req.cmd = call /\ position \in Nat
<1>1. TypeOK /\ LinkInv /\ opened /\ call # "detect" /\ issued
  BY DEF IInvT, TypeOKT
<1>2. call \in Commands /\ req \in RequestRecord /\ position \in Nat
  BY <1>1 DEF TypeOK
<1> QED
  BY <1>1, <1>2 DEF LinkInv, CallInv

LEMMA OutcomeKeeps ==
  ASSUME IInvT, op # "none", UNCHANGED transfer, call \in Exchanges,
         TypeOK', LinkInv', Outcome, ExchangeAnswer \/ ExchangeTimeout
  PROVE  IInvT'
<1>1. /\ TypeOK /\ LinkInv /\ opened /\ call # "detect" /\ issued /\ call \in Commands
      /\ req \in RequestRecord /\ req.cmd = call /\ position \in Nat /\ call \notin {"none", "fifo_read"}
  BY CallOfStep DEF Exchanges, Commands
<1>2. UNCHANGED <<op, step, issued, tries, chunk, outcome>>
  BY TransferTypes
<1>3. /\ UNCHANGED <<req, sent, packet_id_mode, opened, calls, data>> /\ (Trusted' => Trusted)
      /\ position' \in {position, Position(req)} /\ call' \in {call, "none"}
      /\ \A i \in DOMAIN Pipe' :
           Pipe'[i].ok => \/ position' = Position(req)
                          \/ \E j \in DOMAIN Pipe : Pipe'[i] = Pipe[j]
      /\ call' = "none" /\ result' = "returned" /\ Trusted =>
           /\ ans' = sent /\ position' = position
           /\ \E j \in DOMAIN Pipe : Pipe[j].sent = sent /\ Pipe[j].ok
  BY <1>1 DEF Outcome
<1>4. TypeOKT' /\ (op' # "none" => opened' /\ call' # "detect")
  BY <1>1, <1>2, <1>3 DEF IInvT, TypeOKT
<1>5. FifoInv'
  BY <1>1, <1>3 DEF FifoInv
<1>6. StartInv'
  <2> SUFFICES ASSUME step = "start" PROVE ServedInv("reg_write", "start", position = 0)'
    BY <1>2 DEF IInvT, StartInv
  <2>1. ServedInv("reg_write", "start", position = 0)
    BY <1>1 DEF IInvT, StartInv
  <2>2. Position(req) = 0
    BY <1>1, <2>1, PositionOf DEF ServedInv
  <2>3. Trusted' /\ (\E i \in DOMAIN Pipe' : Pipe'[i].sent = sent /\ Pipe'[i].ok) => position' = 0
    BY <1>3, <2>1, <2>2 DEF ServedInv
  <2>4. Trusted' /\ call' = "none" /\ result' = "returned" => ans' = sent /\ position' = 0
    BY <1>3, <2>1 DEF ServedInv
  <2> QED
    BY <1>3, <2>1, <2>3, <2>4 DEF ServedInv
<1>7. WriteInv'
  <2> SUFFICES ASSUME op = "write", step = "move"
               PROVE  /\ Trusted' => position' >= chunk
                      /\ ServedInv("fifo_write", "none", position > chunk)'
    BY <1>2 DEF IInvT, WriteInv
  <2>1. /\ ServedInv("fifo_write", "none", position > chunk) /\ (Trusted => position >= chunk)
        /\ chunk \in Nat
    BY <1>1 DEF IInvT, WriteInv, TypeOKT
  <2>2. Position(req) = position + 1
    BY <1>1, <2>1, PositionOf DEF ServedInv
  <2>3. position' >= position /\ position' \in Nat
    BY <1>1, <1>3, <2>2
  <2>4. Trusted' /\ (\E i \in DOMAIN Pipe' : Pipe'[i].sent = sent /\ Pipe'[i].ok) => position' > chunk
    <3> SUFFICES ASSUME Trusted', NEW i \in DOMAIN Pipe', Pipe'[i].sent = sent, Pipe'[i].ok
                 PROVE  position' > chunk
      OBVIOUS
    <3>1. CASE position' = Position(req)
      BY <1>1, <1>3, <2>1, <2>2, <3>1
    <3>2. CASE \E j \in DOMAIN Pipe : Pipe'[i] = Pipe[j]
      <4>1. position > chunk
        BY <1>3, <2>1, <3>2 DEF ServedInv
      <4> QED
        BY <1>1, <2>1, <2>3, <4>1
    <3> QED
      BY <1>3, <3>1, <3>2
  <2>5. Trusted' /\ call' = "none" /\ result' = "returned" => ans' = sent /\ position' > chunk
    BY <1>3, <2>1 DEF ServedInv
  <2>6. Trusted' => position' >= chunk
    BY <1>1, <1>3, <2>1, <2>3
  <2> QED
    BY <1>2, <1>3, <2>1, <2>4, <2>5, <2>6 DEF ServedInv
<1>7a. RepeatsInv'
  <2> SUFFICES ASSUME op = "write", step = "move"
               PROVE  /\ attempt' \in 1..Retries
                      /\ Trusted' => position' <= chunk * Retries + attempt'
    BY <1>1, <1>2 DEF RepeatsInv
  <2>1. /\ attempt \in 1..Retries /\ chunk \in Nat /\ Retries \in Nat
        /\ Trusted => position <= chunk * Retries + attempt
    BY <1>1, UdpLinkAssumption DEF IInvT, RepeatsInv, TypeOKT
  <2>2. Position(req) = position + 1
    BY <1>1, PositionOf DEF IInvT, WriteInv, ServedInv
  <2>3. \/ UNCHANGED <<attempt, position>>
        \/ attempt < Retries /\ attempt' = attempt + 1 /\ position' \in {position, position + 1}
    BY <1>1, <2>2, AttemptMoves
  <2>4. chunk * Retries \in Nat
    BY <2>1
  <2> QED
    BY <1>1, <1>3, <2>1, <2>3, <2>4
<1>8. ResetInv' /\ (op = "write" /\ step = "reset" => position' = position)
  <2>1. step \in {"reset", "abort", "finally"} => Position(req) = position
    BY <1>1, PositionOf DEF IInvT, ResetInv
  <2> QED
    BY <1>1, <1>2, <1>3, <2>1 DEF IInvT, ResetInv
<1>9. ReadInv'
  <2>1. ~(Reading /\ step = "move")
    BY <1>1 DEF IInvT, ReadInv
  <2> QED
    BY <1>1, <1>2, <1>3, <2>1 DEF ReadInv, Reading
<1>10. ReadExact'
  BY <1>2, <1>3 DEF IInvT, ReadExact, Trusted
<1>11. WriteCovers'
  BY <1>2, <1>3, <1>8 DEF IInvT, WriteCovers, Trusted
<1> QED
  BY <1>4, <1>5, <1>6, <1>7, <1>8, <1>9, <1>10, <1>11, <1>7a DEF IInvT

(* fifo_read goes on, returns its words or raises. *)
LEMMA FifoKeeps ==
  ASSUME IInvT, op # "none", UNCHANGED transfer, call = "fifo_read",
         TypeOK', LinkInv', FifoInv', call' \in {"none", "fifo_read"},
         UNCHANGED <<calls, opened, packet_id_mode>>,
         Trusted' /\ call' = "none" /\ result' = "returned" => Received'
  PROVE  IInvT'
<1>1. UNCHANGED <<op, step, issued, tries, chunk, outcome>>
  BY TransferTypes
<1>2. Reading /\ step = "move" /\ issued /\ opened
  BY CallOfStep DEF IInvT, ReadInv
<1>3. TypeOKT' /\ (op' # "none" => opened' /\ call' # "detect")
  BY <1>1, <1>2 DEF IInvT, TypeOKT
<1>4. ReadInv' /\ ReadExact'
  BY <1>1, <1>2 DEF ReadInv, ReadExact, Reading
<1>5. StartInv' /\ WriteInv' /\ RepeatsInv' /\ ResetInv' /\ WriteCovers'
  BY <1>1, <1>2 DEF StartInv, WriteInv, RepeatsInv, ResetInv, WriteCovers, Reading
<1> QED
  BY <1>3, <1>4, <1>5 DEF IInvT

LEMMA DriverKeeps ==
  ASSUME IInvT, Driver
  PROVE  IInvT'
<1>1. TypeOK /\ LinkInv /\ FifoInv /\ InCall /\ UNCHANGED transfer
  BY DEF IInvT, TypeOKT, Driver
<1>2. call # "none"
  BY <1>1 DEF InCall, DetectAnswer, DetectTimeout, ExchangeAnswer, ExchangeTimeout, NextFifoRequest,
              FifoPacket, FifoTimeout, Exchanges, Commands
<1>3. CASE DetectAnswer \/ DetectTimeout
  <2>1. TypeOK' /\ LinkInv'
    BY <1>1, <1>3, DetectAnswerLink, DetectTimeoutLink
  <2>2. call = "detect" /\ call' # "fifo_read"
    BY <1>3 DEF DetectAnswer, DetectTimeout, Detected, DetectAgain, End
  <2>3. op = "none"
    BY <2>2 DEF IInvT
  <2>4. op' = "none"
    BY <1>1, <2>3, TransferTypes
  <2> QED
    BY <1>1, <2>1, <2>2, <2>4, TransferTypes, NoTransfer
<1>4. CASE ExchangeAnswer \/ ExchangeTimeout
  <2>1. TypeOK' /\ LinkInv' /\ Outcome /\ call \in Exchanges
    BY <1>1, <1>4, ExchangeOutcome
  <2>2. CASE op # "none"
    BY <1>1, <1>4, <2>1, <2>2, OutcomeKeeps
  <2>3. CASE op = "none"
    <3>1. call' # "fifo_read"
      BY <2>1 DEF Outcome, Exchanges
    <3>2. op' = "none"
      BY <1>1, <2>3, TransferTypes
    <3> QED
      BY <1>1, <2>1, <3>1, <3>2, TransferTypes, NoTransfer
  <2> QED
    BY <2>2, <2>3
<1>5. CASE NextFifoRequest \/ FifoPacket \/ FifoTimeout
  <2>1. /\ TypeOK' /\ LinkInv' /\ FifoInv' /\ call = "fifo_read" /\ call' \in {"none", "fifo_read"}
        /\ UNCHANGED <<calls, opened, packet_id_mode>>
        /\ Trusted' /\ call' = "none" /\ result' = "returned" => Received'
    BY <1>1, <1>5, NextFifoRequestLink, FifoPacketLink, FifoTimeoutLink
  <2>2. op # "none"
    BY <2>1 DEF IInvT, ReadInv, Reading
  <2> QED
    BY <1>1, <2>1, <2>2, FifoKeeps
<1> QED
  BY <1>1, <1>3, <1>4, <1>5 DEF InCall

-----------------------------------------------------------------------------
(* From one call of a transfer to the next *)

(* The next call of the transfer: a write, to a register or to the FIFO. *)
LEMMA IssueExchange ==
  ASSUME IInvT, op # "none", ~issued, issued' = TRUE,
         UNCHANGED <<op, step, tries, chunk, outcome, calls>>,
         NEW cmd \in {"reg_write", "fifo_write"}, NEW arg \in {"none", "start", "reset"},
         Exchange(cmd, arg),
         \/ step = "start" /\ cmd = "reg_write" /\ arg = "start"
         \/ step = "move" /\ op = "write" /\ cmd = "fifo_write" /\ arg = "none"
         \/ step \in {"reset", "abort", "finally"} /\ cmd = "reg_write" /\ arg = "reset"
  PROVE  IInvT'
<1>1. TypeOK /\ LinkInv /\ opened /\ position \in Nat /\ chunk \in Nat /\ calls' \in 0..MaxCalls
  BY DEF IInvT, TypeOKT, TypeOK
<1>2. /\ TypeOK' /\ LinkInv' /\ call = "none" /\ call' = cmd
      /\ req'.cmd = cmd /\ req'.arg = arg
      /\ UNCHANGED <<opened, packet_id_mode, data, result>> /\ (Trusted' => Trusted)
      /\ position' \in {position, Position(req')}
      /\ \A i \in DOMAIN Pipe' : Pipe'[i].sent = sent' /\ Pipe'[i].ok => position' = Position(req')
  <2>1. cmd \in Exchanges
    BY DEF Exchanges, Commands
  <2> QED
    BY <1>1, <2>1, ExchangeLink
<1>3. /\ cmd = "fifo_write" /\ arg = "none" => Position(req') = position + 1
      /\ cmd = "reg_write" /\ arg = "start" => Position(req') = 0
      /\ cmd = "reg_write" /\ arg = "reset" => Position(req') = position
  <2>1. req' \in RequestRecord
    BY <1>2 DEF TypeOK
  <2> QED
    BY <1>1, <1>2, <2>1, PositionOf
<1>4. TypeOKT' /\ (op' # "none" => opened' /\ call' # "detect")
  BY <1>1, <1>2 DEF IInvT, TypeOKT
<1>5. FifoInv'
  BY <1>2 DEF FifoInv
<1>6. StartInv'
  BY <1>2, <1>3 DEF IInvT, StartInv, ServedInv
<1>7. WriteInv'
  <2> SUFFICES ASSUME op = "write", step = "move"
               PROVE  /\ chunk < Chunks /\ (Trusted' => position' >= chunk)
                      /\ ServedInv("fifo_write", "none", position > chunk)'
    BY DEF WriteInv
  <2>1. cmd = "fifo_write" /\ arg = "none" /\ Position(req') = position + 1
    BY <1>3
  <2>2. chunk < Chunks /\ (Trusted => position >= chunk)
    BY DEF IInvT, WriteInv
  <2>3. Trusted' => position' >= chunk
    BY <1>1, <1>2, <2>1, <2>2
  <2>4. Trusted' => position + 1 > chunk
    BY <1>1, <1>2, <2>2
  <2> QED
    BY <1>2, <2>1, <2>2, <2>3, <2>4 DEF ServedInv
<1>7a. RepeatsInv'
  <2> SUFFICES ASSUME op = "write", step = "move"
               PROVE  /\ attempt' \in 1..Retries
                      /\ Trusted' => position' <= chunk * Retries + attempt'
    BY DEF RepeatsInv
  <2>1. Trusted => position <= chunk * Retries
    <3>1. Trusted => position <= chunk * Retries + 0
      BY DEF IInvT, RepeatsInv
    <3>2. chunk * Retries \in Nat
      BY <1>1, UdpLinkAssumption
    <3> QED
      BY <3>1, <3>2
  <2>2. attempt' = 1 /\ 1 \in 1..Retries /\ chunk * Retries \in Nat
    BY <1>1, UdpLinkAssumption, MemoryTransferAssumption DEF Exchange, Request
  <2>3. position' \in {position, position + 1}
    BY <1>2, <1>3
  <2> QED
    BY <1>1, <1>2, <2>1, <2>2, <2>3
<1>8. ReadInv'
  <2>1. ~(Reading /\ step = "move")
    BY DEF Reading
  <2> QED
    BY <1>2, <2>1 DEF ReadInv, Reading
<1>9. ResetInv' /\ (step = "reset" => position' = position)
  BY <1>2, <1>3 DEF IInvT, ResetInv
<1>10. ReadExact'
  BY <1>2 DEF IInvT, ReadExact, Trusted
<1>11. WriteCovers'
  BY <1>2, <1>9 DEF IInvT, WriteCovers, Trusted
<1> QED
  BY <1>2, <1>4, <1>5, <1>6, <1>7, <1>8, <1>9, <1>10, <1>11, <1>7a DEF IInvT

(* The next call is a fifo_read: the answers left are those of the call before. *)
LEMMA IssueRead ==
  ASSUME IInvT, Reading, step = "move", ~issued, issued' = TRUE,
         UNCHANGED <<op, step, tries, chunk, outcome, calls>>, FifoRead
  PROVE  IInvT'
<1>1. TypeOK /\ LinkInv /\ opened /\ op \in {"read", "counters"} /\ calls' \in 0..MaxCalls
  BY DEF IInvT, TypeOKT, TypeOK, Reading
<1>2. call = "none" /\ Request("fifo_read", "none") /\ data' = <<>> /\ data' \in Seq(Nat)
  BY DEF FifoRead
<1>3. Trusted => position = 0 /\ \A i \in DOMAIN Pipe : Pipe[i].sent = sent
  <2>1. Trusted => ans = sent /\ position = 0
    BY DEF IInvT, ReadInv
  <2> QED
    BY <1>1, <2>1, SentTypes, CountTypes DEF LinkInv
<1>4. /\ TypeOK' /\ LinkInv' /\ req'.cmd = "fifo_read" /\ req'.arg = "none" /\ sent' = sent + 1
      /\ \E X \in Seq(AnswerRecord) : Answering(X, req') /\ Turn(0, X)
  <2>1. packet_id_mode => \A i \in DOMAIN Pipe : Pipe[i].sent = sent
    BY <1>3 DEF Trusted
  <2>2. "fifo_read" \in Commands
    BY DEF Commands
  <2> QED
    BY <1>1, <1>2, <2>1, <2>2, RequestLink
<1>5. PICK X \in Seq(AnswerRecord) : Answering(X, req') /\ Turn(0, X)
  BY <1>4
<1>6. call' = "fifo_read" /\ attempt' = 1 /\ UNCHANGED <<opened, packet_id_mode, late>>
  BY <1>2 DEF Request, host
<1>7. Trusted' => Trusted
  BY <1>5, <1>6 DEF Trusted, Prompt, Answering
<1>8. FifoInv'
  <2>1. CallInv'
    BY <1>4 DEF LinkInv
  <2> QED
    BY <1>1, <1>2, <1>3, <1>4, <1>5, <1>6, <1>7, <2>1, FifoReadFifo
<1>9. TypeOKT' /\ (op' # "none" => opened' /\ call' # "detect")
  BY <1>1, <1>4, <1>6 DEF IInvT, TypeOKT
<1>10. ReadInv' /\ ReadExact'
  BY <1>6 DEF ReadInv, ReadExact, Reading
<1>11. StartInv' /\ WriteInv' /\ RepeatsInv' /\ ResetInv' /\ WriteCovers'
  BY <1>1 DEF StartInv, WriteInv, RepeatsInv, ResetInv, WriteCovers
<1> QED
  BY <1>4, <1>8, <1>9, <1>10, <1>11 DEF IInvT

LEMMA IssueKeeps ==
  ASSUME IInvT, Issue
  PROVE  IInvT'
<1>1. /\ op # "none" /\ ~issued /\ issued' = TRUE
      /\ UNCHANGED <<op, step, tries, chunk, outcome, calls>>
  BY DEF Issue
<1>2. CASE StartTransfer
  BY <1>1, <1>2, IssueExchange DEF StartTransfer
<1>3. CASE Move
  <2>1. CASE op = "write"
    BY <1>1, <1>3, <2>1, IssueExchange DEF Move
  <2>2. CASE op # "write"
    <3>1. Reading /\ step = "move" /\ FifoRead
      BY <1>1, <1>3, <2>2 DEF Move, Reading, IInvT, TypeOKT
    <3> QED
      BY <1>1, <3>1, IssueRead
  <2> QED
    BY <2>1, <2>2
<1>4. CASE ResetTransfer
  BY <1>1, <1>4, IssueExchange DEF ResetTransfer
<1> QED
  BY <1>2, <1>3, <1>4 DEF Issue

(* The link does nothing. *)
LEMMA LinkRests ==
  ASSUME TypeOK, LinkInv, UNCHANGED vars
  PROVE  /\ TypeOK' /\ LinkInv' /\ (Trusted' <=> Trusted) /\ (Received' <=> Received)
         /\ UNCHANGED <<call, result, opened, req, ans, sent, position, data, packet_id_mode>>
<1>1. UNCHANGED <<firmware, is_open, packet_id_mode, opened, pids, req, attempt, sent, position,
                  wire, lost, errors, call, result, ans, data, rx, calls, late>>
  BY DEF vars, host, asked, underway
<1>2. TypeOK'
  BY <1>1 DEF TypeOK
<1>3. Pipe' = Pipe /\ Oldest' = Oldest /\ (Prompt' <=> Prompt)
  BY <1>1 DEF Pipe, Oldest, Prompt, Exchanges
<1>4. CallInv' /\ OrderInv'
  BY <1>1, <1>3 DEF LinkInv, CallInv, OrderInv
<1>5. NumberInv' /\ BacklogInv'
  BY <1>1, <1>3 DEF LinkInv, NumberInv, Numbered, BacklogInv
<1>6. QuietInv' /\ AnswersRight'
  BY <1>1, <1>3 DEF LinkInv, QuietInv, AnswersRight
<1> QED
  BY <1>1, <1>2, <1>3, <1>4, <1>5, <1>6 DEF LinkInv, Trusted, Received

(* A transfer goes to its next step. *)
LEMMA GotoKeeps ==
  ASSUME IInvT, op # "none", issued, call = "none", UNCHANGED vars, NEW s \in Steps, Goto(s),
         tries' \in 0..Attempts, chunk' \in 0..Chunks,
         s = "start" => op = "read", s = "abort" => op = "read",
         s = "move" /\ Reading /\ Trusted => ans = sent /\ position = 0,
         s = "move" /\ op = "write" =>
           chunk' < Chunks /\ (Trusted => position >= chunk' /\ position <= chunk' * Retries + 0),
         s = "reset" /\ Reading /\ Trusted => Received,
         s = "reset" /\ op = "write" /\ Trusted => position \in Chunks..(Chunks * Retries)
  PROVE  IInvT'
<1>1. TypeOK /\ LinkInv /\ opened
  BY DEF IInvT, TypeOKT
<1>2. /\ TypeOK' /\ LinkInv' /\ (Trusted' <=> Trusted) /\ (Received' <=> Received)
      /\ UNCHANGED <<call, result, opened, req, ans, sent, position, data, packet_id_mode>>
  BY <1>1, LinkRests
<1>3. step' = s /\ issued' = FALSE /\ UNCHANGED <<op, outcome>>
  BY DEF Goto
<1>4. TypeOKT' /\ (op' # "none" => opened' /\ call' # "detect")
  BY <1>1, <1>2, <1>3 DEF IInvT, TypeOKT
<1>5. FifoInv' /\ StartInv' /\ ResetInv'
  BY <1>2, <1>3 DEF FifoInv, StartInv, ResetInv
<1>6. ReadInv' /\ WriteInv' /\ RepeatsInv'
  BY <1>2, <1>3 DEF ReadInv, WriteInv, RepeatsInv, Reading
<1>7. ReadExact'
  BY <1>2, <1>3 DEF ReadExact, Received, Reading, Trusted
<1>8. WriteCovers'
  BY <1>2, <1>3 DEF WriteCovers, Trusted
<1> QED
  BY <1>2, <1>4, <1>5, <1>6, <1>7, <1>8 DEF IInvT

LEMMA LeaveKeeps ==
  ASSUME IInvT, call = "none", UNCHANGED <<vars, tries, chunk>>,
         NEW how \in {"returned", "raised"}, Leave(how)
  PROVE  IInvT'
<1>1. TypeOK /\ LinkInv
  BY DEF IInvT, TypeOKT
<1>2. TypeOK' /\ LinkInv' /\ call' = call
  BY <1>1, LinkRests
<1>3. op' = "none" /\ outcome' = how /\ issued' = FALSE /\ UNCHANGED <<step, tries, chunk>>
  BY DEF Leave
<1>4. step' \in Steps /\ tries' \in 0..Attempts /\ chunk' \in 0..Chunks
  BY <1>3 DEF IInvT, TypeOKT
<1> QED
  BY <1>2, <1>3, <1>4, NoTransfer

LEMMA ContinueKeeps ==
  ASSUME IInvT, Continue
  PROVE  IInvT'
<1>1. op # "none" /\ issued /\ call = "none" /\ UNCHANGED vars
  BY DEF Continue
<1>2. /\ tries \in 0..Attempts /\ chunk \in 0..Chunks /\ Attempts \in Nat /\ Chunks \in Nat /\ Chunks > 0
      /\ op \in {"read", "counters", "write"} /\ position \in Nat
  BY <1>1, MemoryTransferAssumption DEF IInvT, TypeOKT, TypeOK
<1>3. /\ (Reading <=> op # "write") /\ {"start", "move", "reset", "abort", "finally"} = Steps
  BY <1>2 DEF Reading, Steps
<1>4. CASE step = "abort" /\ Restart /\ UNCHANGED chunk
  <2>1. op = "read"
    BY <1>1, <1>4 DEF IInvT, ResetInv
  <2>2. CASE tries < Attempts
    <3>1. Goto("start") /\ tries' \in 0..Attempts
      BY <1>2, <1>4, <2>2 DEF Restart, FromStart
    <3> QED
      BY <1>1, <1>2, <1>3, <1>4, <2>1, <3>1, GotoKeeps
  <2>3. CASE ~(tries < Attempts)
    BY <1>1, <1>4, <2>3, LeaveKeeps DEF Restart
  <2> QED
    BY <2>2, <2>3
<1>5. CASE step = "start" /\ result = "returned" /\ Goto("move") /\ UNCHANGED <<tries, chunk>>
  <2>1. (op = "write" => chunk = 0) /\ (Trusted => ans = sent /\ position = 0)
    BY <1>1, <1>5 DEF IInvT, StartInv, ServedInv
  <2>2. op = "write" => /\ chunk' < Chunks
                        /\ Trusted => position >= chunk' /\ position <= chunk' * Retries + 0
    <3>1. 0 * Retries + 0 = 0
      BY UdpLinkAssumption
    <3> QED
      BY <1>2, <1>5, <2>1, <3>1
  <2> QED
    BY <1>1, <1>2, <1>3, <1>5, <2>1, <2>2, GotoKeeps
<1>6. CASE /\ step = "move" /\ op = "write" /\ result = "returned" /\ chunk' = chunk + 1
           /\ Goto(IF chunk' < Chunks THEN "move" ELSE "reset") /\ UNCHANGED tries
  <2>1. chunk < Chunks /\ (Trusted => position > chunk)
    BY <1>1, <1>6 DEF IInvT, WriteInv, ServedInv
  <2>2. /\ chunk' \in 0..Chunks
        /\ Trusted => position >= chunk' /\ position <= chunk' * Retries + 0
    <3>1. attempt \in 1..Retries /\ (Trusted => position <= chunk * Retries + attempt)
      BY <1>1, <1>6 DEF IInvT, RepeatsInv
    <3>2. chunk' * Retries = chunk * Retries + Retries /\ chunk * Retries \in Nat /\ Retries \in Nat
      BY <1>2, <1>6, UdpLinkAssumption
    <3> QED
      BY <1>2, <1>6, <2>1, <3>1, <3>2
  <2>3. CASE chunk' < Chunks
    BY <1>1, <1>2, <1>3, <1>6, <2>2, <2>3, GotoKeeps
  <2>4. CASE ~(chunk' < Chunks)
    <3>1. Trusted => position \in Chunks..(Chunks * Retries)
      <4>1. chunk' = Chunks /\ Chunks * Retries \in Nat
        BY <1>2, <2>2, <2>4, UdpLinkAssumption
      <4> QED
        BY <1>2, <2>2, <4>1
    <3> QED
      BY <1>1, <1>2, <1>3, <1>6, <2>2, <2>4, <3>1, GotoKeeps
  <2> QED
    BY <2>3, <2>4
<1>7. CASE /\ step = "move" /\ op # "write" /\ result = "returned" /\ Goto("reset")
           /\ UNCHANGED <<tries, chunk>>
  <2>1. Trusted => Received
    BY <1>1, <1>3, <1>7 DEF IInvT, ReadInv
  <2> QED
    BY <1>1, <1>2, <1>3, <1>7, <2>1, GotoKeeps
<1>8. CASE UNCHANGED <<tries, chunk>> /\ (Leave("returned") \/ Leave("raised"))
  BY <1>1, <1>8, LeaveKeeps
<1>9. CASE op = "read" /\ Goto("abort") /\ UNCHANGED <<tries, chunk>>
  BY <1>1, <1>2, <1>3, <1>9, GotoKeeps
<1>10. CASE op = "write" /\ Goto("finally") /\ UNCHANGED <<tries, chunk>>
  BY <1>1, <1>2, <1>3, <1>10, GotoKeeps
<1> QED
  BY <1>4, <1>5, <1>6, <1>7, <1>8, <1>9, <1>10 DEF Continue, Returned, Raised

-----------------------------------------------------------------------------
(* The initial state, a step that changes nothing, and all the steps *)

LEMMA Initially ==
  ASSUME InitT
  PROVE  IInvT
<1>1. /\ Init /\ op = "none" /\ step = "start" /\ issued = FALSE /\ tries = 0 /\ chunk = 0
      /\ outcome = "returned"
  BY DEF InitT
<1>2. /\ 0 \in Nat /\ Pids \in Nat /\ Pids > 0 /\ 0 \in 0..(Pids - 1) /\ <<>> \in Seq(Nat)
      /\ <<>> \in Seq(AnswerRecord) /\ Firmwares \subseteq BOOLEAN /\ 0 \in 0..MaxCalls
      /\ 0 \in 0..MaxLost /\ 0 \in 0..MaxLate /\ 0 \in 0..MaxErrors /\ 0 \in 0..0
      /\ 0 \in 0..Attempts /\ 0 \in 0..Chunks
  BY UdpLinkAssumption, MemoryTransferAssumption
<1>3. TypeOK
  BY <1>1, <1>2 DEF Init, TypeOK, RequestRecord, Commands
<1>4. Pipe = <<>> /\ wire = <<>> /\ (\A i : i \notin DOMAIN Pipe) /\ (\A i : i \notin DOMAIN wire)
  BY <1>1 DEF Init, Pipe
<1>5. CallInv
  BY <1>1 DEF Init, CallInv, Exchanges, Commands
<1>6. OrderInv /\ NumberInv /\ BacklogInv
  BY <1>4 DEF OrderInv, NumberInv, BacklogInv
<1>7. QuietInv /\ AnswersRight
  <2>1. Len(Pipe) <= 1
    BY <1>4
  <2> QED
    BY <1>1, <1>4, <2>1 DEF Init, QuietInv, AnswersRight
<1>8. TypeOKT
  BY <1>1, <1>2, <1>3 DEF TypeOKT, Steps
<1>9. FifoInv /\ StartInv /\ ReadInv /\ WriteInv /\ RepeatsInv /\ ResetInv /\ ReadExact /\ WriteCovers
  BY <1>1 DEF Init, FifoInv, StartInv, ReadInv, WriteInv, RepeatsInv, ResetInv, ReadExact, WriteCovers,
              Reading
<1> QED
  BY <1>1, <1>5, <1>6, <1>7, <1>8, <1>9 DEF IInvT, LinkInv

LEMMA Resting ==
  ASSUME IInvT, UNCHANGED varsT
  PROVE  IInvT'
<1>1. TypeOK /\ LinkInv /\ UNCHANGED vars /\ UNCHANGED transfer
  BY DEF IInvT, TypeOKT, varsT
<1>2. /\ TypeOK' /\ LinkInv' /\ (Trusted' <=> Trusted) /\ (Received' <=> Received)
      /\ UNCHANGED <<call, result, opened, req, ans, sent, position, data, packet_id_mode>>
  BY <1>1, LinkRests
<1>3. UNCHANGED <<op, step, issued, tries, chunk, outcome>>
  BY <1>1, TransferTypes
<1>4. UNCHANGED <<attempt, rx, wire>> /\ Pipe' = Pipe
  BY <1>1 DEF vars, asked, underway, Pipe
<1>5. TypeOKT' /\ (op' # "none" => opened' /\ call' # "detect")
  BY <1>2, <1>3 DEF IInvT, TypeOKT
<1>6. FifoInv'
  BY <1>2, <1>4 DEF IInvT, FifoInv, Lined, Short, Exact, Asked
<1>7. StartInv' /\ ResetInv'
  BY <1>2, <1>3, <1>4 DEF IInvT, StartInv, ResetInv, ServedInv
<1>8. ReadInv' /\ WriteInv' /\ RepeatsInv'
  BY <1>2, <1>3, <1>4 DEF IInvT, ReadInv, WriteInv, RepeatsInv, ServedInv, Reading
<1>9. ReadExact' /\ WriteCovers'
  BY <1>2, <1>3 DEF IInvT, ReadExact, WriteCovers, Trusted
<1> QED
  BY <1>2, <1>5, <1>6, <1>7, <1>8, <1>9 DEF IInvT

LEMMA Step ==
  ASSUME IInvT, [NextT]_varsT
  PROVE  IInvT'
<1>1. CASE NextT
  BY <1>1, ArriveKeeps, ConnectionKeeps, RegisterKeeps, DriverKeeps, BeginKeeps, IssueKeeps,
     ContinueKeeps DEF NextT, Transfer
<1>2. CASE UNCHANGED varsT
  BY <1>2, Resting
<1> QED
  BY <1>1, <1>2

(* The invariant of the link and of the transfers: identifiers that cannot   *)
(* be taken for an older request's, answers that come in the order of their  *)
(* requests, and what each step of a transfer knows of the position the      *)
(* board's data transfer logic has.                                          *)
THEOREM Invariance == SpecT => []IInvT
<1>1. InitT => IInvT
  BY Initially
<1>2. IInvT /\ [NextT]_varsT => IInvT'
  BY Step
<1> QED
  BY <1>1, <1>2, PTL DEF SpecT

(* The variables of link and transfer have their types. *)
THEOREM TypeCorrect == SpecT => []TypeOKT
<1>1. IInvT => TypeOKT
  BY DEF IInvT
<1> QED
  BY <1>1, Invariance, PTL

(* transport.UdpLink: with packet identifiers an accepted answer answers the *)
(* request in progress, whatever came late; without them, it does as long as *)
(* no answer is late.                                                        *)
THEOREM AcceptedAnswersRight == SpecT => []AnswersRight
<1>1. IInvT => AnswersRight
  BY DEF IInvT, LinkInv
<1> QED
  BY <1>1, Invariance, PTL

(* board.Sis3316.read_memory, statistic_counters: the words that a read      *)
(* returns are those of the memory from its start on, each in its place.     *)
THEOREM ReadsExact == SpecT => []ReadExact
<1>1. IInvT => ReadExact
  BY DEF IInvT
<1> QED
  BY <1>1, Invariance, PTL

(* board.Sis3316.write_memory: a write that returns has written its area,    *)
(* and no chunk of it more often than a request is sent.                     *)
THEOREM WritesCover == SpecT => []WriteCovers
<1>1. IInvT => WriteCovers
  BY DEF IInvT
<1> QED
  BY <1>1, Invariance, PTL
=============================================================================
