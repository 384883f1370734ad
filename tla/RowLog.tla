------------------------------- MODULE RowLog -------------------------------
(***************************************************************************)
(* What the run files promise about the events of a board: they are a log  *)
(* that only grows, in the order of the readout, no row ever changes its   *)
(* place, and what a crash can take from it is the bank that was being     *)
(* written (writer.py:29-30).                                              *)
(***************************************************************************)
EXTENDS Integers

CONSTANT Owners      \* the boards, each with a log of its own

VARIABLES
  log,      \* rows written: which file and place has which row
  safe,     \* those that a crash leaves
  busy      \* owners with a bank in hand

vars == <<log, safe, busy>>

Before(l, m) == l.file < m.file \/ (l.file = m.file /\ l.at < m.at)

Init ==
  /\ log = [o \in Owners |-> {}]
  /\ safe = log
  /\ busy = {}

Begin(o) == o \notin busy /\ busy' = busy \union {o} /\ UNCHANGED <<log, safe>>

(* the next row gets a place behind all the others *)
Write(o) ==
  /\ o \in busy
  /\ \E line \in log'[o] :
       /\ line.row > 0 /\ {l.row : l \in log[o]} = 1..(line.row - 1)
       /\ \A l \in log[o] : Before(l, line)
       /\ log' = [log EXCEPT ![o] = @ \union {line}]
  /\ UNCHANGED <<safe, busy>>

(* any flush makes the rows of all owners safe, and may end one's bank *)
Sync ==
  /\ safe' = log
  /\ \/ UNCHANGED busy
     \/ \E o \in busy : busy' = busy \ {o}
  /\ UNCHANGED log

Next == Sync \/ \E o \in Owners : Begin(o) \/ Write(o)

Spec == Init /\ [][Next]_vars
=============================================================================
