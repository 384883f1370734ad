---------------------------- MODULE EventStream ----------------------------
(***************************************************************************)
(* What the readout of a channel promises to the spectra and to the run    *)
(* file: the hits handed on are a selection of those recorded, each at     *)
(* most once, in order, and none recorded before the run or its baseline.  *)
(***************************************************************************)
EXTENDS Naturals

VARIABLES
  recorded,  \* hits the board recorded
  written,   \* number of the last hit handed on
  base,      \* the run's hits are those after this one
  count      \* hits handed on in this run

vars == <<recorded, written, base, count>>

Init == recorded = 0 /\ written = 0 /\ base = 0 /\ count = 0

Record == recorded' = recorded + 1 /\ UNCHANGED <<written, base, count>>

(* a run begins; its baseline comes later, but before its first hit *)
Begin == count' = 0 /\ base' = recorded /\ UNCHANGED <<recorded, written>>

Baseline == base' \in base..recorded /\ count = 0 /\ UNCHANGED <<recorded, written, count>>

(* the hits a+1 .. b; those between written and a are lost *)
Deliver(a, b) ==
  /\ written <= a /\ base <= a /\ a < b /\ b <= recorded
  /\ written' = b
  /\ count' = count + (b - a)
  /\ UNCHANGED <<recorded, base>>

Next == \/ Record \/ Begin \/ Baseline
        \/ \E a, b \in 0..recorded : Deliver(a, b)

Spec == Init /\ [][Next]_vars
=============================================================================
