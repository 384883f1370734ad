----------------------------- MODULE HitBuffer -----------------------------
(***************************************************************************)
(* The hits that a board keeps for online coincidences: the reader thread  *)
(* fills the buffer (_cycle's test of hits_enabled, _keep_hits), users     *)
(* empty it (enable_hits, take_hits).                                      *)
(*                                                                         *)
(* b.lock guards the users' calls and the append, but neither the test nor *)
(* the computation of the room, so the reader passes through three steps   *)
(* and may act on a buffer that has changed since it looked.  Hits are     *)
(* numbered in readout order.                                              *)
(***************************************************************************)
EXTENDS Integers, FiniteSets

CONSTANTS
  Capacity,   \* HIT_CAPACITY
  MaxBatch,   \* bound: hits of a channel in a bank
  MaxHits     \* bound: hits decoded in a behaviour

ASSUME HitBufferAssumption == Capacity \in Nat /\ MaxBatch \in Nat /\ MaxHits \in Nat

VARIABLES
  enabled,    \* hits_enabled
  hits,       \* the hits in b.hits
  held,       \* hits_held
  dropped,    \* hits_dropped
  pc,         \* where the reader stands: between two channels, or in _keep_hits
  first, size,  \* it has the hits first+1 .. first+size in hand
  \* history
  seen,       \* hits decoded so far
  offered,    \* those that met the test of hits_enabled
  taken,      \* those returned by take_hits
  taken_to,   \* the last of them
  discarded   \* those thrown away by enable_hits(False)

buffer == <<hits, held>>
inhand == <<first, size>>
history == <<seen, offered, taken, taken_to, discarded>>
vars == <<enabled, buffer, dropped, pc, inhand, history>>

InHand == IF pc = "decode" THEN 0 ELSE size

-----------------------------------------------------------------------------
(* The reader *)

(* a channel's hits of non-negative energy; kept when hits are enabled *)
Decode ==
  /\ pc = "decode"
  /\ \E k \in 0..MaxBatch :
       /\ seen + k <= MaxHits
       /\ seen' = seen + k
       /\ IF enabled
            THEN pc' = "room" /\ first' = seen /\ size' = k /\ offered' = offered + k
            ELSE UNCHANGED <<pc, inhand, offered>>
  /\ UNCHANGED <<enabled, buffer, dropped, taken, taken_to, discarded>>

(* mutant: the hits held already are not taken into account *)
WholeBuffer == Capacity

FreeSpace == IF held < Capacity THEN Capacity - held ELSE 0

(* _keep_hits up to the lock: what does not fit is dropped and counted *)
Room ==
  /\ pc = "room"
  /\ IF size > FreeSpace
       THEN dropped' = dropped + (size - FreeSpace) /\ size' = FreeSpace
       ELSE UNCHANGED <<dropped, size>>
  /\ pc' = IF size' = 0 THEN "decode" ELSE "append"
  /\ UNCHANGED <<enabled, buffer, first, history>>

Append ==
  /\ pc = "append"
  /\ hits' = hits \union (first + 1)..(first + size)
  /\ held' = held + size
  /\ pc' = "decode"
  /\ UNCHANGED <<enabled, dropped, inhand, history>>

-----------------------------------------------------------------------------
(* The users, each call with the lock held *)

(* mutant: hits_held survives the hits *)
EmptyHits == hits' = {} /\ UNCHANGED held

(* mutant: the hits survive *)
EmptyCount == held' = 0 /\ UNCHANGED hits

(* b.hits, b.hits_held = [], 0 *)
Empty == hits' = {} /\ held' = 0

Enable ==
  /\ enabled' = TRUE
  /\ UNCHANGED <<buffer, dropped, pc, inhand, history>>

Disable ==
  /\ enabled' = FALSE
  /\ Empty
  /\ discarded' = discarded + Cardinality(hits)
  /\ UNCHANGED <<dropped, pc, inhand, seen, offered, taken, taken_to>>

Take ==
  /\ Empty
  /\ taken' = taken + Cardinality(hits)
  /\ \/ hits = {} /\ UNCHANGED taken_to
     \/ taken_to' \in hits /\ \A h \in hits : h <= taken_to'
  /\ UNCHANGED <<enabled, dropped, pc, inhand, seen, offered, discarded>>

-----------------------------------------------------------------------------
Init ==
  /\ enabled = FALSE /\ hits = {} /\ held = 0 /\ dropped = 0
  /\ pc = "decode" /\ first = 0 /\ size = 0
  /\ seen = 0 /\ offered = 0 /\ taken = 0 /\ taken_to = 0 /\ discarded = 0

Reader == Decode \/ Room \/ Append
User == Enable \/ Disable \/ Take
Next == Reader \/ User

Spec == Init /\ [][Next]_vars

-----------------------------------------------------------------------------
(* What the buffer promises *)

TypeOK ==
  /\ enabled \in BOOLEAN /\ pc \in {"decode", "room", "append"}
  /\ hits \subseteq 1..seen /\ held \in 0..Capacity /\ dropped \in Nat
  /\ first \in Nat /\ size \in Nat
  /\ seen \in Nat /\ offered \in Nat /\ taken \in Nat /\ discarded \in Nat
  /\ taken_to \in 0..seen

(* Every hit offered was taken, is held, was dropped and counted, or was    *)
(* discarded with the buffer, or is on its way in; and hits_held, from      *)
(* which the room is computed without the lock, is exact.                   *)
Accounted ==
  /\ held = Cardinality(hits)
  /\ offered = taken + held + dropped + discarded + InHand

(* "Every hit since the last call": take_hits never returns a hit twice, or *)
(* one read out before a hit it returned already.                           *)
TakenOnce ==
  /\ \A h \in hits : taken_to < h
  /\ pc # "decode" => taken_to <= first /\ \A h \in hits : h <= first

(* A user who stopped keeping hits finds at most the one batch that the     *)
(* reader had in hand: the buffer does not grow again.                      *)
AtMostOneBatch ==
  ~enabled /\ hits # {} => pc = "decode" /\ Cardinality(hits) <= MaxBatch

(* What the reader has in hand still fits when it is appended. *)
Fits ==
  /\ pc # "decode" => size <= seen - first /\ size <= MaxBatch
  /\ pc = "append" => size <= Capacity - held

(* The invariant by which the three above are proved. *)
IInv == TypeOK /\ Accounted /\ TakenOnce /\ AtMostOneBatch /\ Fits
=============================================================================
