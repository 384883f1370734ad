-------------------------- MODULE HitBufferProofs --------------------------
(***************************************************************************)
(* The promises of the hit buffer hold for every capacity, batch size and  *)
(* interleaving of the reader with the users.                              *)
(***************************************************************************)
EXTENDS HitBuffer, FiniteSetTheorems, TLAPS

(* Appending the batch in hand to hits read out before it adds its length. *)
LEMMA AppendCount ==
  ASSUME NEW S \in SUBSET Nat, IsFiniteSet(S),
         NEW a \in Nat, NEW k \in Nat, \A h \in S : h <= a
  PROVE  /\ IsFiniteSet(S \union (a + 1)..(a + k))
         /\ Cardinality(S \union (a + 1)..(a + k)) = Cardinality(S) + k
<1> DEFINE B == (a + 1)..(a + k)
<1>1. IsFiniteSet(B) /\ Cardinality(B) = k
  BY FS_Interval
<1>2. S \intersect B = {}
  OBVIOUS
<1>3. Cardinality(S \intersect B) = 0
  BY <1>2, FS_EmptySet
<1>4. Cardinality(S) \in Nat
  BY FS_CardinalityType
<1>5. IsFiniteSet(S \union B)
      /\ Cardinality(S \union B) = Cardinality(S) + Cardinality(B) - Cardinality(S \intersect B)
  BY <1>1, FS_Union
<1> QED
  BY <1>1, <1>3, <1>4, <1>5

(* A buffer whose hits were all read out is finite. *)
LEMMA HitsFinite ==
  ASSUME TypeOK PROVE IsFiniteSet(hits) /\ Cardinality(hits) \in Nat
<1>1. IsFiniteSet(1..seen)
  BY FS_Interval DEF TypeOK
<1>2. IsFiniteSet(hits)
  BY <1>1, FS_Subset DEF TypeOK
<1> QED
  BY <1>2, FS_CardinalityType

(* The empty buffer satisfies the invariant. *)
LEMMA InitInv == ASSUME Init PROVE IInv
<1>1. Cardinality({}) = 0
  BY FS_EmptySet
<1>2. TypeOK
  <2>1. enabled \in BOOLEAN
    BY Zenon DEF Init
  <2>2. /\ pc = "decode" /\ hits = {} /\ held = 0 /\ dropped = 0 /\ first = 0 /\ size = 0
        /\ seen = 0 /\ offered = 0 /\ taken = 0 /\ taken_to = 0 /\ discarded = 0
    BY Zenon DEF Init
  <2> QED
    BY <2>1, <2>2, HitBufferAssumption DEF TypeOK
<1>3. Accounted
  BY <1>1 DEF Init, Accounted, InHand
<1>4. TakenOnce /\ AtMostOneBatch /\ Fits
  BY DEF Init, TakenOnce, AtMostOneBatch, Fits
<1> QED
  BY <1>2, <1>3, <1>4 DEF IInv

(* Hits newly decoded come after every hit held or taken. *)
LEMMA DecodeStep == ASSUME IInv, Decode PROVE IInv'
<1>1. PICK k \in 0..MaxBatch :
        /\ seen' = seen + k
        /\ IF enabled
             THEN pc' = "room" /\ first' = seen /\ size' = k /\ offered' = offered + k
             ELSE UNCHANGED <<pc, inhand, offered>>
  BY DEF Decode
<1>2. k \in Nat /\ k <= MaxBatch /\ MaxBatch \in Nat
  BY HitBufferAssumption
<1>3. TypeOK'
  BY <1>1, <1>2 DEF IInv, TypeOK, Decode, buffer, inhand
<1>4. Accounted'
  BY <1>1, <1>2 DEF IInv, TypeOK, Accounted, InHand, Decode, buffer, inhand
<1>5. TakenOnce'
  BY <1>1, <1>2 DEF IInv, TypeOK, TakenOnce, Decode, buffer, inhand
<1>6. AtMostOneBatch'
  BY <1>1 DEF IInv, AtMostOneBatch, Decode, buffer, inhand
<1>7. Fits'
  BY <1>1, <1>2 DEF IInv, TypeOK, Fits, Decode, buffer, inhand
<1> QED
  BY <1>3, <1>4, <1>5, <1>6, <1>7 DEF IInv

(* What does not fit leaves the hand and enters the count of dropped hits. *)
LEMMA RoomStep == ASSUME IInv, Room PROVE IInv'
<1>1. Capacity \in Nat
  BY HitBufferAssumption
<1>2. /\ size' \in Nat /\ size' <= size /\ size' <= Capacity - held
      /\ dropped' \in Nat /\ dropped' + size' = dropped + size
  BY <1>1 DEF IInv, TypeOK, Room, FreeSpace
<1>3. pc' = IF size' = 0 THEN "decode" ELSE "append"
  BY DEF Room
<1>4. TypeOK'
  BY <1>2, <1>3 DEF IInv, TypeOK, Room, buffer, history
<1>5. Accounted'
  BY <1>2, <1>3 DEF IInv, TypeOK, Accounted, InHand, Room, buffer, history
<1>6. TakenOnce'
  BY <1>2 DEF IInv, TypeOK, TakenOnce, Room, buffer, history
<1>7. AtMostOneBatch'
  BY DEF IInv, AtMostOneBatch, Room, buffer
<1>8. Fits'
  <2>1. pc = "room" /\ held' = held /\ first' = first /\ seen' = seen
    BY DEF Room, buffer, history
  <2>2. size' <= seen - first /\ size' <= MaxBatch
    BY <1>2, <2>1, HitBufferAssumption DEF IInv, TypeOK, Fits
  <2> QED
    BY <1>2, <1>3, <2>1, <2>2 DEF Fits
<1> QED
  BY <1>4, <1>5, <1>6, <1>7, <1>8 DEF IInv

(* The buffer may only have shrunk since the room was computed. *)
LEMMA AppendStep == ASSUME IInv, Append PROVE IInv'
<1> DEFINE B == (first + 1)..(first + size)
<1>1. MaxBatch \in Nat /\ Capacity \in Nat
  BY HitBufferAssumption
<1>2. IsFiniteSet(hits) /\ Cardinality(hits) \in Nat
  BY HitsFinite DEF IInv
<1>3. Cardinality(hits \union B) = Cardinality(hits) + size
  <2>1. hits \in SUBSET Nat /\ first \in Nat /\ size \in Nat /\ \A h \in hits : h <= first
    BY DEF IInv, TypeOK, TakenOnce, Append
  <2> QED
    BY <1>2, <2>1, AppendCount
<1>4. hits' = hits \union B /\ held' = held + size /\ pc' = "decode"
  BY DEF Append
<1>5. TypeOK'
  BY <1>1, <1>4 DEF IInv, TypeOK, Fits, Append, inhand, history
<1>6. Accounted'
  BY <1>3, <1>4 DEF IInv, TypeOK, Accounted, InHand, Append, inhand, history
<1>7. TakenOnce'
  BY <1>4 DEF IInv, TypeOK, TakenOnce, Append, inhand, history
<1>8. AtMostOneBatch'
  <2>1. SUFFICES ASSUME ~enabled PROVE Cardinality(hits') <= MaxBatch
    BY <1>4 DEF AtMostOneBatch, Append
  <2>2. hits = {}
    BY <2>1 DEF IInv, AtMostOneBatch, Append
  <2>3. Cardinality(hits) = 0
    BY <2>2, FS_EmptySet
  <2> QED
    BY <1>3, <1>4, <2>3 DEF IInv, TypeOK, Fits, Append
<1>9. Fits'
  BY <1>4 DEF Fits
<1> QED
  BY <1>5, <1>6, <1>7, <1>8, <1>9 DEF IInv

(* Keeping hits changes no hit; it only lifts the bound of one batch. *)
LEMMA EnableStep == ASSUME IInv, Enable PROVE IInv'
<1>1. enabled' = TRUE /\ UNCHANGED <<hits, held, dropped, pc, first, size>>
      /\ UNCHANGED <<seen, offered, taken, taken_to, discarded>>
  BY DEF Enable, buffer, inhand, history
<1>2. TypeOK'
  BY <1>1 DEF IInv, TypeOK
<1> QED
  BY <1>1, <1>2 DEF IInv, Accounted, InHand, TakenOnce, AtMostOneBatch, Fits

(* enable_hits(False) and take_hits account for every hit they remove. *)
LEMMA EmptyStep == ASSUME IInv, Disable \/ Take PROVE IInv'
<1>1. hits' = {} /\ held' = 0 /\ UNCHANGED <<dropped, pc, first, size, seen, offered>>
  BY DEF Disable, Take, Empty, inhand
<1>2. Cardinality(hits) \in Nat /\ Cardinality(hits') = 0
  BY <1>1, HitsFinite, FS_EmptySet DEF IInv
<1>3. /\ taken' \in Nat /\ discarded' \in Nat
      /\ taken' + discarded' = taken + discarded + Cardinality(hits)
  BY <1>2 DEF IInv, TypeOK, Disable, Take
<1>4. taken_to' = taken_to \/ taken_to' \in hits
  BY DEF Disable, Take
<1>5. enabled' \in BOOLEAN
  <2>1. CASE Disable
    BY <2>1, Zenon DEF Disable
  <2>2. CASE Take
    <3>1. enabled' = enabled
      BY <2>2 DEF Take
    <3> QED
      BY <3>1, Zenon DEF IInv, TypeOK
  <2> QED
    BY <2>1, <2>2
<1>6. TypeOK'
  <2>1. /\ pc' \in {"decode", "room", "append"} /\ dropped' \in Nat /\ seen' \in Nat
        /\ first' \in Nat /\ size' \in Nat /\ offered' \in Nat
    BY <1>1 DEF IInv, TypeOK
  <2>2. hits' \subseteq 1..seen' /\ held' \in 0..Capacity
    BY <1>1, HitBufferAssumption
  <2>3. taken_to' \in 0..seen
    <3>1. CASE taken_to' = taken_to
      BY <3>1 DEF IInv, TypeOK
    <3>2. CASE taken_to' \in hits
      <4>1. taken_to' \in 1..seen
        BY <3>2 DEF IInv, TypeOK
      <4>2. \A t \in 1..seen : t \in 0..seen
        BY DEF IInv, TypeOK
      <4> QED
        BY <4>1, <4>2
    <3> QED
      BY <1>4, <3>1, <3>2
  <2> QED
    BY <1>1, <1>3, <1>5, <2>1, <2>2, <2>3 DEF TypeOK
<1>7. Accounted'
  BY <1>1, <1>2, <1>3 DEF IInv, TypeOK, Accounted, InHand
<1>8. TakenOnce'
  BY <1>1, <1>4 DEF IInv, TypeOK, TakenOnce
<1>9. AtMostOneBatch' /\ Fits'
  BY <1>1, HitBufferAssumption DEF IInv, TypeOK, AtMostOneBatch, Fits
<1> QED
  BY <1>6, <1>7, <1>8, <1>9 DEF IInv

(* The invariant is inductive. *)
LEMMA StepInv == ASSUME IInv, [Next]_vars PROVE IInv'
<1>1. CASE Reader
  BY <1>1, DecodeStep, RoomStep, AppendStep DEF Reader
<1>2. CASE User
  BY <1>2, EnableStep, EmptyStep DEF User
<1>3. CASE UNCHANGED vars
  <2>1. UNCHANGED <<enabled, hits, held, dropped, pc, first, size>>
        /\ UNCHANGED <<seen, offered, taken, taken_to, discarded>>
    BY <1>3 DEF vars, buffer, inhand, history
  <2> QED
    BY <2>1 DEF IInv, TypeOK, Accounted, InHand, TakenOnce, AtMostOneBatch, Fits
<1> QED
  BY <1>1, <1>2, <1>3 DEF Next

(* The reader's steps, taken on a buffer that users empty, keep IInv. *)
THEOREM Invariance == Spec => []IInv
<1>1. Init => IInv
  BY InitInv
<1>2. IInv /\ [Next]_vars => IInv'
  BY StepInv
<1> QED
  BY <1>1, <1>2, PTL DEF Spec

(* The buffer never holds more than its capacity (hit_buffer), though the   *)
(* reader computes the room without the lock.                               *)
THEOREM TypeCorrect == Spec => []TypeOK
<1>1. IInv => TypeOK
  BY DEF IInv
<1> QED
  BY <1>1, Invariance, PTL

(* Every hit offered to the buffer is taken, held, dropped and counted, or  *)
(* discarded on purpose: none goes missing between a reader that appends    *)
(* and a user that takes all.                                               *)
THEOREM NoneUncounted == Spec => []Accounted
<1>1. IInv => Accounted
  BY DEF IInv
<1> QED
  BY <1>1, Invariance, PTL

(* No two calls of take_hits() return the same hit.                         *)
THEOREM NoneTwice == Spec => []TakenOnce
<1>1. IInv => TakenOnce
  BY DEF IInv
<1> QED
  BY <1>1, Invariance, PTL

(* After enable_hits(False) at most the batch in hand enters the buffer. *)
THEOREM LateBatchOnly == Spec => []AtMostOneBatch
<1>1. IInv => AtMostOneBatch
  BY DEF IInv
<1> QED
  BY <1>1, Invariance, PTL
=============================================================================
