------------------------- MODULE EventDecoderProofs -------------------------
(***************************************************************************)
(* For every bank, of whatever words: what decode_bank returns is typed,   *)
(* and its events are separate pieces of the bank.                         *)
(***************************************************************************)
EXTENDS EventDecoder, FiniteSetTheorems, WellFoundedInduction, TLAPS

-----------------------------------------------------------------------------
(* The header is 2 to 16 words long. *)
LEMMA HeaderWords ==
  ASSUME NEW f \in 0..15
  PROVE  header_words(f) \in 2..16
<1>1. \A k \in {1, 2, 4, 8} : Bit(f, k) \in 0..1
  BY DEF Bit
<1> QED
  BY <1>1 DEF header_words

(* A word inside the bank is a word. *)
LEMMA WordInBank ==
  ASSUME bank \in Bank, NEW n \in Nat, n < Size
  PROVE  At(n) \in Word
<1>1. bank.words \in Seq(Word)
  BY DEF Bank
<1>2. n + 1 \in 1..Len(bank.words)
  BY <1>1 DEF Size
<1> QED
  BY <1>1, <1>2 DEF At

(* A record read at a word that has a marker is a record, longer than 2. *)
LEMMA RecordType ==
  ASSUME bank \in Bank, NEW n \in Nat, n < Size, Marked(n)
  PROVE  /\ RecordAt(n) \in Event
         /\ RecordAt(n).start = n
         /\ RecordAt(n).len > 2
<1> DEFINE fmt == At(n).fmt
           marker == At(n + header_words(fmt))
<1>1. fmt \in 0..15
  BY WordInBank DEF Word
<1>2. header_words(fmt) \in 2..16
  BY <1>1, HeaderWords
<1>3. marker \in Word
  BY <1>2, WordInBank DEF Marked
<1>4. /\ marker.raw \in Nat
      /\ marker.maw \in BOOLEAN
  BY <1>3 DEF Word
<1>5. (IF marker.maw THEN MawWords ELSE 0) \in Nat
  BY <1>4, EventDecoderAssumption
<1> HIDE DEF fmt, marker
<1>6. RecordAt(n) = [start |-> n, fmt |-> fmt,
                     len |-> header_words(fmt) + 1 + marker.raw + (IF marker.maw THEN MawWords ELSE 0),
                     kind |-> [hdr |-> header_words(fmt), raw |-> marker.raw,
                               maw |-> IF marker.maw THEN MawWords ELSE 0]]
  BY DEF RecordAt, fmt, marker
<1> QED
  BY <1>1, <1>2, <1>4, <1>5, <1>6 DEF Event, Kind

(* Multiples of a divisor of n, below n, are at least that far apart. *)
LEMMA Stride ==
  ASSUME NEW n \in Nat, NEW len \in Nat \ {0}, n % len = 0,
         NEW k \in 0..(n \div len - 1)
  PROVE  /\ k * len \in Nat
         /\ k * len + len <= n
         /\ \A j \in 0..(k - 1) : j * len + len <= k * len
<1>1. n \div len \in Nat /\ n = (n \div len) * len
  OBVIOUS
<1>2. ASSUME NEW a \in Nat, NEW b \in Nat, a + 1 <= b
      PROVE  a * len + len <= b * len
  <2>1. (a + 1) * len = a * len + len
    OBVIOUS
  <2>2. PICK d \in Nat : b = (a + 1) + d
    BY <1>2
  <2>3. b * len = (a + 1) * len + d * len /\ d * len \in Nat
    BY <2>2
  <2> QED
    BY <2>1, <2>3
<1> QED
  BY <1>1, <1>2

-----------------------------------------------------------------------------
(* The rows cut from a bank that fits are events, separate and inside it. *)
LEMMA CutApart ==
  ASSUME bank \in Bank, Fits
  PROVE  /\ Cut \subseteq Event
         /\ \A r, s \in Cut : r = s \/ End(r) <= s.start \/ End(s) <= r.start
         /\ \A r \in Cut : End(r) <= Size
<1> DEFINE first == RecordAt(0)
           Row(k) == [first EXCEPT !.start = k * first.len]
           Rows == 0..(Size \div first.len - 1)
<1>1. Size \in Nat /\ Size > 0 /\ Marked(0)
  BY DEF Fits, LongEnough, Size, Bank
<1>2. first \in Event /\ first.len > 2
  BY <1>1, RecordType
<1>3. Size % first.len = 0 /\ first.len \in Nat \ {0}
  BY <1>2 DEF Fits, Event
<1> HIDE DEF first
<1>4. ASSUME NEW k \in Rows
      PROVE  /\ k * first.len \in Nat
             /\ k * first.len + first.len <= Size
             /\ \A j \in 0..(k - 1) : j * first.len + first.len <= k * first.len
  BY <1>1, <1>3, <1>4, Stride
<1>5. ASSUME NEW k \in Rows
      PROVE  Row(k) \in Event /\ Row(k).start = k * first.len /\ Row(k).len = first.len
  BY <1>2, <1>4, <1>5 DEF Event
<1>6. Cut = {Row(k) : k \in Rows}
  BY DEF Cut, first
<1> HIDE DEF Row
<1>7. ASSUME NEW j \in Rows, NEW k \in Rows
      PROVE  j = k \/ End(Row(j)) <= Row(k).start \/ End(Row(k)) <= Row(j).start
  <2>1. Rows \subseteq Int
    BY <1>1, <1>3
  <2>2. CASE j < k
    BY <2>1, <2>2, <1>4, <1>5 DEF End
  <2>3. CASE k < j
    BY <2>1, <2>3, <1>4, <1>5 DEF End
  <2> QED
    BY <2>1, <2>2, <2>3
<1>8. \A k \in Rows : End(Row(k)) <= Size
  BY <1>4, <1>5 DEF End
<1> QED
  BY <1>5, <1>6, <1>7, <1>8

(* What is found by the walk are records. *)
LEMMA FoundType ==
  ASSUME found \in Seq(Event), NEW k \in DOMAIN found
  PROVE  /\ found[k] \in Event
         /\ found[k].start \in Nat /\ found[k].len \in Nat /\ End(found[k]) \in Nat
         /\ found[k].kind \in Kind
         /\ End(found[k]) = found[k].start + found[k].len
<1>1. found[k] \in Event
  OBVIOUS
<1> QED
  BY <1>1 DEF Event, End

(* Before the decoder starts there is nothing to be wrong about. *)
LEMMA InitIInv == Init => IInv
<1> SUFFICES ASSUME Init PROVE IInv
  OBVIOUS
<1>1. bank \in Bank /\ Size \in Nat
  BY EventDecoderAssumption DEF Init, Bank, Size
<1>2. /\ pc = "start" /\ i = 0 /\ found = <<>> /\ events = {}
      /\ layout = [key \in {} |-> 0]
  BY DEF Init
<1>3. Keys = {}
  BY <1>2 DEF Keys
<1>4. layout \in [Keys -> Kind]
  BY <1>2, <1>3
<1> QED
  BY <1>1, <1>2, <1>4 DEF IInv, TypeOK, Apart

(* decode_bank returns nothing, the rows of an array, or goes to _walk. *)
LEMMA DecodeIInv ==
  ASSUME IInv, Decode
  PROVE  IInv'
<1>1. /\ UNCHANGED <<bank, i, found, layout>> /\ pc' \in {"walk", "done"} /\ pc = "start"
      /\ Size' = Size /\ Keys' = Keys
  BY DEF Decode, Size, Keys, walk
<1>2. bank \in Bank /\ i = 0 /\ found = <<>> /\ Size \in Nat /\ events = {}
  BY <1>1 DEF IInv, TypeOK, Bank, Size
<1>3. CASE UNCHANGED events
  BY <1>1, <1>2, <1>3 DEF IInv, TypeOK, Apart
<1>4. CASE Fits /\ events' = Cut /\ pc' = "done"
  BY <1>1, <1>2, <1>4, CutApart DEF IInv, TypeOK, Apart, End
<1> QED
  BY <1>3, <1>4 DEF Decode

(* A record is added behind the ones the walk has met. *)
LEMMA WalkRecordIInv ==
  ASSUME IInv, WalkRecord
  PROVE  IInv'
<1> DEFINE r == RecordAt(i)
<1>1. /\ bank \in Bank /\ i \in Nat /\ found \in Seq(Event) /\ layout \in [Keys -> Kind]
      /\ i + 3 <= Size /\ Marked(i) /\ i + r.len <= Size
      /\ found' = Append(found, r) /\ i' = i + r.len
      /\ layout' = [key \in DOMAIN layout \union {Key(r)} |->
                      IF key = Key(r) THEN r.kind ELSE layout[key]]
      /\ UNCHANGED <<bank, pc, events>> /\ pc = "walk"
  BY DEF IInv, TypeOK, WalkRecord, WellFormed, Whole, Begun
<1>2. Size \in Nat /\ Size' = Size
  BY <1>1 DEF Size, Bank
<1>3. r \in Event /\ r.start = i /\ r.len > 2 /\ r.len \in Nat /\ r.kind \in Kind
  BY <1>1, <1>2, RecordType DEF Event
<1> HIDE DEF r
<1>4. /\ DOMAIN found' = 1..(Len(found) + 1)
      /\ \A l \in DOMAIN found : found'[l] = found[l]
      /\ found'[Len(found) + 1] = r
      /\ DOMAIN found = 1..Len(found) /\ Len(found) \in Nat
  BY <1>1, <1>3
<1>5. Keys' = Keys \union {Key(r)}
  BY <1>4 DEF Keys, Key
<1>6. TypeOK'
  <2>1. layout' \in [Keys' -> Kind]
    BY <1>1, <1>3, <1>5
  <2> QED
    BY <1>1, <1>3, <2>1 DEF IInv, TypeOK
<1>7. Apart'
  <2>1. ASSUME NEW l \in DOMAIN found'
        PROVE  /\ End(found'[l]) <= i'
               /\ \A k \in 1..(l - 1) : End(found'[k]) <= found'[l].start
    <3>1. \A k \in DOMAIN found : End(found[k]) \in Nat /\ End(found[k]) <= i
      BY <1>1, FoundType DEF IInv, Apart
    <3>2. CASE l \in DOMAIN found
      <4>1. End(found'[l]) <= i'
        BY <1>1, <1>3, <1>4, <3>1, <3>2
      <4>2. \A k \in 1..(l - 1) : k \in DOMAIN found
        BY <1>4, <3>2
      <4> QED
        BY <1>4, <3>2, <4>1, <4>2 DEF IInv, Apart
    <3>3. CASE l = Len(found) + 1
      BY <1>1, <1>3, <1>4, <3>1, <3>3, SMTT(40) DEF End
    <3> QED
      BY <1>4, <3>2, <3>3
  <2>2. /\ \A e, f \in events' : e = f \/ End(e) <= f.start \/ End(f) <= e.start
        /\ \A e \in events' : End(e) <= Size'
    BY <1>1, <1>2 DEF IInv, Apart, End
  <2> QED
    BY <1>1, <1>2, <2>1, <2>2 DEF Apart, End
<1> QED
  BY <1>1, <1>6, <1>7 DEF IInv

(* The rows kept are some of the records met, which lie apart. *)
LEMMA KeepIInv ==
  ASSUME IInv, Keep
  PROVE  IInv'
<1> DEFINE kind == layout[MostCommon]
           Kept == {j \in DOMAIN found : Key(found[j]) = MostCommon}
           Row(k) == [found[k] EXCEPT !.kind = kind]
<1>1. /\ events' = {Row(k) : k \in Kept}
      /\ UNCHANGED <<bank, i, found, layout>> /\ pc' = "done"
      /\ Size' = Size /\ Keys' = Keys
  BY DEF Keep, Size, Keys, walk
<1>2. found \in Seq(Event) /\ bank \in Bank /\ i \in Nat /\ layout \in [Keys -> Kind] /\ Size \in Nat
  BY DEF IInv, TypeOK, Bank, Size
<1>3. ASSUME NEW k \in Kept
      PROVE  /\ Row(k) \in Event
             /\ Row(k).start = found[k].start
             /\ End(Row(k)) = End(found[k])
  <2>1. MostCommon \in Keys
    BY <1>3 DEF Keys
  <2>2. kind \in Kind
    BY <1>2, <2>1
  <2>3. found[k] \in Event
    BY <1>2, FoundType
  <2> HIDE DEF kind
  <2> QED
    BY <2>2, <2>3 DEF Event, End
<1> HIDE DEF Row, kind
<1>4. ASSUME NEW j \in Kept, NEW k \in Kept
      PROVE  j = k \/ End(found[j]) <= found[k].start \/ End(found[k]) <= found[j].start
  <2>1. DOMAIN found = 1..Len(found) /\ Len(found) \in Nat
    BY <1>2
  <2>2. CASE j < k
    BY <2>1, <2>2 DEF IInv, Apart
  <2>3. CASE k < j
    BY <2>1, <2>3 DEF IInv, Apart
  <2> QED
    BY <2>1, <2>2, <2>3
<1>5. ASSUME NEW k \in Kept
      PROVE  End(found[k]) <= Size
  <2>1. End(found[k]) \in Nat /\ End(found[k]) <= i /\ i <= Size
    BY <1>2, FoundType DEF IInv, Apart
  <2> QED
    BY <1>2, <2>1
<1>6. TypeOK'
  BY <1>1, <1>2, <1>3 DEF TypeOK
<1>7. Apart'
  <2>1. /\ \A e, f \in events' : e = f \/ End(e) <= f.start \/ End(f) <= e.start
        /\ \A e \in events' : End(e) <= Size
    BY <1>1, <1>3, <1>4, <1>5
  <2> QED
    BY <1>1, <2>1 DEF IInv, Apart, End
<1> QED
  BY <1>1, <1>6, <1>7 DEF IInv

(* Every step of the decoder preserves the invariant. *)
LEMMA NextIInv == IInv /\ [Next]_vars => IInv'
<1> SUFFICES ASSUME IInv, [Next]_vars PROVE IInv'
  OBVIOUS
<1>1. CASE Decode
  BY <1>1, DecodeIInv
<1>2. CASE WalkRecord
  BY <1>2, WalkRecordIInv
<1>3. CASE WalkEnds
  <2>1. UNCHANGED <<bank, i, found, layout, events>> /\ pc = "walk" /\ pc' \in {"done", "keep"}
    BY <1>3 DEF WalkEnds, walk
  <2> QED
    BY <2>1 DEF IInv, TypeOK, Apart, Keys, Key, Size, End
<1>4. CASE Keep
  BY <1>4, KeepIInv
<1>5. CASE UNCHANGED vars
  BY <1>5 DEF vars, walk, IInv, TypeOK, Apart, Keys, Key, Size, End
<1> QED
  BY <1>1, <1>2, <1>3, <1>4, <1>5 DEF Next, Walk

-----------------------------------------------------------------------------
(* Type correctness, for every set of banks. *)
THEOREM TypeCorrect == Spec => []TypeOK
<1>1. IInv => TypeOK
  BY DEF IInv
<1> QED
  BY InitIInv, NextIInv, <1>1, PTL DEF Spec

(* No word of a bank is used for two events, and none beyond its end: the   *)
(* decoder never reads past the bank, whatever the words say.               *)
THEOREM EventsApart == Spec => []Apart
<1>1. IInv => Apart
  BY DEF IInv
<1> QED
  BY InitIInv, NextIInv, <1>1, PTL DEF Spec

-----------------------------------------------------------------------------
(* Banks that are laid out as their fields say *)

(* A set of numbers has a least one. *)
LEMMA Least ==
  ASSUME NEW T, T \subseteq Nat, T # {}
  PROVE  \E x \in T : \A y \in T : x <= y
<1> DEFINE R == {ss \in Nat \X Nat : ss[1] < ss[2]}
<1>1. IsWellFoundedOn(R, Nat)
  BY NatLessThanWellFounded DEF OpToRel
<1>2. PICK x \in T : \A y \in T : <<y, x>> \notin R
  <2> HIDE DEF R
  <2> QED
    BY <1>1, WFMin
<1>3. ASSUME NEW y \in T PROVE x <= y
  <2>1. x \in Nat /\ y \in Nat /\ <<y, x>> \notin R
    BY <1>2
  <2>2. <<y, x>> \in Nat \X Nat /\ <<y, x>>[1] = y /\ <<y, x>>[2] = x
    BY <2>1
  <2> QED
    BY <2>1, <2>2
<1> QED
  BY <1>3

(* What can be read of a record whose marker is in the bank. *)
LEMMA BegunRecord ==
  ASSUME bank \in Bank, NEW n \in Nat, Begun(n)
  PROVE  /\ RecordAt(n) \in Event /\ RecordAt(n).start = n
         /\ RecordAt(n).len \in Nat /\ RecordAt(n).len > 2
         /\ RecordAt(n).fmt = At(n).fmt
         /\ RecordAt(n).kind.hdr = header_words(At(n).fmt)
         /\ RecordAt(n).kind.hdr \in Nat
         /\ n < Size /\ Size \in Nat
         /\ n + RecordAt(n).kind.hdr < Size /\ At(n + RecordAt(n).kind.hdr).e
<1>1. Size \in Nat /\ n < Size /\ Marked(n)
  BY DEF Begun, Size, Bank
<1>2. RecordAt(n) \in Event /\ RecordAt(n).start = n /\ RecordAt(n).len > 2
  BY <1>1, RecordType
<1>3. RecordAt(n).fmt = At(n).fmt /\ RecordAt(n).kind.hdr = header_words(At(n).fmt)
  BY DEF RecordAt
<1> QED
  BY <1>1, <1>2, <1>3 DEF Event, Kind, Marked

(* Records of one layout are of one length. *)
LEMMA SameLength ==
  ASSUME NEW n, NEW m, SameLayout(RecordAt(n), RecordAt(m))
  PROVE  RecordAt(n).len = RecordAt(m).len
<1>1. \A k \in {n, m} :
        RecordAt(k).len = RecordAt(k).kind.hdr + 1 + RecordAt(k).kind.raw + RecordAt(k).kind.maw
  BY DEF RecordAt
<1> QED
  BY <1>1 DEF SameLayout

(* Stored records lie in the bank, one behind the other. *)
LEMMA StoredRecord ==
  ASSUME bank \in Bank, Stored, NEW r \in bank.stored
  PROVE  /\ r \in Event /\ r.start \in Nat /\ r.len \in Nat /\ r.len > 2
         /\ End(r) \in Nat /\ End(r) = r.start + r.len /\ End(r) <= Size
         /\ Begun(r.start) /\ Whole(r.start) /\ r = RecordAt(r.start)
         /\ r.start \in Places /\ End(r) \in Places
<1>1. r \in Event /\ r.start \in Nat /\ r.len \in Nat
  BY DEF Bank, Event
<1>2. r = RecordAt(r.start) /\ Whole(r.start) /\ Begun(r.start) /\ r.start \in Places
  BY DEF Stored, Whole
<1>3. r.len > 2
  BY <1>1, <1>2, BegunRecord
<1>4. End(r) = r.start + r.len /\ r.start + r.len <= Size
  BY <1>2 DEF End, Whole
<1> QED
  BY <1>1, <1>2, <1>3, <1>4 DEF Places

LEMMA PlacesNat ==
  ASSUME bank \in Bank
  PROVE  Places \subseteq Nat
BY DEF Bank, Event, Places, End

(* Two stored records do not begin at one word. *)
LEMMA StartsApart ==
  ASSUME bank \in Bank, Stored, NEW r \in bank.stored, NEW s \in bank.stored, r # s
  PROVE  End(r) <= s.start \/ End(s) <= r.start
BY DEF Stored

(* The first record begins at the first word. *)
LEMMA FirstRecord ==
  ASSUME bank \in Bank, Stored, bank.stored # {}
  PROVE  0 \in Starts(bank.stored)
<1>1. Starts(bank.stored) \subseteq Nat /\ Starts(bank.stored) # {}
  BY StoredRecord DEF Starts
<1>2. PICK x \in Starts(bank.stored) : \A y \in Starts(bank.stored) : x <= y
  BY <1>1, Least
<1>3. PICK r \in bank.stored : r.start = x
  BY DEF Starts
<1>4. CASE r.start = 0
  BY <1>3, <1>4
<1>5. ASSUME NEW s \in bank.stored, r.start = End(s)
      PROVE  FALSE
  <2>1. s.start \in Nat /\ End(s) = s.start + s.len /\ s.len \in Nat /\ s.len > 2
    BY StoredRecord
  <2>2. x <= s.start
    BY <1>2 DEF Starts
  <2> QED
    BY <1>3, <1>5, <2>1, <2>2
<1>6. r.start \in Places
  BY StoredRecord
<1> QED
  BY <1>4, <1>5, <1>6 DEF Places

(* At a place where no whole record begins, all records are passed. *)
LEMMA AllPassed ==
  ASSUME bank \in Bank, Stored, NEW p \in Places, ~Whole(p)
  PROVE  \A r \in bank.stored : r.start < p
<1> DEFINE T == {n \in Starts(bank.stored) : p <= n}
<1>1. p \in Nat /\ Starts(bank.stored) \subseteq Nat
  BY PlacesNat, StoredRecord DEF Starts
<1>2. ASSUME T # {}
      PROVE  FALSE
  <2>1. PICK x \in T : \A y \in T : x <= y
    BY <1>1, <1>2, Least
  <2>2. PICK r \in bank.stored : r.start = x
    BY DEF Starts
  <2>3. x # p
    BY <2>2, StoredRecord
  <2>4. x \in Nat /\ p < x /\ x \in Places
    BY <1>1, <2>1, <2>2, <2>3, StoredRecord
  <2>5. PICK s \in bank.stored : End(s) = x
    BY <1>1, <2>4 DEF Places
  <2>6. s.start \in Nat /\ End(s) = s.start + s.len /\ s.len \in Nat /\ s.len > 2
    BY StoredRecord
  <2>7. s.start < p
    <3>1. s.start \in Starts(bank.stored)
      BY DEF Starts
    <3> QED
      BY <1>1, <2>1, <2>5, <2>6, <3>1
  <2>8. PICK t \in bank.stored : End(t) = p
    BY <1>1, <2>6, <2>7 DEF Places
  <2>9. t.start \in Nat /\ t.start < p
    BY <1>1, <2>8, StoredRecord
  <2>10. s # t
    BY <2>4, <2>5, <2>8, <1>1
  <2> QED
    BY <1>1, <2>4, <2>5, <2>6, <2>7, <2>8, <2>9, <2>10, StartsApart
<1> QED
  BY <1>1, <1>2, StoredRecord DEF Starts

-----------------------------------------------------------------------------
(* The fast path *)

Rows == 0..(Size \div RecordAt(0).len - 1)

(* A bank that fits is cut at words where a record like the first begins. *)
LEMMA FitRows ==
  ASSUME bank \in Bank, Fits
  PROVE  /\ Begun(0) /\ Whole(0) /\ 0 \in Rows /\ Rows \subseteq Nat
         /\ RecordAt(0).len \in Nat \ {0} /\ Size \in Nat /\ Size % RecordAt(0).len = 0
         /\ \A k \in Rows :
              /\ k * RecordAt(0).len \in Nat
              /\ k * RecordAt(0).len + RecordAt(0).len <= Size
              /\ Begun(k * RecordAt(0).len)
              /\ RecordAt(k * RecordAt(0).len).fmt = RecordAt(0).fmt
              /\ RecordAt(k * RecordAt(0).len).kind.hdr = RecordAt(0).kind.hdr
              /\ At(k * RecordAt(0).len + RecordAt(0).kind.hdr).e
         /\ Cut = {[RecordAt(0) EXCEPT !.start = k * RecordAt(0).len] : k \in Rows}
<1> DEFINE first == RecordAt(0)
           len == first.len
<1>1. Begun(0) /\ Size \in Nat /\ Size > 0 /\ Size % len = 0
  BY DEF Fits, LongEnough, Begun, Size, Bank
<1>2. /\ len \in Nat \ {0} /\ len > 2 /\ first.kind.hdr \in Nat /\ first.fmt = At(0).fmt
      /\ first.kind.hdr = header_words(first.fmt) /\ first.kind.hdr + 1 <= len
  <2>1. first.len = first.kind.hdr + 1 + first.kind.raw + first.kind.maw
    BY DEF RecordAt
  <2>2. first.kind.raw \in Nat /\ first.kind.maw \in Nat
    BY <1>1, BegunRecord DEF Event, Kind
  <2> QED
    BY <1>1, <2>1, <2>2, BegunRecord
<1>3. \A k \in Rows : At(k * len + first.kind.hdr).e /\ At(k * len).fmt = first.fmt
  BY DEF Fits, Rows
<1>4. Cut = {[first EXCEPT !.start = k * len] : k \in Rows}
  BY DEF Cut, Rows
<1>5. ASSUME NEW k \in Rows
      PROVE  k * len \in Nat /\ k * len + len <= Size
  BY <1>1, <1>2, <1>5, Stride DEF Rows
<1>6. ASSUME NEW k \in Rows
      PROVE  /\ Begun(k * len)
             /\ RecordAt(k * len).fmt = first.fmt
             /\ RecordAt(k * len).kind.hdr = first.kind.hdr
  <2>1. header_words(At(k * len).fmt) = first.kind.hdr
    BY <1>2, <1>3
  <2>2. k * len + 3 <= Size /\ k * len + first.kind.hdr < Size
    BY <1>1, <1>2, <1>5
  <2>3. Begun(k * len)
    BY <1>3, <2>1, <2>2 DEF Begun, Marked
  <2> QED
    BY <1>3, <1>5, <2>1, <2>3, BegunRecord
<1>7. Size \div len \in Nat /\ Size \div len > 0 /\ len <= Size
  <2>1. Size \div len \in Nat /\ Size = (Size \div len) * len
    BY <1>1, <1>2
  <2>2. Size \div len # 0
    BY <1>1, <1>2, <2>1
  <2>3. Size \div len - 1 \in Nat /\ Size = (Size \div len - 1) * len + len
    BY <1>2, <2>1, <2>2
  <2>4. (Size \div len - 1) * len \in Nat
    BY <1>2, <2>3
  <2> HIDE DEF len
  <2> QED
    BY <1>1, <1>2, <2>1, <2>2, <2>3, <2>4
<1>8. 0 \in Rows /\ Rows \subseteq Nat
  BY <1>7 DEF Rows
<1>9. Whole(0)
  <2>1. 0 + len <= Size
    BY <1>7, <1>2
  <2> QED
    BY <1>1, <2>1 DEF Whole
<1> QED
  BY <1>1, <1>2, <1>3, <1>4, <1>5, <1>6, <1>8, <1>9

(* In a regular bank every row is a stored record: it begins where the one  *)
(* before it ends, and is not longer.                                       *)
LEMMA RowsStored ==
  ASSUME bank \in Bank, Stored, Regular, Fits
  PROVE  \A k \in Rows : k * RecordAt(0).len \in Starts(bank.stored)
<1> DEFINE len == RecordAt(0).len
           T == {k \in Rows : k * len \notin Starts(bank.stored)}
<1>1. /\ Begun(0) /\ Whole(0) /\ 0 \in Rows /\ Rows \subseteq Nat
      /\ len \in Nat \ {0} /\ Size \in Nat
      /\ \A k \in Rows : k * len \in Nat /\ k * len + len <= Size /\ Begun(k * len)
  BY FitRows
<1>2. 0 \in Places /\ 0 \in Starts(bank.stored)
  BY <1>1 DEF Places, Stored
<1>3. ASSUME T # {}
      PROVE  FALSE
  <2> HIDE DEF len
  <2>1. PICK k \in T : \A j \in T : k <= j
    BY <1>1, <1>3, Least
  <2>2. k \in Nat /\ k # 0 /\ k \in Rows
    <3>1. 0 * len = 0
      BY <1>1
    <3> QED
      BY <1>1, <1>2, <2>1, <3>1
  <2>3. k - 1 \in Rows /\ (k - 1) * len \in Starts(bank.stored) /\ k * len = (k - 1) * len + len
    <3>1. k - 1 \in Rows
      <4>1. Rows = 0..(Size \div len - 1)
        BY DEF Rows, len
      <4>2. Size \div len \in Nat
        BY <1>1
      <4> QED
        BY <2>2, <4>1, <4>2
    <3>2. k - 1 \notin T
      BY <2>1, <2>2
    <3>3. k * len = (k - 1) * len + len
      BY <1>1, <2>2
    <3> QED
      BY <3>1, <3>2, <3>3
  <2>4. PICK r \in bank.stored : r.start = (k - 1) * len
    BY <2>3 DEF Starts
  <2>5. r.len = len
    <3>1. Begun(r.start) /\ r.start \in Places /\ r = RecordAt(r.start)
      BY StoredRecord
    <3>2. SameLayout(RecordAt(r.start), RecordAt(0))
      BY <1>1, <1>2, <3>1 DEF Regular
    <3> QED
      BY <3>1, <3>2, SameLength DEF len
  <2>6. k * len \in Places
    BY <2>3, <2>4, <2>5, StoredRecord
  <2>7. RecordAt(k * len).len = len
    <3>1. SameLayout(RecordAt(k * len), RecordAt(0))
      BY <1>1, <1>2, <2>2, <2>6 DEF Regular
    <3> QED
      BY <3>1, SameLength DEF len
  <2>8. Whole(k * len)
    BY <1>1, <2>2, <2>7 DEF Whole
  <2> QED
    BY <2>1, <2>6, <2>8 DEF Stored
<1> QED
  BY <1>3

(* A word of the bank is in one of its rows. *)
LEMMA RowOf ==
  ASSUME NEW n \in Nat, NEW size \in Nat, NEW len \in Nat \ {0}, size % len = 0, n < size
  PROVE  \E k \in 0..(size \div len - 1) : k * len <= n /\ n < k * len + len
<1> DEFINE k == n \div len
<1>1. k \in Nat /\ n = k * len + (n % len) /\ (n % len) \in 0..(len - 1)
  OBVIOUS
<1>2. k * len <= n /\ n < k * len + len
  BY <1>1
<1>3. size \div len \in Nat /\ size = (size \div len) * len
  OBVIOUS
<1> HIDE DEF k
<1>4. k < size \div len
  <2>1. SUFFICES ASSUME size \div len <= k
                 PROVE  FALSE
    BY <1>1, <1>3
  <2>2. PICK d \in Nat : k = size \div len + d
    BY <1>1, <1>3, <2>1
  <2>3. k * len = (size \div len) * len + d * len /\ d * len \in Nat
    BY <1>3, <2>2
  <2>4. size <= k * len
    BY <1>3, <2>3
  <2> QED
    BY <1>1, <1>2, <2>4
<1>5. k \in 0..(size \div len - 1)
  BY <1>1, <1>3, <1>4
<1> QED
  BY <1>2, <1>5

(* The rows of a regular bank are its records. *)
LEMMA CutRegular ==
  ASSUME bank \in Bank, Stored, Regular, Fits
  PROVE  Cut = bank.stored
<1> DEFINE first == RecordAt(0)
           len == first.len
<1>1. /\ Begun(0) /\ Whole(0) /\ Rows \subseteq Nat /\ len \in Nat \ {0}
      /\ Size \in Nat /\ Size % len = 0
      /\ \A k \in Rows : k * len \in Nat
      /\ Cut = {[first EXCEPT !.start = k * len] : k \in Rows}
  BY FitRows
<1>2. 0 \in Places
  BY DEF Places
<1>3. \A k \in Rows : k * len \in Starts(bank.stored)
  BY RowsStored
<1>4. ASSUME NEW r \in bank.stored
      PROVE  r = [first EXCEPT !.start = r.start]
  <2>1. r = RecordAt(r.start) /\ Begun(r.start) /\ r.start \in Places /\ r \in Event
    BY StoredRecord
  <2>2. SameLayout(RecordAt(r.start), first)
    BY <1>1, <1>2, <2>1 DEF Regular
  <2>3. r.fmt = first.fmt /\ r.kind = first.kind /\ r.len = first.len
    BY <2>1, <2>2, SameLength DEF SameLayout
  <2>4. first \in Event
    BY <1>1, BegunRecord
  <2> HIDE DEF first
  <2> QED
    BY <2>1, <2>3, <2>4 DEF Event
<1> HIDE DEF len, first
<1>5. Cut \subseteq bank.stored
  BY <1>1, <1>3, <1>4 DEF Starts
<1>6. ASSUME NEW r \in bank.stored
      PROVE  r \in Cut
  <2>1. r.start \in Nat /\ r.len \in Nat /\ r.len > 2 /\ End(r) = r.start + r.len /\ End(r) <= Size
    BY StoredRecord
  <2>2. PICK k \in Rows : k * len <= r.start /\ r.start < k * len + len
    <3>1. Rows = 0..(Size \div len - 1)
      BY DEF Rows, len, first
    <3>2. r.start < Size
      BY <1>1, <2>1
    <3> QED
      BY <1>1, <2>1, <3>1, <3>2, RowOf
  <2>3. PICK t \in bank.stored : t.start = k * len
    BY <1>3 DEF Starts
  <2>4. End(t) = k * len + len
    <3>1. t.len = len
      <4>1. t = [first EXCEPT !.start = t.start]
        BY <1>4
      <4>2. [first EXCEPT !.start = t.start].len = first.len
        BY <1>1, BegunRecord DEF Event, first
      <4> QED
        BY <4>1, <4>2 DEF len
    <3> QED
      BY <2>3, <3>1 DEF End
  <2>5. r = t
    BY <1>1, <2>1, <2>2, <2>3, <2>4, StartsApart
  <2> QED
    BY <1>1, <1>4, <2>2, <2>3, <2>5
<1> QED
  BY <1>5, <1>6

(* In a plain bank a row begins where a record does, for its marker can be  *)
(* no other word's.                                                         *)
LEMMA RowPlaces ==
  ASSUME bank \in Bank, PlainBank, Fits, NEW k \in Rows
  PROVE  k * RecordAt(0).len \in Places
<1> DEFINE n == k * RecordAt(0).len
           hdr == RecordAt(0).kind.hdr
<1>1. /\ Begun(0) /\ Begun(n) /\ n \in Nat /\ At(n + hdr).e
      /\ RecordAt(n).kind.hdr = hdr
  BY FitRows
<1> HIDE DEF n
<1>2. n + hdr \in 0..(Size - 1) /\ hdr \in Nat
  BY <1>1, BegunRecord
<1>3. PICK m \in Places : Begun(m) /\ n + hdr = m + RecordAt(m).kind.hdr
  BY <1>1, <1>2 DEF PlainBank
<1>4. 0 \in Places /\ m \in Nat
  BY PlacesNat DEF Places
<1>5. RecordAt(m).fmt = RecordAt(0).fmt
  BY <1>1, <1>3, <1>4 DEF PlainBank
<1>6. RecordAt(m).kind.hdr = hdr
  BY <1>1, <1>3, <1>4, <1>5, BegunRecord
<1>7. m = n
  BY <1>1, <1>2, <1>3, <1>4, <1>6
<1> QED
  BY <1>3, <1>7 DEF n

(* Nor is it where the bank ends within a record: that one is as long as    *)
(* the record before it, which would reach over the row before.             *)
LEMMA RowsBegin ==
  ASSUME bank \in Bank, Stored, PlainBank, Fits, NEW k \in Rows
  PROVE  k * RecordAt(0).len \in Starts(bank.stored)
<1> DEFINE len == RecordAt(0).len
           n == k * len
<1>1. /\ Begun(0) /\ Whole(0) /\ Rows \subseteq Nat /\ len \in Nat \ {0} /\ Size \in Nat
      /\ n \in Nat /\ n + len <= Size /\ Begun(n) /\ RecordAt(n).fmt = RecordAt(0).fmt
  BY FitRows
<1>2. n \in Places
  BY RowPlaces
<1>3. ASSUME ~Whole(n)
      PROVE  FALSE
  <2> HIDE DEF len, n
  <2>1. n # 0 /\ n + RecordAt(n).len > Size /\ RecordAt(n).len \in Nat
    BY <1>1, <1>3, BegunRecord DEF Whole
  <2>2. PICK r \in bank.stored : End(r) = n
    BY <1>2, <2>1 DEF Places
  <2>3. r.len = RecordAt(n).len
    <3>1. r = RecordAt(r.start) /\ Begun(r.start) /\ r.start \in Places
      BY StoredRecord
    <3>2. RecordAt(n).kind = r.kind /\ RecordAt(r.start).fmt = RecordAt(n).fmt
      BY <1>1, <1>2, <1>3, <2>2, <3>1 DEF PlainBank
    <3> QED
      BY <3>1, <3>2, SameLength DEF SameLayout
  <2>4. k \in Nat /\ k # 0
    <3>1. 0 * len = 0
      BY <1>1
    <3> QED
      BY <1>1, <2>1, <3>1 DEF n
  <2>5. k - 1 \in Rows /\ n = (k - 1) * len + len /\ (k - 1) * len \in Nat
    <3>1. Rows = 0..(Size \div len - 1)
      BY DEF Rows, len
    <3>2. Size \div len \in Nat
      BY <1>1
    <3>3. n = (k - 1) * len + len /\ (k - 1) * len \in Nat
      BY <1>1, <2>4 DEF n
    <3> QED
      BY <2>4, <3>1, <3>2, <3>3
  <2>6. (k - 1) * len \in Places
    BY <2>5, RowPlaces DEF len
  <2>7. /\ r.start \in Nat /\ n = r.start + r.len /\ r.len \in Nat
        /\ r.start < (k - 1) * len /\ (k - 1) * len < n
    <3>1. r.start \in Nat /\ r.len \in Nat /\ n = r.start + r.len
      BY <2>2, StoredRecord
    <3> QED
      BY <1>1, <2>1, <2>3, <2>5, <3>1
  <2>8. PICK s \in bank.stored : End(s) = (k - 1) * len
    BY <2>5, <2>6, <2>7 DEF Places
  <2>9. s # r /\ s.start \in Nat /\ End(s) = s.start + s.len /\ s.len \in Nat /\ s.len > 2
    BY <2>2, <2>5, <2>7, <2>8, StoredRecord
  <2> QED
    BY <2>2, <2>5, <2>7, <2>8, <2>9, StartsApart
<1>4. Whole(n)
  BY <1>3
<1> QED
  BY <1>2, <1>4 DEF Stored

(* So the rows of a plain bank begin where records begin, and it can be cut *)
(* by the length of its first record.                                       *)
LEMMA CutPlain ==
  ASSUME bank \in Bank, Stored, PlainBank, Fits
  PROVE  Starts(Cut) \subseteq Starts(bank.stored) /\ Strided
<1> DEFINE first == RecordAt(0)
           len == first.len
<1>1. /\ Begun(0) /\ 0 \in Rows /\ Size % len = 0 /\ len \in Nat
      /\ Cut = {[first EXCEPT !.start = k * len] : k \in Rows}
  BY FitRows
<1>2. \A k \in Rows : k * len \in Starts(bank.stored)
  BY RowsBegin
<1>3. \A n \in Nat : [first EXCEPT !.start = n].start = n
  BY <1>1, BegunRecord DEF Event
<1>4. Starts(bank.stored) \subseteq Nat
  BY StoredRecord DEF Starts
<1>5. PICK r \in bank.stored : r.start = 0
  <2>1. 0 * len = 0
    BY <1>1
  <2> QED
    BY <1>1, <1>2, <2>1 DEF Starts
<1>6. r = first
  BY <1>5, StoredRecord
<1>7. Strided
  BY <1>1, <1>2, <1>5, <1>6 DEF Strided, Rows
<1> HIDE DEF len, first
<1>8. Starts(Cut) \subseteq Starts(bank.stored)
  <2>1. \A e \in Cut : e.start \in Starts(bank.stored)
    BY <1>1, <1>2, <1>3, <1>4
  <2> QED
    BY <2>1 DEF Starts
<1> QED
  BY <1>7, <1>8

-----------------------------------------------------------------------------
(* The walk *)

(* A record that the walk meets is the stored one that begins there. *)
LEMMA MetRecord ==
  ASSUME bank \in Bank, Stored, i \in Places, WellFormed
  PROVE  RecordAt(i) \in bank.stored /\ RecordAt(i).start = i
<1>1. PICK r \in bank.stored : r.start = i
  BY DEF Stored, WellFormed, Starts
<1> QED
  BY <1>1, StoredRecord

(* The walk is at a place where a record may begin, and has met all before. *)
LEMMA WalkedStep ==
  ASSUME IInv, Laid, Walked, [Next]_vars
  PROVE  Walked'
<1>1. bank \in Bank /\ Stored /\ bank' = bank /\ Places' = Places
  BY DEF IInv, TypeOK, Laid, Next, Walk, Decode, WalkRecord, WalkEnds, Keep, vars, Places, End
<1>2. CASE UNCHANGED walk /\ (pc' = "keep" => pc = "keep" \/ (found # <<>> /\ ~WellFormed))
  <2>1. WellFormed' = WellFormed
    BY <1>1, <1>2 DEF walk, WellFormed, Whole, Begun, Marked, RecordAt, At, Size
  <2> QED
    BY <1>1, <1>2, <2>1 DEF Walked, walk, Key
<1>3. CASE WalkRecord
  <2> DEFINE r == RecordAt(i)
  <2>1. /\ found \in Seq(Event) /\ layout \in [Keys -> Kind] /\ i \in Places /\ WellFormed
        /\ found' = Append(found, r) /\ i' = i + r.len /\ pc' = "walk"
        /\ layout' = [key \in DOMAIN layout \union {Key(r)} |->
                        IF key = Key(r) THEN r.kind ELSE layout[key]]
    BY <1>3 DEF WalkRecord, Walked, IInv, TypeOK
  <2>2. r \in bank.stored /\ r.start = i /\ r \in Event
    BY <1>1, <2>1, MetRecord, StoredRecord
  <2> HIDE DEF r
  <2>3. i' = End(r) /\ i' \in Places
    BY <1>1, <2>1, <2>2 DEF End, Places
  <2>4. /\ DOMAIN found' = DOMAIN found \union {Len(found) + 1}
        /\ \A k \in DOMAIN found : found'[k] = found[k]
        /\ found'[Len(found) + 1] = r
    BY <2>1, <2>2
  <2>5. {found'[k] : k \in DOMAIN found'} = {s \in bank.stored : s.start < End(r)}
    <3>1. {found'[k] : k \in DOMAIN found'} = {s \in bank.stored : s.start < i} \union {r}
      BY <2>4 DEF Walked
    <3>2. ASSUME NEW s \in bank.stored
          PROVE  s.start < End(r) <=> s.start < i \/ s = r
      <4>1. /\ s.start \in Nat /\ s.len \in Nat /\ End(s) = s.start + s.len /\ s.len > 2
            /\ r.len \in Nat /\ End(r) = i + r.len /\ r.len > 2 /\ i \in Nat
        BY <1>1, <2>2, StoredRecord
      <4> QED
        BY <1>1, <2>2, <4>1, StartsApart
    <3> QED
      BY <2>2, <3>1, <3>2
  <2>6. ASSUME NEW k \in DOMAIN found'
        PROVE  \E j \in DOMAIN found' :
                 Key(found'[j]) = Key(found'[k]) /\ found'[j].kind = layout'[Key(found'[k])]
    <3>1. CASE Key(found'[k]) = Key(r)
      BY <2>1, <2>4, <3>1
    <3>2. CASE Key(found'[k]) # Key(r)
      <4>1. k \in DOMAIN found /\ found'[k] = found[k]
        BY <2>4, <3>2
      <4>2. PICK j \in DOMAIN found :
              Key(found[j]) = Key(found[k]) /\ found[j].kind = layout[Key(found[k])]
        BY <4>1 DEF Walked
      <4>3. Key(found[k]) \in DOMAIN layout
        BY <2>1, <4>1 DEF Keys
      <4>4. layout'[Key(found[k])] = layout[Key(found[k])]
        BY <2>1, <3>2, <4>1, <4>3
      <4> QED
        BY <2>4, <4>1, <4>2, <4>4
    <3> QED
      BY <3>1, <3>2
  <2> QED
    BY <1>1, <2>1, <2>3, <2>5, <2>6 DEF Walked, Key
<1>4. CASE Decode
  BY <1>2, <1>4 DEF Decode
<1>5. CASE WalkEnds
  BY <1>2, <1>5 DEF WalkEnds
<1>6. CASE Keep
  BY <1>2, <1>6 DEF Keep
<1>7. CASE UNCHANGED vars
  BY <1>2, <1>7 DEF vars
<1> QED
  BY <1>3, <1>4, <1>5, <1>6, <1>7 DEF Next, Walk

(* When it ends it has met all of them. *)
LEMMA AllFound ==
  ASSUME IInv, Laid, Walked, ~WellFormed
  PROVE  {found[k] : k \in DOMAIN found} = bank.stored
<1>1. bank \in Bank /\ Stored /\ i \in Places
  BY DEF IInv, TypeOK, Laid, Walked
<1>2. \A r \in bank.stored : r.start < i
  BY <1>1, AllPassed DEF WellFormed
<1> QED
  BY <1>2 DEF Walked

(* A bank too short for a record holds none. *)
LEMMA TooShort ==
  ASSUME bank \in Bank, Stored, ~LongEnough
  PROVE  bank.stored = {}
<1>1. ASSUME bank.stored # {}
      PROVE  FALSE
  <2>1. PICK r \in bank.stored : r.start = 0
    BY <1>1, FirstRecord DEF Starts
  <2>2. Begun(0) /\ Size \in Nat
    BY <2>1, StoredRecord DEF Bank, Size
  <2> QED
    BY <2>2, BegunRecord DEF LongEnough, Begun, Marked
<1> QED
  BY <1>1

-----------------------------------------------------------------------------
(* The most common kind *)

LEMMA CountType ==
  ASSUME found \in Seq(Event), NEW key
  PROVE  /\ IsFiniteSet({k \in DOMAIN found : Key(found[k]) = key})
         /\ Count(key) \in Nat /\ Count(key) <= Len(found)
<1>1. DOMAIN found = 1..Len(found) /\ Len(found) \in Nat
  OBVIOUS
<1>2. IsFiniteSet(DOMAIN found) /\ Cardinality(DOMAIN found) = Len(found)
  BY <1>1, FS_Interval
<1>3. {k \in DOMAIN found : Key(found[k]) = key} \in SUBSET DOMAIN found
  OBVIOUS
<1> QED
  BY <1>2, <1>3, FS_Subset, FS_CardinalityType DEF Count

LEMMA FirstOfType ==
  ASSUME found \in Seq(Event), NEW key \in Keys
  PROVE  FirstOf(key) \in Nat
<1> DEFINE T == {k \in DOMAIN found : Key(found[k]) = key}
           P(k) == Key(found[k]) = key /\ \A j \in 1..(k - 1) : Key(found[j]) # key
<1>1. DOMAIN found = 1..Len(found) /\ Len(found) \in Nat
  OBVIOUS
<1>2. T \subseteq Nat /\ T # {}
  BY <1>1 DEF Keys
<1>3. PICK k \in T : \A j \in T : k <= j
  BY <1>2, Least
<1>4. k \in DOMAIN found /\ P(k)
  BY <1>1, <1>3
<1>5. FirstOf(key) = CHOOSE x \in DOMAIN found : P(x)
  BY DEF FirstOf
<1> HIDE DEF P
<1> QED
  BY <1>1, <1>4, <1>5

(* There is a most common kind, and none has more records. *)
LEMMA MostCommonExists ==
  ASSUME found \in Seq(Event), found # <<>>
  PROVE  MostCommon \in Keys /\ \A other \in Keys : Count(other) <= Count(MostCommon)
<1> DEFINE P(key) == \A other \in Keys :
                       \/ Count(other) < Count(key)
                       \/ Count(other) = Count(key) /\ FirstOf(key) <= FirstOf(other)
           Fewer == {Len(found) - Count(key) : key \in Keys}
<1>1. Keys # {}
  <2>1. 1 \in DOMAIN found
    OBVIOUS
  <2> QED
    BY <2>1 DEF Keys
<1>2. ASSUME NEW key \in Keys
      PROVE  Count(key) \in Nat /\ Len(found) - Count(key) \in Nat
  <2>1. Len(found) \in Nat
    OBVIOUS
  <2>2. Count(key) \in Nat /\ Count(key) <= Len(found)
    BY CountType
  <2> QED
    BY <2>1, <2>2
<1>3. PICK top \in Keys : \A other \in Keys : Count(other) <= Count(top)
  <2>1. Fewer \subseteq Nat /\ Fewer # {}
    BY <1>1, <1>2
  <2>2. PICK x \in Fewer : \A y \in Fewer : x <= y
    BY <2>1, Least
  <2>3. PICK top \in Keys : x = Len(found) - Count(top)
    OBVIOUS
  <2>4. ASSUME NEW other \in Keys
        PROVE  Count(other) <= Count(top)
    <3>1. Len(found) - Count(top) <= Len(found) - Count(other)
      BY <2>2, <2>3
    <3>2. Len(found) \in Nat /\ Count(top) \in Nat /\ Count(other) \in Nat
      BY <1>2
    <3> QED
      BY <3>1, <3>2
  <2> QED
    BY <2>4
<1> DEFINE Top == {key \in Keys : Count(key) = Count(top)}
           Firsts == {FirstOf(key) : key \in Top}
<1>4. PICK first \in Top : \A other \in Top : FirstOf(first) <= FirstOf(other)
  <2>1. Firsts \subseteq Nat /\ Firsts # {}
    BY FirstOfType
  <2>2. PICK x \in Firsts : \A y \in Firsts : x <= y
    BY <2>1, Least
  <2> QED
    BY <2>2
<1>5. P(first)
  <2> TAKE other \in Keys
  <2>1. CASE other \in Top
    BY <1>4, <2>1
  <2>2. CASE other \notin Top
    BY <1>2, <1>3, <2>2
  <2> QED
    BY <2>1, <2>2
<1>6. MostCommon = CHOOSE key \in Keys : P(key)
  BY DEF MostCommon
<1>7. MostCommon \in Keys /\ P(MostCommon)
  <2> HIDE DEF P
  <2> QED
    BY <1>5, <1>6
<1> QED
  BY <1>2, <1>7

(* The records that are kept are those of the most common kind, as stored,  *)
(* if records of one key have one kind.                                     *)
LEMMA KeptFound ==
  ASSUME IInv, Walked, Keep,
         \A j, k \in DOMAIN found : Key(found[j]) = Key(found[k]) => found[j].kind = found[k].kind
  PROVE  events' = {found[k] : k \in {j \in DOMAIN found : Key(found[j]) = MostCommon}}
<1> DEFINE Kept == {j \in DOMAIN found : Key(found[j]) = MostCommon}
<1>1. events' = {[found[k] EXCEPT !.kind = layout[MostCommon]] : k \in Kept}
  BY DEF Keep
<1>2. ASSUME NEW k \in Kept
      PROVE  [found[k] EXCEPT !.kind = layout[MostCommon]] = found[k]
  <2>1. found[k] \in Event
    BY DEF IInv, TypeOK
  <2>2. PICK j \in DOMAIN found :
          Key(found[j]) = Key(found[k]) /\ found[j].kind = layout[Key(found[k])]
    BY DEF Walked
  <2>3. layout[MostCommon] = found[k].kind
    BY <2>2
  <2> QED
    BY <2>1, <2>3 DEF Event
<1> QED
  BY <1>1, <1>2

(* In any case they begin where records do. *)
LEMMA KeptStarts ==
  ASSUME IInv, Walked, Keep
  PROVE  Starts(events') \subseteq Starts(bank.stored)
<1> DEFINE Kept == {j \in DOMAIN found : Key(found[j]) = MostCommon}
<1>1. events' = {[found[k] EXCEPT !.kind = layout[MostCommon]] : k \in Kept}
  BY DEF Keep
<1>2. ASSUME NEW k \in Kept
      PROVE  [found[k] EXCEPT !.kind = layout[MostCommon]].start \in Starts(bank.stored)
  <2>1. found[k] \in Event /\ found[k] \in bank.stored
    BY DEF IInv, TypeOK, Walked
  <2> QED
    BY <2>1 DEF Event, Starts
<1> QED
  BY <1>1, <1>2 DEF Starts

(* As many records have a key as were met with it. *)
LEMMA CountStored ==
  ASSUME IInv, Laid, Walked, NEW key
  PROVE  Cardinality({found[k] : k \in {j \in DOMAIN found : Key(found[j]) = key}}) = Count(key)
<1> DEFINE K == {k \in DOMAIN found : Key(found[k]) = key}
           T == {found[k] : k \in K}
           f == [k \in K |-> found[k]]
<1>1. found \in Seq(Event) /\ DOMAIN found = 1..Len(found) /\ Len(found) \in Nat
  BY DEF IInv, TypeOK
<1>2. IsFiniteSet(K)
  BY <1>1, CountType
<1>3. f \in Surjection(K, T)
  BY DEF Surjection
<1>4. ASSUME NEW j \in K, NEW k \in K, j < k
      PROVE  found[j] # found[k]
  <2>1. End(found[j]) <= found[k].start /\ bank \in Bank
    BY <1>1, <1>4 DEF IInv, TypeOK, Apart
  <2>2. found[j].start \in Nat /\ found[j].len \in Nat /\ End(found[j]) = found[j].start + found[j].len
    BY <1>1, FoundType
  <2>3. found[j].len > 2
    <3>1. found[j] \in bank.stored
      BY DEF Walked
    <3> QED
      BY <2>1, <3>1, StoredRecord DEF Laid
  <2> QED
    BY <2>1, <2>2, <2>3
<1>5. f \in Injection(K, T)
  <2>1. \A j, k \in K : j = k \/ j < k \/ k < j
    BY <1>1
  <2> QED
    BY <1>4, <2>1 DEF Injection, IsInjective
<1> HIDE DEF K, T, f
<1>6. Cardinality(T) = Cardinality(K)
  BY <1>2, <1>3, <1>5, FS_Surjection
<1> QED
  BY <1>6 DEF K, T, Count

-----------------------------------------------------------------------------
(* What is returned *)

(* All records of a regular bank have one key and are kept. *)
LEMMA KeepRegular ==
  ASSUME IInv, Laid, Walked, Keep, Regular
  PROVE  events' = bank.stored
<1>1. bank \in Bank /\ Stored /\ found \in Seq(Event) /\ found # <<>>
  BY DEF IInv, TypeOK, Laid, Walked, Keep
<1>2. {found[k] : k \in DOMAIN found} = bank.stored
  BY AllFound DEF Walked, Keep
<1>3. ASSUME NEW r \in bank.stored, NEW s \in bank.stored
      PROVE  Key(r) = Key(s) /\ r.kind = s.kind
  <2>1. /\ r = RecordAt(r.start) /\ Begun(r.start) /\ r.start \in Places
        /\ s = RecordAt(s.start) /\ Begun(s.start) /\ s.start \in Places
    BY <1>1, StoredRecord
  <2>2. SameLayout(RecordAt(r.start), RecordAt(s.start))
    BY <2>1 DEF Regular
  <2> QED
    BY <2>1, <2>2, SameLength DEF SameLayout, Key
<1>4. PICK m \in DOMAIN found : Key(found[m]) = MostCommon
  BY <1>1, MostCommonExists DEF Keys
<1>5. \A j, k \in DOMAIN found : Key(found[j]) = Key(found[k]) /\ found[j].kind = found[k].kind
  BY <1>2, <1>3
<1>6. {j \in DOMAIN found : Key(found[j]) = MostCommon} = DOMAIN found
  BY <1>4, <1>5
<1>7. events' = {found[k] : k \in {j \in DOMAIN found : Key(found[j]) = MostCommon}}
  BY <1>5, KeptFound
<1> QED
  BY <1>2, <1>6, <1>7

(* Where length tells the kind, the records of a key are those of a kind.   *)
LEMMA AlikeKey ==
  ASSUME bank \in Bank, Stored, PlainBank, KindByLength,
         NEW r \in bank.stored, NEW s \in bank.stored
  PROVE  s.kind = r.kind <=> Key(s) = Key(r)
<1>1. /\ r = RecordAt(r.start) /\ Begun(r.start) /\ r.start \in Places
      /\ s = RecordAt(s.start) /\ Begun(s.start) /\ s.start \in Places
  BY StoredRecord
<1>2. r.fmt = s.fmt
  BY <1>1 DEF PlainBank
<1>3. s.kind = r.kind => r.len = s.len
  BY <1>1, <1>2, SameLength DEF SameLayout
<1> QED
  BY <1>2, <1>3 DEF Key, KindByLength

(* The kept records of a plain bank are those of a most common kind. *)
LEMMA KeepCommon ==
  ASSUME IInv, Laid, Walked, Keep, PlainBank, KindByLength
  PROVE  \E r \in bank.stored :
           /\ events' = Alike(r)
           /\ \A s \in bank.stored : Cardinality(Alike(s)) <= Cardinality(events')
<1>1. bank \in Bank /\ Stored /\ found \in Seq(Event) /\ found # <<>>
  BY DEF IInv, TypeOK, Laid, Walked, Keep
<1>2. {found[k] : k \in DOMAIN found} = bank.stored
  BY AllFound DEF Walked, Keep
<1> DEFINE Found(key) == {found[k] : k \in {j \in DOMAIN found : Key(found[j]) = key}}
<1>3. ASSUME NEW s \in bank.stored
      PROVE  Alike(s) = Found(Key(s))
  <2>1. Found(Key(s)) = {t \in bank.stored : Key(t) = Key(s)}
    BY <1>2
  <2> QED
    BY <1>1, <2>1, AlikeKey DEF Alike
<1>4. events' = Found(MostCommon)
  <2>1. \A j, k \in DOMAIN found : Key(found[j]) = Key(found[k]) => found[j].kind = found[k].kind
    BY <1>1, <1>2, AlikeKey
  <2> QED
    BY <2>1, KeptFound
<1>5. PICK m \in DOMAIN found : Key(found[m]) = MostCommon
  BY <1>1, MostCommonExists DEF Keys
<1>6. found[m] \in bank.stored /\ events' = Alike(found[m])
  BY <1>2, <1>3, <1>4, <1>5
<1>7. ASSUME NEW s \in bank.stored
      PROVE  Cardinality(Alike(s)) <= Cardinality(events')
  <2>1. Key(s) \in Keys
    BY <1>2 DEF Keys
  <2>2. Cardinality(Found(Key(s))) = Count(Key(s)) /\ Cardinality(Found(MostCommon)) = Count(MostCommon)
    BY CountStored
  <2> HIDE DEF Found
  <2> QED
    BY <1>1, <1>3, <1>4, <2>1, <2>2, MostCommonExists
<1> QED
  BY <1>6, <1>7

(* The result of every way to the end. *)
LEMMA Result ==
  ASSUME IInv, Laid, Walked, Next, pc' = "done"
  PROVE  /\ bank.regular => events' = bank.stored
         /\ bank.plain => Starts(events') \subseteq Starts(bank.stored)
         /\ bank.plain /\ KindByLength /\ ~Strided =>
              \/ bank.stored = {} /\ events' = {}
              \/ \E r \in bank.stored :
                   /\ events' = Alike(r)
                   /\ \A s \in bank.stored : Cardinality(Alike(s)) <= Cardinality(events')
<1>1. /\ bank \in Bank /\ Stored /\ (bank.regular => Regular) /\ (bank.plain => PlainBank)
      /\ (pc # "done" => events = {})
  BY DEF IInv, TypeOK, Laid
<1>2. CASE bank.stored = {} /\ events' = {}
  BY <1>2 DEF Starts
<1>3. CASE Decode
  <2>1. CASE ~LongEnough /\ UNCHANGED events
    BY <1>1, <1>2, <1>3, <2>1, TooShort DEF Decode
  <2>2. CASE Fits /\ events' = Cut
    BY <1>1, <2>2, CutRegular, CutPlain
  <2> QED
    BY <1>3, <2>1, <2>2 DEF Decode
<1>4. CASE WalkEnds
  <2>1. ~WellFormed /\ found = <<>> /\ events' = {}
    BY <1>1, <1>4 DEF WalkEnds
  <2>2. bank.stored = {}
    BY <2>1, AllFound
  <2> QED
    BY <1>2, <2>1, <2>2
<1>5. CASE Keep
  BY <1>1, <1>5, KeepRegular, KeptStarts, KeepCommon
<1>6. ~WalkRecord
  BY DEF WalkRecord
<1> QED
  BY <1>3, <1>4, <1>5, <1>6 DEF Next, Walk

LEMMA LaidInit == ASSUME Init, Laid PROVE LaidInv
<1>1. IInv
  BY InitIInv
<1>2. Walked
  <2>1. pc = "start" /\ i = 0 /\ found = <<>> /\ bank \in Bank
    BY EventDecoderAssumption DEF Init
  <2>2. \A r \in bank.stored : ~(r.start < 0)
    BY <2>1, StoredRecord DEF Laid
  <2> QED
    BY <2>1, <2>2 DEF Walked, Places
<1>3. pc # "done"
  BY DEF Init
<1> QED
  BY <1>1, <1>2, <1>3 DEF LaidInv, Complete, NoFalseEvents, MostCommonKept

(* A bank stays as it is. *)
LEMMA LaidStays ==
  ASSUME Laid, bank' = bank
  PROVE  Laid'
<1>1. Size' = Size /\ \A n : At(n)' = At(n)
  BY DEF Size, At
<1>2. \A n : RecordAt(n)' = RecordAt(n) /\ Marked(n)' = Marked(n)
  BY <1>1 DEF RecordAt, Marked
<1>3. \A n : Begun(n)' = Begun(n) /\ Whole(n)' = Whole(n)
  BY <1>1, <1>2 DEF Begun, Whole
<1>4. Places' = Places
  BY DEF Places, End
<1>5. Stored'
  BY <1>2, <1>3, <1>4 DEF Laid, Stored, Starts, End
<1>6. bank.regular => Regular'
  BY <1>2, <1>3, <1>4 DEF Laid, Regular, SameLayout
<1>7. bank.plain => PlainBank'
  BY <1>1, <1>2, <1>3, <1>4 DEF Laid, PlainBank, End
<1> QED
  BY <1>5, <1>6, <1>7 DEF Laid

LEMMA LaidStep == LaidInv /\ [Next]_vars => LaidInv'
<1> SUFFICES ASSUME LaidInv, [Next]_vars PROVE LaidInv'
  OBVIOUS
<1>1. IInv /\ Laid /\ Walked /\ IInv'
  BY NextIInv DEF LaidInv
<1>2. bank' = bank
  BY DEF Next, Walk, Decode, WalkRecord, WalkEnds, Keep, vars
<1>3. Laid'
  BY <1>1, <1>2, LaidStays
<1>4. Walked'
  BY <1>1, WalkedStep
<1>5. Complete' /\ NoFalseEvents' /\ MostCommonKept'
  <2>1. CASE Next
    BY <1>1, <1>2, <2>1, Result
       DEF Complete, NoFalseEvents, MostCommonKept, Alike, KindByLength, Strided, Starts, Size
  <2>2. CASE UNCHANGED vars
    BY <2>2 DEF LaidInv, vars, Complete, NoFalseEvents, MostCommonKept, Alike, KindByLength, Strided,
                Starts, Size
  <2> QED
    BY <2>1, <2>2
<1> QED
  BY <1>1, <1>3, <1>4, <1>5 DEF LaidInv

-----------------------------------------------------------------------------
(* In a bank that is laid out as its fields say, the walk goes from record  *)
(* to record, and the result is what the next three theorems say.           *)
THEOREM LaidInvariance == Laid /\ Spec => []LaidInv
BY LaidInit, LaidStep, PTL DEF Spec

(* A regular bank gives all its records, each with its own waveform and MAW *)
(* trace, whatever its data words look like and wherever it ends.           *)
THEOREM RegularComplete == Laid /\ Spec => []Complete
<1>1. LaidInv => Complete
  BY DEF LaidInv
<1> QED
  BY LaidInvariance, <1>1, PTL

(* In a bank without look-alikes every event begins where a record begins,  *)
(* however the lengths are mixed.                                           *)
THEOREM PlainTruthful == Laid /\ Spec => []NoFalseEvents
<1>1. LaidInv => NoFalseEvents
  BY DEF LaidInv
<1> QED
  BY LaidInvariance, <1>1, PTL

(* Of a bank of mixed records those of a most common kind are kept, all of  *)
(* them, unless the bank can be cut by its first record's length or two     *)
(* kinds are of one length.                                                 *)
THEOREM CommonKept == Laid /\ Spec => []MostCommonKept
<1>1. LaidInv => MostCommonKept
  BY DEF LaidInv
<1> QED
  BY LaidInvariance, <1>1, PTL
=============================================================================
