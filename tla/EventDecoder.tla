---------------------------- MODULE EventDecoder ----------------------------
(***************************************************************************)
(* decode_bank: from the words of a channel's bank to its events. A bank   *)
(* of equal records is cut at once; any other is walked record by record   *)
(* up to the first malformed one, and the most common kind of record is    *)
(* kept (events.py:16-19).                                                 *)
(*                                                                         *)
(* Of a word we keep what the decoder can read in it at any place: the     *)
(* format bits of a first word and the fields of a marker. Which events    *)
(* come out is told by where in the bank each of them starts and by how    *)
(* many words of waveform and of MAW trace it is given.                    *)
(***************************************************************************)
EXTENDS Integers, Sequences, FiniteSets

CONSTANTS
  MawWords,   \* maw_words
  Banks       \* the banks to decode

Word == [fmt : 0..15, e : BOOLEAN, maw : BOOLEAN, raw : Nat]

Kind == [hdr : Nat, raw : Nat, maw : Nat]

Event == [start : Nat, fmt : 0..15, len : Nat, kind : Kind]

(* words: the bank; stored: the records the board put there, complete ones  *)
(* only; regular: they are all alike; plain: no other word of the bank     *)
(* looks like a marker                                                     *)
Bank == [words : Seq(Word), stored : SUBSET Event, regular : BOOLEAN, plain : BOOLEAN]

ASSUME EventDecoderAssumption == MawWords \in Nat /\ Banks \subseteq Bank

VARIABLES
  bank,      \* the argument
  pc,        \* "start", "walk", "keep" or "done"
  i,         \* _walk: first word of the next record
  found,     \* _walk: the records in the order of the bank
  layout,    \* _walk: of each key, the parts of its last record
  events     \* the rows of the result; the fields, waveforms and traces share them

walk == <<i, found, layout>>
vars == <<bank, pc, walk, events>>

Size == Len(bank.words)

At(n) == bank.words[n + 1]

-----------------------------------------------------------------------------
(* The layout of a record *)

Bit(f, k) == (f \div k) % 2

(* words before the marker *)
header_words(f) == 2 + 7 * Bit(f, 1) + 2 * Bit(f, 2) + 3 * Bit(f, 4) + 2 * Bit(f, 8)

(* the record that starts at word n, read with the marker where its format  *)
(* bits say it is                                                           *)
RecordAt(n) ==
  LET fmt == At(n).fmt
      hdr == header_words(fmt)
      marker == At(n + hdr)
      maw == IF marker.maw THEN MawWords ELSE 0
  IN [start |-> n, fmt |-> fmt, len |-> hdr + 1 + marker.raw + maw,
      kind |-> [hdr |-> hdr, raw |-> marker.raw, maw |-> maw]]

(* the marker is in the bank, and is one *)
Marked(n) == n + header_words(At(n).fmt) < Size /\ At(n + header_words(At(n).fmt)).e

-----------------------------------------------------------------------------
(* decode_bank *)

(* there can be a record *)
LongEnough == Size >= 3 /\ Size > header_words(At(0).fmt)

(* mutant: the markers of the further records are not looked at *)
DividesOnly == LongEnough /\ Marked(0) /\ Size % RecordAt(0).len = 0

(* every record as long as the first, with the same format and a marker *)
Fits ==
  /\ LongEnough /\ Marked(0)
  /\ LET first == RecordAt(0) IN
       /\ Size % first.len = 0
       /\ \A k \in 0..(Size \div first.len - 1) :
            /\ At(k * first.len + first.kind.hdr).e
            /\ At(k * first.len).fmt = first.fmt

(* mutant: the rows are counted from one *)
CutFromOne ==
  LET first == RecordAt(0) IN
    {[first EXCEPT !.start = (k - 1) * first.len] : k \in 0..(Size \div first.len - 1)}

(* the rows of an array: all are taken for the kind of the first *)
Cut ==
  LET first == RecordAt(0) IN
    {[first EXCEPT !.start = k * first.len] : k \in 0..(Size \div first.len - 1)}

Decode ==
  /\ pc = "start"
  /\ \/ ~LongEnough /\ pc' = "done" /\ UNCHANGED events
     \/ Fits /\ events' = Cut /\ pc' = "done"
     \/ LongEnough /\ ~Fits /\ pc' = "walk" /\ UNCHANGED events
  /\ UNCHANGED <<bank, walk>>

-----------------------------------------------------------------------------
(* _walk *)

(* a record begins at word n, though the bank may end before it does *)
Begun(n) == n + 3 <= Size /\ Marked(n)

Whole(n) == Begun(n) /\ n + RecordAt(n).len <= Size

(* mutant: the end of the record is not checked *)
MarkedOnly == Begun(i)

WellFormed == Whole(i)

(* the key of the dictionaries *)
Key(r) == <<r.fmt, r.len>>

WalkRecord ==
  /\ pc = "walk" /\ WellFormed
  /\ LET r == RecordAt(i) IN
       /\ found' = Append(found, r)
       /\ layout' = [key \in DOMAIN layout \union {Key(r)} |->
                       IF key = Key(r) THEN r.kind ELSE layout[key]]
       /\ i' = i + r.len
  /\ UNCHANGED <<bank, pc, events>>

(* break *)
WalkEnds ==
  /\ pc = "walk" /\ ~WellFormed
  /\ pc' = IF found = <<>> THEN "done" ELSE "keep"
  /\ UNCHANGED <<bank, walk, events>>

Keys == {Key(found[k]) : k \in DOMAIN found}

Count(key) == Cardinality({k \in DOMAIN found : Key(found[k]) = key})

FirstOf(key) == CHOOSE k \in DOMAIN found : Key(found[k]) = key /\ \A j \in 1..(k - 1) : Key(found[j]) # key

(* mutant: the record kind met first is kept *)
FirstKey == Key(found[1])

(* the most common one, and of equally common ones the first *)
MostCommon ==
  CHOOSE key \in Keys : \A other \in Keys :
    \/ Count(other) < Count(key)
    \/ Count(other) = Count(key) /\ FirstOf(key) <= FirstOf(other)

(* all records of the key are taken for the kind of its last one *)
Keep ==
  /\ pc = "keep"
  /\ LET key == MostCommon IN
       events' = {[found[k] EXCEPT !.kind = layout[key]] : k \in {j \in DOMAIN found : Key(found[j]) = key}}
  /\ pc' = "done"
  /\ UNCHANGED <<bank, walk>>

-----------------------------------------------------------------------------
Init ==
  /\ bank \in Banks
  /\ pc = "start" /\ i = 0 /\ found = <<>> /\ events = {}
  /\ layout = [key \in {} |-> 0]

Walk == WalkRecord \/ WalkEnds \/ Keep

Next == Decode \/ Walk

Spec == Init /\ [][Next]_vars

-----------------------------------------------------------------------------
TypeOK ==
  /\ bank \in Bank /\ pc \in {"start", "walk", "keep", "done"}
  /\ i \in Nat /\ found \in Seq(Event) /\ events \subseteq Event
  /\ layout \in [Keys -> Kind]

End(r) == r.start + r.len

(* Whatever words the bank holds, the events are separate pieces of it, and *)
(* so are the records that the walk has met.                                *)
Apart ==
  /\ \A r, s \in events : r = s \/ End(r) <= s.start \/ End(s) <= r.start
  /\ \A r \in events : End(r) <= Size
  /\ i <= Size
  /\ \A l \in DOMAIN found :
       End(found[l]) <= i /\ \A k \in 1..(l - 1) : End(found[k]) <= found[l].start

Starts(s) == {r.start : r \in s}

(* What the fields of a bank mean. The records are stored one after the     *)
(* other from its first word on; what follows the last one is no whole      *)
(* record, but the bank may end within one.                                 *)
Places == {0} \union {End(r) : r \in bank.stored}

Stored ==
  /\ \A r \in bank.stored : r.start \in Places /\ Whole(r.start) /\ r = RecordAt(r.start)
  /\ \A r, s \in bank.stored : r = s \/ End(r) <= s.start \/ End(s) <= r.start
  /\ \A n \in Places : Whole(n) => n \in Starts(bank.stored)

SameLayout(r, s) == r.fmt = s.fmt /\ r.kind = s.kind

Regular == \A n, m \in Places : Begun(n) /\ Begun(m) => SameLayout(RecordAt(n), RecordAt(m))

(* All records of a channel have one format. One that is cut off is taken   *)
(* for as long as the last: else the beginning of a longer record can pass  *)
(* for a whole one of the first's length.                                   *)
PlainBank ==
  /\ \A n \in 0..(Size - 1) :
       At(n).e => \E m \in Places : Begun(m) /\ n = m + RecordAt(m).kind.hdr
  /\ \A n, m \in Places : Begun(n) /\ Begun(m) => RecordAt(n).fmt = RecordAt(m).fmt
  /\ \A r \in bank.stored : Begun(End(r)) /\ ~Whole(End(r)) => RecordAt(End(r)).kind = r.kind

Laid == Stored /\ (bank.regular => Regular) /\ (bank.plain => PlainBank)

(* A bank of records that are all alike gives all of them, each with its    *)
(* own waveform and MAW trace: also when data words look like markers, when *)
(* the bank ends within a record, or when something else follows.           *)
Complete == pc = "done" /\ bank.regular => events = bank.stored

(* However the lengths are mixed, and whatever follows the records: without *)
(* look-alikes every event starts where a record starts.                    *)
NoFalseEvents == pc = "done" /\ bank.plain => Starts(events) \subseteq Starts(bank.stored)

(* The bank can be cut into records as long as its first. *)
Strided ==
  \E first \in bank.stored :
    /\ first.start = 0 /\ Size % first.len = 0
    /\ \A k \in 0..(Size \div first.len - 1) : k * first.len \in Starts(bank.stored)

(* records of equal length have equal parts *)
KindByLength == \A r, s \in bank.stored : r.len = s.len => r.kind = s.kind

Alike(r) == {s \in bank.stored : s.kind = r.kind}

(* events.py:19, "keeps the most common record layout": for a bank of mixed *)
(* records, none of another kind being more common. Two cases are excepted: *)
(* a mixture that can be cut by the length of its first record, and kinds   *)
(* of equal length.                                                         *)
MostCommonKept ==
  pc = "done" /\ bank.plain /\ KindByLength /\ ~Strided =>
    \/ bank.stored = {} /\ events = {}
    \/ \E r \in bank.stored :
         /\ events = Alike(r)
         /\ \A s \in bank.stored : Cardinality(Alike(s)) <= Cardinality(events)

-----------------------------------------------------------------------------
(* The invariant by which Apart is proved, for any words *)
IInv ==
  /\ TypeOK /\ Apart
  /\ pc # "done" => events = {}
  /\ pc = "start" => i = 0 /\ found = <<>>

(* and the one for the last three properties: in a bank that is laid out as *)
(* its fields say, the walk goes from record to record and has met all that *)
(* begin before the word at which it is.                                    *)
Walked ==
  /\ i \in Places
  /\ {found[k] : k \in DOMAIN found} = {r \in bank.stored : r.start < i}
  /\ \A k \in DOMAIN found : \E j \in DOMAIN found :
       Key(found[j]) = Key(found[k]) /\ found[j].kind = layout[Key(found[k])]
  /\ pc = "keep" => found # <<>> /\ ~WellFormed

LaidInv == IInv /\ Laid /\ Walked /\ Complete /\ NoFalseEvents /\ MostCommonKept
=============================================================================
