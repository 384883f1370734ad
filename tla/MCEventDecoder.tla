--------------------------- MODULE MCEventDecoder ---------------------------
(***************************************************************************)
(* Banks for EventDecoder: up to MaxRecords records of one format with     *)
(* differing numbers of raw and MAW words, filled with harmless words or   *)
(* with words that look like markers, and then nothing, the beginning of   *)
(* another record, or left-over words.                                     *)
(***************************************************************************)
EXTENDS EventDecoder, SequencesExt

CONSTANTS Formats, Raws, MaxRecords, MaxLeftOver

Plain == [fmt |-> 0, e |-> FALSE, maw |-> FALSE, raw |-> 0]
LooksLikeMarker == [fmt |-> 0, e |-> TRUE, maw |-> FALSE, raw |-> 0]

Layout == [raw : Raws, maw : BOOLEAN]

LengthOf(f, l) == header_words(f) + 1 + l.raw + (IF l.maw THEN MawWords ELSE 0)

(* a record as the board stores it *)
RecordOf(f, l, fill) ==
  [n \in 1..LengthOf(f, l) |->
     IF n = 1 THEN [fill EXCEPT !.fmt = f]
     ELSE IF n = header_words(f) + 1
       THEN [fmt |-> l.raw % 16, e |-> TRUE, maw |-> l.maw, raw |-> l.raw]
     ELSE fill]

WordsOf(f, layouts, fill) ==
  FlattenSeq([k \in DOMAIN layouts |-> RecordOf(f, layouts[k], fill)])

StoredOf(f, layouts) ==
  {[start |-> Len(WordsOf(f, SubSeq(layouts, 1, k - 1), Plain)), fmt |-> f,
      len |-> LengthOf(f, layouts[k]),
      kind |-> [hdr |-> header_words(f), raw |-> layouts[k].raw,
                maw |-> IF layouts[k].maw THEN MawWords ELSE 0]]
     : k \in DOMAIN layouts}

(* What may follow the complete records. Two words that look like markers   *)
(* are too few for a record; three of them would be one.                    *)
Tails(f, layouts, fill) ==
  {[n \in 1..m |-> Plain] : m \in 0..MaxLeftOver} \union
  {[n \in 1..m |-> fill] : m \in 1..2} \union
  (IF layouts = <<>> THEN {}
   ELSE {SubSeq(RecordOf(f, Last(layouts), fill), 1, m) : m \in 1..(LengthOf(f, Last(layouts)) - 1)})

BankOf(f, layouts, fill, tail) ==
  [words |-> WordsOf(f, layouts, fill) \o tail, stored |-> StoredOf(f, layouts),
   regular |-> \A k, l \in DOMAIN layouts : layouts[k] = layouts[l],
   plain |-> fill = Plain]

MCBanks ==
  UNION {UNION {{BankOf(f, layouts, fill, tail) : tail \in Tails(f, layouts, fill)}
                : layouts \in BoundedSeq(Layout, MaxRecords)}
         : f \in Formats, fill \in {Plain, LooksLikeMarker}}
=============================================================================
