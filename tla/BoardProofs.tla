----------------------------- MODULE BoardProofs -----------------------------
(***************************************************************************)
(* What a channel's settings become in the board's registers and where the *)
(* driver's transfers may reach; and, for either firmware, every number of *)
(* errors after which a board counts as failed, and any number of outages  *)
(* and faults: the invariant of the connection, and that a run records     *)
(* only with a board that is set up.                                       *)
(***************************************************************************)
EXTENDS BoardConnection, Registers, TLAPS

-----------------------------------------------------------------------------
(* Registers *)

(* Clamping gives a number of the range and leaves one of it alone. *)
LEMMA ClampRange ==
  ASSUME NEW v \in Int, NEW lo \in Int, NEW hi \in Int, lo <= hi
  PROVE  Clamp(v, lo, hi) \in lo..hi /\ (v \in lo..hi => Clamp(v, lo, hi) = v)
  BY DEF Clamp

(* _even gives an even number of the range, when the range begins with one, *)
(* and leaves such a number alone.                                          *)
LEMMA EvenRange ==
  ASSUME NEW v \in Int, NEW lo \in Int, NEW hi \in Int, lo <= hi, lo % 2 = 0
  PROVE  /\ Even(v, lo, hi) \in Evens(lo, hi)
         /\ v \in Evens(lo, hi) => Even(v, lo, hi) = v
<1> DEFINE c == Clamp(v, lo, hi)
<1>1. c \in Int /\ c >= lo /\ c <= hi /\ (v \in lo..hi => c = v)
  BY DEF Clamp
<1>2. Even(v, lo, hi) = c - (c % 2)
  BY DEF Even
<1> HIDE DEF c
<1>3. /\ c - (c % 2) \in lo..hi
      /\ (c - (c % 2)) % 2 = 0
  BY <1>1
<1> QED
  BY <1>1, <1>2, <1>3 DEF Evens

(* The mask of an even number that fits its field is the number. *)
LEMMA MaskedEven ==
  ASSUME NEW size \in {256, 1024, 4096}, NEW v \in Evens(0, size - 1)
  PROVE  Masked(v, size) = v
<1>1. v \in 0..(size - 1) /\ v % 2 = 0
  BY DEF Evens
<1>2. v % size = v
  <2>1. CASE size = 256
    BY <1>1, <2>1
  <2>2. CASE size = 1024
    BY <1>1, <2>2
  <2>3. CASE size = 4096
    BY <1>1, <2>3
  <2> QED
    BY <2>1, <2>2, <2>3
<1> QED
  BY <1>1, <1>2 DEF Masked

-----------------------------------------------------------------------------
(* Whatever numbers are entered for the trigger filter, each validated one  *)
(* can be read back whole from its bits of FIR_TRIGGER_SETUP, and validating*)
(* it again changes nothing: update_settings validates again what it        *)
(* returned before.                                                         *)
THEOREM TriggerSetupHolds ==
  ASSUME NEW pulse \in Int, NEW gap \in Int, NEW peaking \in Int
  PROVE  LET l == Even(pulse, 2, 254)
             g == Even(gap, 2, 510)
             p == Even(peaking, 2, 510)
             setup == fir_trigger_setup(l, g, p)
         IN  /\ setup % 4096 = p /\ Even(p, 2, 510) = p
             /\ (setup \div 4096) % 4096 = g /\ Even(g, 2, 510) = g
             /\ setup \div 16777216 = l /\ Even(l, 2, 254) = l
<1> DEFINE l == Even(pulse, 2, 254)
           g == Even(gap, 2, 510)
           p == Even(peaking, 2, 510)
<1>1. l \in Evens(2, 254) /\ g \in Evens(2, 510) /\ p \in Evens(2, 510)
  BY EvenRange
<1> HIDE DEF l, g, p
<1>2. l \in Evens(0, 255) /\ g \in Evens(0, 4095) /\ p \in Evens(0, 4095)
  BY <1>1 DEF Evens
<1>3. Masked(l, 256) = l /\ Masked(g, 4096) = g /\ Masked(p, 4096) = p
  BY <1>2, MaskedEven
<1>4. fir_trigger_setup(l, g, p) = l * 16777216 + g * 4096 + p
  BY <1>3 DEF fir_trigger_setup
<1>5. l \in 0..255 /\ g \in 0..4095 /\ p \in 0..4095
  BY <1>2 DEF Evens
<1>6. /\ fir_trigger_setup(l, g, p) % 4096 = p
      /\ (fir_trigger_setup(l, g, p) \div 4096) % 4096 = g
      /\ fir_trigger_setup(l, g, p) \div 16777216 = l
  <2>1. /\ l * 4096 + g \in Nat
        /\ g * 4096 + p \in Nat /\ g * 4096 + p < 16777216
    BY <1>5, SMT
  <2>2. fir_trigger_setup(l, g, p) = (l * 4096 + g) * 4096 + p
    BY <1>4, <1>5, SMT
  <2>3. /\ fir_trigger_setup(l, g, p) % 4096 = p
        /\ fir_trigger_setup(l, g, p) \div 4096 = l * 4096 + g
    <3> DEFINE hi == l * 4096 + g
    <3>1. hi \in Int /\ fir_trigger_setup(l, g, p) = hi * 4096 + p
      BY <1>5, <2>1, <2>2
    <3> HIDE DEF hi
    <3>2. (hi * 4096 + p) % 4096 = p /\ (hi * 4096 + p) \div 4096 = hi
      BY <1>5, <3>1, SMTT(40)
    <3> QED
      BY <3>1, <3>2 DEF hi
  <2>4. (l * 4096 + g) % 4096 = g
    BY <1>5
  <2>5. fir_trigger_setup(l, g, p) \div 16777216 = l
    BY <1>4, <1>5, <2>1, SMT
  <2> QED
    BY <2>3, <2>4, <2>5
<1>7. l \in Int /\ g \in Int /\ p \in Int
  BY <1>5
<1>8. Even(p, 2, 510) = p /\ Even(g, 2, 510) = g /\ Even(l, 2, 254) = l
  BY <1>1, <1>7, EvenRange
<1> QED
  BY <1>6, <1>8 DEF l, g, p

(* The same of FIR_ENERGY_SETUP, whose fields leave no spare bit: the       *)
(* longest peaking time and gap do not spill into their neighbours.         *)
THEOREM EnergySetupHolds ==
  ASSUME NEW table \in Int, NEW factor \in Int, NEW extra \in Int, NEW gap \in Int,
         NEW peaking \in Int
  PROVE  LET t == Clamp(table, 0, 3)
             f == Clamp(factor, 0, 63)
             x == Clamp(extra, 0, 3)
             g == Even(gap, 2, 510)
             p == Even(peaking, 2, 2044)
             setup == fir_energy_setup(t, f, x, g, p)
         IN  /\ setup % 4096 = p
             /\ (setup \div 4096) % 1024 = g
             /\ (setup \div 4194304) % 4 = x
             /\ (setup \div 16777216) % 64 = f
             /\ setup \div 1073741824 = t
<1> DEFINE t == Clamp(table, 0, 3)
           f == Clamp(factor, 0, 63)
           x == Clamp(extra, 0, 3)
           g == Even(gap, 2, 510)
           p == Even(peaking, 2, 2044)
<1>1. /\ t \in 0..3 /\ f \in 0..63 /\ x \in 0..3
      /\ g \in Evens(2, 510) /\ p \in Evens(2, 2044)
  <2>1. t \in 0..3 /\ f \in 0..63 /\ x \in 0..3
    BY DEF Clamp
  <2>2. g \in Evens(2, 510) /\ p \in Evens(2, 2044)
    BY EvenRange
  <2> QED
    BY <2>1, <2>2
<1> HIDE DEF t, f, x, g, p
<1>2. g \in Evens(0, 1023) /\ p \in Evens(0, 4095)
  BY <1>1 DEF Evens
<1>3. Masked(g, 1024) = g /\ Masked(p, 4096) = p
  BY <1>2, MaskedEven
<1>4. t % 4 = t /\ f % 64 = f /\ x % 4 = x
  BY <1>1
<1>5. fir_energy_setup(t, f, x, g, p)
        = t * 1073741824 + f * 16777216 + x * 4194304 + g * 4096 + p
  BY <1>3, <1>4 DEF fir_energy_setup
<1>6. g \in 0..1023 /\ p \in 0..4095
  BY <1>2 DEF Evens
<1> DEFINE setup == fir_energy_setup(t, f, x, g, p)
           top == t * 256 + f * 4 + x
<1>7. top \in Nat /\ top * 1024 + g \in Nat
  BY <1>1, <1>6
<1>8. setup = (top * 1024 + g) * 4096 + p
  BY <1>1, <1>5, <1>6, SMT
<1>9. setup % 4096 = p /\ setup \div 4096 = top * 1024 + g
  <2> DEFINE hi == top * 1024 + g
  <2>1. hi \in Int /\ setup = hi * 4096 + p
    BY <1>1, <1>6, <1>7, <1>8
  <2> HIDE DEF hi, setup
  <2>2. (hi * 4096 + p) % 4096 = p /\ (hi * 4096 + p) \div 4096 = hi
    BY <1>6, <2>1
  <2> QED
    BY <2>1, <2>2 DEF hi
<1>10. (top * 1024 + g) % 1024 = g
  <2> HIDE DEF top
  <2> QED
    BY <1>6, <1>7
<1>11. /\ setup = top * 4194304 + (g * 4096 + p)
       /\ g * 4096 + p \in Nat /\ g * 4096 + p < 4194304
  BY <1>1, <1>6, <1>7, <1>8, SMT
<1>12. setup \div 4194304 = top
  <2> HIDE DEF top, setup
  <2> QED
    BY <1>7, <1>11, SMT
<1>13. top % 4 = x
  BY <1>1
<1>14. setup \div 16777216 = t * 64 + f
  <2>1. setup = (t * 64 + f) * 16777216 + (x * 4194304 + g * 4096 + p)
    BY <1>1, <1>5, <1>6, SMT
  <2>2. /\ x * 4194304 + g * 4096 + p \in Nat
        /\ x * 4194304 + g * 4096 + p < 16777216
    BY <1>1, <1>6, SMT
  <2> HIDE DEF setup
  <2> QED
    BY <1>1, <2>1, <2>2, SMT
<1>15. (t * 64 + f) % 64 = f
  BY <1>1
<1>16. setup \div 1073741824 = t
  <2>1. setup = t * 1073741824 + (f * 16777216 + x * 4194304 + g * 4096 + p)
    BY <1>1, <1>5, <1>6, SMT
  <2>2. /\ f * 16777216 + x * 4194304 + g * 4096 + p \in Nat
        /\ f * 16777216 + x * 4194304 + g * 4096 + p < 1073741824
    BY <1>1, <1>6, SMT
  <2> HIDE DEF setup
  <2> QED
    BY <1>1, <2>1, <2>2, SMT
<1> QED
  BY <1>9, <1>10, <1>12, <1>13, <1>14, <1>15, <1>16 DEF t, f, x, g, p

-----------------------------------------------------------------------------
(* The 28 bits hold 2^27 plus the trapezoid's threshold as long as the      *)
(* threshold times the peaking time is below 2^27.                          *)
THEOREM ThresholdHeld ==
  ASSUME NEW threshold \in Nat, NEW peaking \in Evens(2, 510),
         threshold * peaking < 134217728
  PROVE  thr(threshold, peaking) - 134217728 = threshold * peaking
<1>1. peaking \in Evens(0, 4095) /\ peaking \in 2..510
  BY DEF Evens
<1>2. Summed(Masked(peaking, 4096)) = peaking
  BY <1>1, MaskedEven DEF Summed
<1> DEFINE product == threshold * peaking
<1>3. product \in Nat /\ product < 134217728
  BY <1>1
<1>4. thr(threshold, peaking) = (134217728 + product) % 268435456
  BY <1>2 DEF thr
<1> HIDE DEF product
<1>5. thr(threshold, peaking) = 134217728 + product
  BY <1>3, <1>4
<1> QED
  BY <1>3, <1>5 DEF product

(* Above that it wraps, and validate() lets such thresholds pass: the       *)
(* largest one it accepts, with the longest peaking time, ends up 510 below *)
(* the baseline, where the channel triggers all the time.                   *)
THEOREM ThresholdWraps ==
  /\ Clamp(134217727, 0, 134217727) = 134217727 /\ Even(510, 2, 510) = 510
  /\ thr(134217727, 510) + 510 = 134217728
  BY DEF Clamp, Even, thr, Summed, Masked

-----------------------------------------------------------------------------
(* The four channels of a group share one data transfer logic. Their banks, *)
(* histograms included, lie apart in its memory, within the 30 bits of a    *)
(* transfer's address and below the space of the statistic counters: no     *)
(* transfer of one bank reaches another.                                    *)
THEOREM BanksApart ==
  ASSUME NEW c \in Channels, NEW d \in Channels, c \div 4 = d \div 4,
         NEW p \in BOOLEAN, NEW q \in BOOLEAN, c # d \/ p # q
  PROVE  /\ \/ memory_offset(c, p) + BankWords <= memory_offset(d, q)
            \/ memory_offset(d, q) + BankWords <= memory_offset(c, p)
         /\ memory_offset(c, p) + BankWords <= STATISTIC_COUNTER_SPACE
         /\ memory_offset(c, p) + BankWords <= 1073741824
<1>1. c \in Int /\ d \in Int /\ c \in 0..15 /\ d \in 0..15
  BY DEF Channels
<1>2. c # d => c % 2 # d % 2 \/ (c \div 2) % 2 # (d \div 2) % 2
  BY <1>1
<1>3. /\ c % 2 \in 0..1 /\ d % 2 \in 0..1
      /\ (c \div 2) % 2 \in 0..1 /\ (d \div 2) % 2 \in 0..1
  BY <1>1
<1> QED
  BY <1>2, <1>3 DEF memory_offset, BankWords, STATISTIC_COUNTER_SPACE

(* The histogram ends with its channel's bank, and begins behind the        *)
(* largest threshold at which a bank is swapped early.                      *)
THEOREM HistogramBehindEvents ==
  ASSUME NEW bank_threshold_words \in Int
  PROVE  /\ HISTOGRAM_MEMORY_OFFSET + HISTOGRAM_BINS = BankWords
         /\ Clamp(bank_threshold_words, 1024, 16646144) < HISTOGRAM_MEMORY_OFFSET
  BY DEF HISTOGRAM_MEMORY_OFFSET, HISTOGRAM_BINS, BankWords, Clamp

(* With the strides in use, no two channels share a register of a kind.     *)
THEOREM RegistersApart ==
  ASSUME NEW addr \in Nat, NEW stride \in {4, 16}, NEW c \in Channels, NEW d \in Channels,
         chan_reg(addr, c, stride) = chan_reg(addr, d, stride)
  PROVE  c = d
<1>1. c \in Int /\ d \in Int /\ c \in 0..15 /\ d \in 0..15
  BY DEF Channels
<1>2. 4096 * (c \div 4) + stride * (c % 4) = 4096 * (d \div 4) + stride * (d % 4)
  BY <1>1 DEF chan_reg
<1>3. c \div 4 = d \div 4 /\ c % 4 = d % 4
  <2>1. CASE stride = 4
    BY <1>1, <1>2, <2>1
  <2>2. CASE stride = 16
    BY <1>1, <1>2, <2>2
  <2> QED
    BY <2>1, <2>2
<1> QED
  BY <1>1, <1>3

-----------------------------------------------------------------------------
(* The connection *)

USE DEF board, link, run, health, bounds

-----------------------------------------------------------------------------
(* The invariant starts to hold. *)
LEMMA InitIInv == Init => IInv
<1> SUFFICES ASSUME Init PROVE IInv
  OBVIOUS
<1>1. Counts
  BY BoardConnectionAssumption DEF Init, Counts
<1>2. TypeOK
  BY <1>1, BoardConnectionAssumption DEF Init, TypeOK
<1>3. Understood /\ Stages /\ Connected /\ Powered /\ OnlyConfigured
  BY DEF Init, Understood, Stages, Connected, Powered, OnlyConfigured, Serves
<1> QED
  BY <1>2, <1>3 DEF IInv

(* A failure is counted within its bound, if it is a fault at all. *)
LEMMA FailsFaults ==
  ASSUME TypeOK, NEW P, Fails(P)
  PROVE  faults' \in 0..MaxFaults
  BY BoardConnectionAssumption DEF TypeOK, Counts, Fails, Fault

(* A fault is one of the bounded number. *)
LEMMA FaultFaults ==
  ASSUME TypeOK, Fault
  PROVE  faults' \in 0..MaxFaults
  BY BoardConnectionAssumption DEF TypeOK, Counts, Fault

(* An operation that raises leaves everything else as it is. *)
LEMMA RaiseIInv ==
  ASSUME IInv, faults' \in 0..MaxFaults, Raise, UNCHANGED link
  PROVE  IInv'
<1>1. Counts' /\ TypeOK'
  BY DEF IInv, TypeOK, Counts, Raise, Done
<1>2. Understood' /\ Stages'
  BY DEF IInv, Understood, Stages, Raise, Done
<1>3. Connected' /\ Powered' /\ OnlyConfigured'
  BY DEF IInv, Connected, Powered, OnlyConfigured, Serves, Raise, Done
<1> QED
  BY <1>1, <1>2, <1>3 DEF IInv

(* A loss of power takes the grant and the set-up with it. *)
LEMMA PowerIInv ==
  ASSUME IInv, Power
  PROVE  IInv'
<1>1. Counts'
  BY BoardConnectionAssumption DEF IInv, TypeOK, Counts, Power, PowerOff, PowerOn
<1>2. TypeOK'
  BY <1>1 DEF IInv, TypeOK, Power, PowerOff, PowerOn
<1>3. Understood' /\ Stages' /\ Connected' /\ Powered' /\ OnlyConfigured'
  BY DEF IInv, Understood, Stages, Connected, Powered, OnlyConfigured, Serves, Power, PowerOff,
         PowerOn
<1> QED
  BY <1>2, <1>3 DEF IInv

-----------------------------------------------------------------------------
(* Opening a board gives it the grant only where it is set up next, or no  *)
(* reader uses it.                                                          *)
LEMMA OpensIInv ==
  ASSUME IInv, Opens
  PROVE  IInv'
<1> USE DEF Goto, Done, Ops, Steps
<1>1. CASE Bind
  <2>1. CASE ~socket /\ Fault /\ Raise /\ UNCHANGED link
    BY <2>1, FaultFaults, RaiseIInv DEF IInv
  <2>2. CASE /\ socket' = TRUE /\ Goto(IF socket THEN "request" ELSE "detect")
             /\ UNCHANGED <<firmware, board, packet_id_mode, info, run, health, bounds>>
    <3>1. Counts'
      BY <2>2 DEF IInv, TypeOK, Counts
    <3>2. TypeOK'
      BY <2>2, <3>1 DEF IInv, TypeOK
    <3>3. Understood' /\ Stages'
      BY <1>1, <2>2 DEF Bind, IInv, Understood, Stages
    <3>4. Connected' /\ Powered' /\ OnlyConfigured'
      BY <1>1, <2>2 DEF Bind, IInv, TypeOK, Ops, Stages, Connected, Powered, OnlyConfigured, Serves
    <3> QED
      BY <3>2, <3>3, <3>4 DEF IInv
  <2> QED
    BY <1>1, <2>1, <2>2 DEF Bind
<1>2. CASE Detect
  <2>1. CASE Fails(on) /\ Raise /\ UNCHANGED link
    BY <2>1, FailsFaults, RaiseIInv DEF IInv
  <2>2. CASE /\ on /\ packet_id_mode' = firmware /\ Goto("request")
             /\ UNCHANGED <<firmware, board, socket, info, run, health, bounds>>
    <3>1. Counts' /\ TypeOK'
      BY <2>2, BoardConnectionAssumption DEF IInv, TypeOK, Counts
    <3>2. Understood' /\ Stages'
      BY <1>2, <2>2 DEF Detect, IInv, Understood, Stages
    <3>3. Connected' /\ Powered' /\ OnlyConfigured'
      BY <1>2, <2>2 DEF Detect, IInv, Understood, Stages, Connected, Powered, OnlyConfigured, Serves
    <3> QED
      BY <3>1, <3>2, <3>3 DEF IInv
  <2> QED
    BY <1>2, <2>1, <2>2 DEF Detect
<1>3. CASE RequestGrant
  <2>1. faults' \in 0..MaxFaults
    BY <1>3, FailsFaults DEF RequestGrant, IInv, TypeOK, Counts
  <2>2. Counts' /\ TypeOK'
    <3>1. Counts'
      BY <1>3, <2>1 DEF RequestGrant, IInv, TypeOK, Counts
    <3> QED
      BY <1>3, <3>1, ZenonT(30) DEF RequestGrant, IInv, TypeOK
  <2>3. Understood' /\ Stages'
    BY <1>3 DEF RequestGrant, IInv, Understood, Stages
  <2>4. Connected' /\ Powered' /\ OnlyConfigured'
    BY <1>3 DEF RequestGrant, IInv, TypeOK, Stages, Connected, Powered, OnlyConfigured, Serves
  <2> QED
    BY <2>2, <2>3, <2>4 DEF IInv
<1>4. CASE CheckGrant
  <2>1. CASE Fails(Serves) /\ Raise
    BY <1>4, <2>1, FailsFaults, RaiseIInv DEF IInv, CheckGrant
  <2>2. CASE /\ Serves /\ Goto("identify")
             /\ UNCHANGED <<firmware, board, link, info, run, health, bounds>>
    <3>1. Counts' /\ TypeOK'
      BY <2>2 DEF IInv, TypeOK, Counts
    <3>2. Understood' /\ Stages'
      BY <1>4, <2>2 DEF CheckGrant, IInv, Understood, Stages, Serves
    <3>3. Connected' /\ Powered' /\ OnlyConfigured'
      BY <1>4, <2>2 DEF CheckGrant, IInv, Connected, Powered, OnlyConfigured, Serves
    <3> QED
      BY <3>1, <3>2, <3>3 DEF IInv
  <2> QED
    BY <1>4, <2>1, <2>2 DEF CheckGrant
<1>5. CASE Identify
  <2>1. CASE Fails(Serves) /\ Raise
    BY <1>5, <2>1, FailsFaults, RaiseIInv DEF IInv, Identify
  <2>2. CASE /\ Serves /\ info' = TRUE
             /\ IF op = "user" THEN Done ELSE Goto("initialize")
             /\ UNCHANGED <<firmware, board, link, run, health, bounds>>
    <3>1. Counts' /\ TypeOK'
      BY <2>2 DEF IInv, TypeOK, Counts
    <3>2. Understood' /\ Stages'
      BY <1>5, <2>2 DEF Identify, IInv, Understood, Stages, Serves
    <3>3. Connected' /\ Powered' /\ OnlyConfigured'
      BY <1>5, <2>2 DEF Identify, IInv, Connected, Powered, OnlyConfigured, Serves
    <3> QED
      BY <3>1, <3>2, <3>3 DEF IInv
  <2> QED
    BY <1>5, <2>1, <2>2 DEF Identify
<1> QED
  BY <1>1, <1>2, <1>3, <1>4, <1>5 DEF Opens

(* The set-up makes a granted board one to record with. *)
LEMMA InitializeIInv ==
  ASSUME IInv, Initialize
  PROVE  IInv'
<1>1. CASE Fails(Serves) /\ Raise
  BY <1>1, FailsFaults, RaiseIInv DEF IInv, Initialize
<1>2. CASE /\ Serves /\ configured' = TRUE /\ Goto("arm")
           /\ UNCHANGED <<firmware, on, grant, link, info, run, health, bounds>>
  <2>1. Counts' /\ TypeOK'
    BY <1>2 DEF IInv, TypeOK, Counts, Goto, Steps
  <2>2. Understood' /\ Stages'
    BY <1>2 DEF Initialize, IInv, Understood, Stages, Goto, Steps
  <2>3. Connected' /\ Powered' /\ OnlyConfigured'
    BY <1>2 DEF Initialize, IInv, Connected, Powered, OnlyConfigured, Serves, Goto
  <2> QED
    BY <2>1, <2>2, <2>3 DEF IInv
<1> QED
  BY <1>1, <1>2 DEF Initialize

(* The board that is armed was set up and has not lost its power since. *)
LEMMA ArmIInv ==
  ASSUME IInv, Arm
  PROVE  IInv'
<1>1. CASE Fails(Serves) /\ Raise
  BY <1>1, FailsFaults, RaiseIInv DEF IInv, Arm
<1>2. CASE /\ Serves /\ Done
           /\ failed' = FALSE /\ consecutive_errors' = 0
           /\ running' = (running \/ op = "start") /\ reader' = TRUE
           /\ UNCHANGED <<firmware, board, link, info, bounds>>
  <2>1. Counts'
    BY <1>2, BoardConnectionAssumption DEF IInv, TypeOK, Counts
  <2>2. TypeOK'
    BY <1>2, <2>1 DEF IInv, TypeOK, Done
  <2>3. Understood' /\ Stages'
    BY <1>2 DEF IInv, Understood, Stages, Done
  <2>4. Connected' /\ Powered' /\ OnlyConfigured'
    BY <1>2 DEF Arm, IInv, Stages, Connected, Powered, OnlyConfigured, Serves, Done
  <2> QED
    BY <2>2, <2>3, <2>4 DEF IInv
<1> QED
  BY <1>1, <1>2 DEF Arm

(* Closing takes the socket from nobody who uses it. *)
LEMMA CloseDeviceIInv ==
  ASSUME IInv, CloseDevice
  PROVE  IInv'
<1> USE DEF Goto, Done, CloseSocket, Reopen
<1>1. faults' \in 0..MaxFaults
  BY FaultFaults DEF CloseDevice, IInv, TypeOK, Counts
<1>2. Counts' /\ TypeOK'
  BY <1>1, ZenonT(30) DEF CloseDevice, IInv, TypeOK, Counts, Steps, Ops
<1>3. Understood' /\ Stages'
  BY DEF CloseDevice, IInv, Understood, Stages, Steps
<1>4. Connected' /\ Powered' /\ OnlyConfigured'
  BY DEF CloseDevice, IInv, TypeOK, Ops, Stages, Connected, Powered, OnlyConfigured, Serves
<1> QED
  BY <1>2, <1>3, <1>4 DEF IInv

-----------------------------------------------------------------------------
(* Whoever takes the lock starts where the invariant allows it. *)
LEMMA CallersIInv ==
  ASSUME IInv, UserCall \/ Control \/ Recover
  PROVE  IInv'
<1> USE DEF UserCall, Control, Start, Stop, Close, Recover, Lock, Free, NeedsOpen
<1>1. Counts' /\ TypeOK'
  <2>1. Counts'
    BY DEF IInv, TypeOK, Counts
  <2>2. CASE Stop
    BY <2>1, <2>2, ZenonT(30) DEF IInv, TypeOK
  <2>3. CASE UserCall \/ Start \/ Close \/ Recover
    <3>1. op' \in Ops /\ at' \in Steps
      BY <2>3 DEF Ops, Steps
    <3> QED
      BY <2>1, <2>3, <3>1 DEF IInv, TypeOK
  <2> QED
    BY <2>2, <2>3
<1>2. Understood' /\ Stages'
  BY DEF IInv, TypeOK, Understood, Stages, Connected, Steps
<1>3. Connected' /\ Powered' /\ OnlyConfigured'
  BY DEF IInv, Connected, Powered, OnlyConfigured, Serves
<1> QED
  BY <1>1, <1>2, <1>3 DEF IInv

(* A cycle changes only the reader and its errors. *)
LEMMA CycleIInv ==
  ASSUME IInv, CycleGood \/ CycleFails \/ LeaveFailed
  PROVE  IInv'
<1>1. Counts'
  <2>1. CASE CycleFails
    <3>1. faults' \in 0..MaxFaults
      BY <2>1, FailsFaults DEF IInv, CycleFails
    <3>2. consecutive_errors' = consecutive_errors + 1 /\ outages' = outages /\ ~failed
      BY <2>1 DEF CycleFails
    <3>3. consecutive_errors' \in 0..FailedAfter
      BY <3>2, BoardConnectionAssumption DEF IInv, TypeOK, Counts
    <3>4. CASE consecutive_errors' >= FailedAfter
      <4>1. failed' = TRUE
        BY <2>1, <3>4 DEF CycleFails
      <4> QED
        BY <3>1, <3>2, <3>3, <4>1 DEF IInv, TypeOK, Counts
    <3>5. CASE ~(consecutive_errors' >= FailedAfter)
      BY <3>1, <3>2, <3>3, <3>5, BoardConnectionAssumption DEF IInv, TypeOK, Counts
    <3> QED
      BY <3>4, <3>5
  <2>2. CASE CycleGood \/ LeaveFailed
    BY <2>2, BoardConnectionAssumption DEF CycleGood, LeaveFailed, IInv, TypeOK, Counts
  <2> QED
    BY <2>1, <2>2
<1>2. TypeOK'
  <2>1. CASE CycleFails
    <3>1. failed' \in BOOLEAN
      BY <2>1 DEF CycleFails, IInv, TypeOK
    <3> QED
      BY <1>1, <2>1, <3>1 DEF CycleFails, IInv, TypeOK
  <2>2. CASE CycleGood \/ LeaveFailed
    BY <1>1, <2>2 DEF CycleGood, LeaveFailed, IInv, TypeOK
  <2> QED
    BY <2>1, <2>2
<1>3. Understood' /\ Stages'
  BY DEF CycleGood, CycleFails, LeaveFailed, IInv, Understood, Stages, Free
<1>4. Connected' /\ Powered' /\ OnlyConfigured'
  BY DEF CycleGood, CycleFails, LeaveFailed, IInv, Connected, Powered, OnlyConfigured, Serves, Free
<1> QED
  BY <1>2, <1>3, <1>4 DEF IInv

(* Every step preserves the invariant. *)
LEMMA NextIInv == IInv /\ [Next]_vars => IInv'
<1> SUFFICES ASSUME IInv, [Next]_vars PROVE IInv'
  OBVIOUS
<1>1. CASE UNCHANGED vars
  BY <1>1 DEF vars, IInv, TypeOK, Counts, Understood, Stages, Connected, Powered, OnlyConfigured, Serves
<1> QED
  BY <1>1, PowerIInv, OpensIInv, InitializeIInv, ArmIInv, CloseDeviceIInv, CallersIInv, CycleIInv
  DEF Next, Access, Reader

-----------------------------------------------------------------------------
(* An identified board is spoken to in its own protocol, a reader in use   *)
(* has a socket, and the rest of what daq.py and board.py rely on.          *)
THEOREM Invariance == Spec => []IInv
  BY InitIInv, NextIInv, PTL DEF Spec

(* No bank is read from a board that lost its set-up, however the outages, *)
(* the recoveries and the calls of the user fall together (daq.py:295-333). *)
THEOREM RecordsConfigured == Spec => []OnlyConfigured
<1>1. IInv => OnlyConfigured
  BY DEF IInv
<1> QED
  BY Invariance, <1>1, PTL
=============================================================================
