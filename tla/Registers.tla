------------------------------ MODULE Registers ------------------------------
(***************************************************************************)
(* Arithmetic of the settings and of the registers they end up in: how     *)
(* validate() clamps a number, what configure() keeps of it in the bits of *)
(* a register, and where channels and banks lie in the board's memory.     *)
(* Fields of a register are added, as they share no bit.                   *)
(***************************************************************************)
EXTENDS Integers

-----------------------------------------------------------------------------
(* settings.validate *)

Clamp(v, lo, hi) == IF v < lo THEN lo ELSE IF v > hi THEN hi ELSE v

(* _even *)
Even(v, lo, hi) == Clamp(v, lo, hi) - (Clamp(v, lo, hi) % 2)

Evens(lo, hi) == {v \in lo..hi : v % 2 = 0}

-----------------------------------------------------------------------------
(* Sis3316.configure *)

(* v & (size - 2) *)
Masked(v, size) == (v % size) - (v % 2)

fir_energy_setup(tau_table, tau_factor, energy_extra_filter, energy_gap, energy_peaking) ==
  (tau_table % 4) * 1073741824 + (tau_factor % 64) * 16777216
  + (energy_extra_filter % 4) * 4194304
  + Masked(energy_gap, 1024) * 4096 + Masked(energy_peaking, 4096)

fir_trigger_setup(trigger_pulse_length, trigger_gap, trigger_peaking) ==
  Masked(trigger_pulse_length, 256) * 16777216
  + Masked(trigger_gap, 4096) * 4096 + Masked(trigger_peaking, 4096)

(* the samples that the trigger's trapezoid sums *)
Summed(p) == IF p < 2 THEN 2 ELSE p

(* the 28 bits of FIR_TRIGGER_THRESHOLD below its flags *)
thr(trigger_threshold, trigger_peaking) ==
  (134217728 + trigger_threshold * Summed(Masked(trigger_peaking, 4096))) % 268435456

-----------------------------------------------------------------------------
(* registers.memory_offset, chan_reg *)

Channels == 0..15

memory_offset(channel, bank2) ==
  (IF bank2 THEN 16777216 ELSE 0)
  + (IF channel % 2 = 1 THEN 33554432 ELSE 0)
  + (IF (channel \div 2) % 2 = 1 THEN 268435456 ELSE 0)

(* the words of a bank, the histogram behind the events included *)
BankWords == 16777216

HISTOGRAM_MEMORY_OFFSET == 16711680
HISTOGRAM_BINS == 65536
STATISTIC_COUNTER_SPACE == 805306368

chan_reg(addr, channel, stride) == addr + 4096 * (channel \div 4) + stride * (channel % 4)
=============================================================================
