------------------------------- MODULE Ktime --------------------------------
(***************************************************************************)
(* lib/time.c over the time CSR, a counter of Word values that runs from   *)
(* power on and wraps.  All arithmetic is unsigned and wraps as well.      *)
(***************************************************************************)
EXTENDS Integers

CONSTANTS
  Word,                \* 2^64
  Thousand,            \* milliseconds in a second
  KTIME_FALLBACK_FREQ, \* 10000000
  Starts,              \* values of the time CSR when kmain begins
  MaxTicks             \* bound: ticks in a behaviour after ktime_init

ASSUME KtimeAssumption ==
  /\ Word \in Nat \ {0} /\ Thousand \in Nat \ {0} /\ KTIME_FALLBACK_FREQ \in Nat \ {0}
  /\ Starts \subseteq 0 .. Word - 1
  /\ MaxTicks \in Nat /\ MaxTicks * Thousand < Word

VARIABLES
  time,                                          \* the CSR
  ktime_boot_ticks, ktime_tick_freq, ktime_ready, \* time.c's globals
  elapsed                                        \* history: ticks since ktime_init

ktimeVars == <<time, ktime_boot_ticks, ktime_tick_freq, ktime_ready, elapsed>>

(***************************************************************************)
(* The counter runs; what it did before ktime_init is in Starts.           *)
(***************************************************************************)
Ticks(d) ==
  /\ ktime_ready /\ elapsed + d <= MaxTicks
  /\ time' = (time + d) % Word
  /\ elapsed' = elapsed + d
  /\ UNCHANGED <<ktime_boot_ticks, ktime_tick_freq, ktime_ready>>

(***************************************************************************)
(* ktime_init, given what dtb_get_u32 found for timebase-frequency of the  *)
(* node /cpus: <<>> when it found nothing.                                 *)
(***************************************************************************)
ktime_init(dtb_freq) ==
  /\ ktime_tick_freq' = IF dtb_freq # <<>> /\ dtb_freq # <<0>> THEN dtb_freq[1]
                        ELSE KTIME_FALLBACK_FREQ
  /\ ktime_boot_ticks' = time
  /\ ktime_ready' = TRUE /\ elapsed' = 0
  /\ UNCHANGED time

ktime_get_ticks_saturates ==                     \* mutation: a wrapped counter gives 0
  IF ~ktime_ready \/ time < ktime_boot_ticks THEN 0 ELSE time - ktime_boot_ticks

ktime_get_ticks ==
  IF ~ktime_ready THEN 0 ELSE (time - ktime_boot_ticks) % Word

ktime_get_ms ==
  IF ktime_tick_freq = 0 THEN 0
  ELSE ((ktime_get_ticks * Thousand) % Word) \div ktime_tick_freq

KtimeInit ==
  /\ time \in Starts
  /\ ktime_boot_ticks = 0 /\ ktime_tick_freq = 0 /\ ktime_ready = FALSE /\ elapsed = 0
=============================================================================
