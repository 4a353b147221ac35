------------------------------- MODULE Clock -------------------------------
(***************************************************************************)
(* The clocks (arch/x86/clock.c): the boot time from the real-time clock,  *)
(* the rate of the time stamp counter measured at boot, and the three      *)
(* clocks of kclock_gettime. What the registers of the real-time clock     *)
(* mean is in module Calendar.                                             *)
(***************************************************************************)
EXTENDS Integers

CONSTANTS
  HZ,          \* true ticks of the time stamp counter in a second
  Rates,       \* rates that calibrate_tsc_pit may measure
  NSEC,        \* nanoseconds in a second (1000000000)
  WORD,        \* 2^64
  CAL_MAX,     \* ticks that the calibration takes at most
  TSC_MAX      \* bound: the largest value of the counter

ASSUME ClockAssumption ==
  /\ {HZ, NSEC, WORD, CAL_MAX, TSC_MAX} \subseteq Nat \ {0}
  /\ Rates \subseteq Nat \ {0}
  \* 64 bits are enough for rem * 1000000000, up to 18 GHz.
  /\ \A hz \in Rates : hz * NSEC <= WORD

VARIABLES
  tsc,              \* the time stamp counter
  start,            \* true time when the counter was 0, in ticks since 1970
  boot_phase,       \* how far clock_init is: "rtc", "pit", "up"
  read_at,          \* tsc when the real-time clock was read (history)
  boot_epoch_sec, tsc_hz, boot_tsc

clockVars == <<tsc, start, boot_phase, read_at, boot_epoch_sec, tsc_hz, boot_tsc>>

ClockInit ==
  /\ tsc = 0 /\ start \in 0 .. HZ - 1 /\ boot_phase = "rtc"
  /\ read_at = 0 /\ boot_epoch_sec = 0 /\ tsc_hz = 0 /\ boot_tsc = 0

\* Time passes; a calibration ends in time.
Tick ==
  /\ tsc < TSC_MAX
  /\ boot_phase = "pit" => tsc - read_at < CAL_MAX
  /\ tsc' = tsc + 1
  /\ UNCHANGED <<start, boot_phase, read_at, boot_epoch_sec, tsc_hz, boot_tsc>>

\* The real-time clock counts whole seconds.
ReadRtc ==
  /\ boot_phase = "rtc"
  /\ boot_epoch_sec' = (start + tsc) \div HZ /\ read_at' = tsc
  /\ boot_phase' = "pit"
  /\ UNCHANGED <<tsc, start, tsc_hz, boot_tsc>>

Calibrated ==
  /\ boot_phase = "pit"
  /\ \E hz \in Rates : tsc_hz' = hz
  /\ boot_tsc' = tsc /\ boot_phase' = "up"
  /\ UNCHANGED <<tsc, start, read_at, boot_epoch_sec>>

clock_init == ReadRtc \/ Calibrated

ClockNext == Tick \/ clock_init
ClockSpec == ClockInit /\ [][ClockNext]_clockVars

\* Faulty variant of Parts: nanoseconds of the whole time, not of the rest.
Parts_whole(ticks) ==
  [sec |-> ticks \div tsc_hz, nsec |-> ((ticks * NSEC) % WORD) \div tsc_hz]

Parts(ticks) ==
  [sec |-> ticks \div tsc_hz, nsec |-> (((ticks % tsc_hz) * NSEC) % WORD) \div tsc_hz]

kclock_gettime(clk) ==
  CASE clk = "monotonic" -> Parts(tsc)
    [] clk = "boottime" -> Parts(tsc - boot_tsc)
    [] clk = "realtime" -> [Parts(tsc - boot_tsc) EXCEPT !.sec = boot_epoch_sec + @]
-----------------------------------------------------------------------------
Clocks == {"monotonic", "boottime", "realtime"}

NotBefore(s, t) == s.sec < t.sec \/ (s.sec = t.sec /\ s.nsec <= t.nsec)

(* No clock goes back, over the carry from nanoseconds to seconds too,     *)
(* whatever rate was measured.                                             *)
NeverBackward ==
  [][boot_phase = "up" => \A clk \in Clocks : NotBefore(kclock_gettime(clk), kclock_gettime(clk)')]_clockVars

(* A reading is the counter's value to within a nanosecond: the 64-bit     *)
(* product does not wrap and nanoseconds stay below a second.              *)
ReadingIsExact ==
  boot_phase = "up" =>
    LET t == kclock_gettime("monotonic")
        done == t.sec * tsc_hz * NSEC + t.nsec * tsc_hz
    IN  /\ t.nsec < NSEC
        /\ done <= tsc * NSEC /\ tsc * NSEC < done + tsc_hz

(* With the true rate the real-time clock of the kernel is never ahead,    *)
(* and behind by less than a second and the time of the calibration, and   *)
(* the rounding to a nanosecond: the seconds are read first and the        *)
(* counter last.                                                           *)
RealtimeFollows ==
  (boot_phase = "up" /\ tsc_hz = HZ) =>
    LET t == kclock_gettime("realtime")
        told == t.sec * HZ * NSEC + t.nsec * HZ
        now == (start + tsc) * NSEC
    IN  told <= now /\ now < told + (HZ + CAL_MAX) * NSEC + HZ

(* No clock goes back, a reading is exact to a nanosecond, and real time   *)
(* follows the clock that was read at boot (kclock_gettime, clock_init).   *)
ClockCorrect == [](ReadingIsExact /\ RealtimeFollows) /\ NeverBackward
=============================================================================
