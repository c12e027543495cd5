---------------------------------- MODULE Time ----------------------------------
(***************************************************************************)
(* include/aven/time.h: how Windows ticks become an instant, which POSIX   *)
(* gets from clock_gettime, and the time between two instants.  The        *)
(* products fit in 64 bits: a frequency is below 2^33 ticks per second,    *)
(* and seconds are counted from the start of the system.                   *)
(***************************************************************************)
EXTENDS Integers

AVEN_TIME_NSEC_PER_SEC == 1000 * 1000 * 1000

\* The nanoseconds are rounded, and may become a second.
Rounded(count, freq) ==
    ((count % freq) * AVEN_TIME_NSEC_PER_SEC + freq \div 2) \div freq

aven_time_now(count, freq) ==
    LET carry == IF Rounded(count, freq) >= AVEN_TIME_NSEC_PER_SEC THEN 1 ELSE 0
    IN  [tv_sec |-> count \div freq + carry,
         tv_nsec |-> Rounded(count, freq) - carry * AVEN_TIME_NSEC_PER_SEC]

aven_time_since(end, start) ==
    (end.tv_sec - start.tv_sec) * AVEN_TIME_NSEC_PER_SEC + (end.tv_nsec - start.tv_nsec)
=============================================================================
