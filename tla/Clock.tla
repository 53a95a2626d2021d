-------------------------------- MODULE Clock --------------------------------
(***************************************************************************)
(* Timestamp(), the reading of the monotonic clock that the DNS cache, the *)
(* sessions and the audit log use.  A time t of the clock is counted in    *)
(* hundredths of a second: the code drops what is finer.                   *)
(***************************************************************************)
EXTENDS Integers

\* Mutant: the seconds are left out, as with tv_nsec alone.
TimestampOfNanoseconds(t) == t % 100

\* tv_sec * 1000 + tv_nsec / 10000000: a second is 1000, but its hundredths
\* are counted one by one, so that the reading runs from 0 to 99 and jumps.
Timestamp(t) == 1000 * (t \div 100) + (t % 100)

=============================================================================
