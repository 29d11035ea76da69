------------------------------- MODULE Backoff -------------------------------
(***************************************************************************)
(* The reconnect schedules of stocker-informer, in seconds: the consumer's *)
(* closed form and the probe's running delay.  Go's time.Duration is a     *)
(* 64-bit nanosecond count: the largest value formed here (30 s doubled) is*)
(* far below its range, so plain integers are exact.                       *)
(***************************************************************************)
EXTENDS Integers

\* backoffInitial and backoffMax of the consumer's reconnect loop.
BackoffInitial == 1
BackoffMax == 30

\* "1s << k" for the shifts the guards of backoffDelay let through.
Shift == [k \in 0..4 |-> CASE k = 0 -> 1 [] k = 1 -> 2 [] k = 2 -> 4
                           [] k = 3 -> 8 [] OTHER -> 16]

\* backoffDelay(failures), in seconds.
BackoffDelay(failures) ==
    IF failures < 2 THEN BackoffInitial
    ELSE IF failures >= 6 THEN BackoffMax
    ELSE BackoffInitial * Shift[failures - 1]

\* Faulty variant: the doubling without its cap.
NextRetryDelayUncapped(delay) == 2 * delay

\* The probe's doubling of its retry delay, in seconds.
NextRetryDelay(delay) == IF 2 * delay > 30 THEN 30 ELSE 2 * delay
==============================================================================
