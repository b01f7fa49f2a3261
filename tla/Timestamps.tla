----------------------------- MODULE Timestamps -----------------------------
(***************************************************************************)
(* The ways a sample's timestamp goes: from the milliseconds of a write    *)
(* request to the instant of a row, and from there to the milliseconds     *)
(* either read path answers.  Milliseconds and counts of nanoseconds are   *)
(* int64 in the code, and multiplying wraps; an instant (time.Time,        *)
(* timestamptz) does not, and is its nanoseconds since the epoch.          *)
(***************************************************************************)
EXTENDS Integers

CONSTANTS
    Word,              \* 2^64
    NanosPerMilli,     \* 10^6
    MillisPerSecond    \* 1000

ASSUME TimestampsAssumption ==
    /\ Word \in Nat \ {0} /\ Word % 2 = 0
    /\ NanosPerMilli \in Nat \ {0} /\ MillisPerSecond \in Nat \ {0}

\* The value an int64 has after arithmetic that comes to n.
Wrap(n) == ((n + Word \div 2) % Word) - Word \div 2

\* Go's integer division goes towards zero.
Quot(a, b) == IF a >= 0 THEN a \div b ELSE -((-a) \div b)

NanosPerSecond == MillisPerSecond * NanosPerMilli

\* The instant that so many milliseconds name.
Instant(milliseconds) == milliseconds * NanosPerMilli

-----------------------------------------------------------------------------
(* The write path.                                                         *)

\* model.Time.UnixNano.
UnixNano(milliseconds) == Wrap(milliseconds * NanosPerMilli)

\* Before 1970 both parts are negative or zero; time.Unix takes them as they are.
ToTimestamp(milliseconds) ==
    LET sec == Quot(milliseconds, MillisPerSecond)
        nanoSec == (milliseconds - sec * MillisPerSecond) * NanosPerMilli
    IN  sec * NanosPerSecond + nanoSec

\* Mutant: the nanoseconds are divided by those of a second.
MetricTimeOfSeconds(milliseconds) == ToTimestamp(Quot(UnixNano(milliseconds), NanosPerSecond))

\* metric_time of the row that a sample's timestamp makes.
MetricTime(milliseconds) == ToTimestamp(Quot(UnixNano(milliseconds), NanosPerMilli))

-----------------------------------------------------------------------------
(* The read paths.                                                         *)

\* Remote read: Time.UnixNano, divided.
ReadMilliseconds(instant) == Quot(Wrap(instant), NanosPerMilli)

\* StoreAPI: Time.UnixMilli, which rounds down.
UnixMilli(instant) == instant \div NanosPerMilli

-----------------------------------------------------------------------------
\* The timestamps whose nanoseconds are an int64: from 1677 to 2262.
Representable(milliseconds) ==
    -(Word \div 2) <= Instant(milliseconds) /\ Instant(milliseconds) < Word \div 2
=============================================================================
