-------------------------------- MODULE Clock --------------------------------
(* millis(): an unsigned clock that rolls over.                            *)
EXTENDS Naturals

CONSTANT ClockRange  \* millis() counts modulo this (2^32 on the chip)

ASSUME ClockCounts == ClockRange \in Nat \ {0}

VARIABLE now         \* millis()

Ticks == 0..(ClockRange - 1)

\* Unsigned subtraction, as on the chip.
Minus(a, b) == (a + ClockRange - b) % ClockRange
Since(t) == Minus(now, t)
==============================================================================
