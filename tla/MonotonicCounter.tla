-------------------------- MODULE MonotonicCounter --------------------------
(***************************************************************************)
(* MonotonicCounter.h: a 64-bit counter that follows a 32-bit one.  The    *)
(* 32-bit values wrap at Half = 2^31, any power of two behaves alike; the  *)
(* 64-bit ones never do (a millisecond counter takes 292 million years).   *)
(***************************************************************************)
EXTENDS Integers

CONSTANT Half

ASSUME HalfAssumption == Half \in Nat \ {0}

\* The value an int32_t holds after arithmetic that may have gone out of range.
Wrap(n) == ((n + Half) % (2 * Half)) - Half

Zero == [c64 |-> 0, c32 |-> 0]

\* The counter compared without regard to the wrap.
Update32Unwrapped(c, counter32) ==
  IF counter32 > c.c32
  THEN [c64 |-> c.c64 + (counter32 - c.c32), c32 |-> counter32]
  ELSE c

Update32(c, counter32) ==
  LET delta == Wrap(counter32 - c.c32)
  IN  IF delta > 0 THEN [c64 |-> c.c64 + delta, c32 |-> counter32] ELSE c

Set(c, counter) == [c EXCEPT !.c64 = counter]
Reset32(c) == [c EXCEPT !.c32 = 0]
=============================================================================
