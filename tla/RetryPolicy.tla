----------------------------- MODULE RetryPolicy -----------------------------
(***************************************************************************)
(* internal/retry: the policy that spaces the attempts. A duration is an   *)
(* integer number of ticks. The two float fields, Multiplier and           *)
(* JitterFraction, are integer numbers of 1/Unit, so that the arithmetic   *)
(* here is exact where the code's float64 is exact too.                    *)
(***************************************************************************)
EXTENDS Integers

CONSTANTS
    Unit,           \* 1.0 in the units of Multiplier and JitterFraction
    DefaultPolicy   \* retry.Default()

Policies == [maxAttempts : Int, initial : Int, max : Int,
             multiplier : Int, jitter : Int]

Validate(p) ==
    /\ p.maxAttempts >= 1
    /\ p.initial > 0
    /\ p.max >= p.initial
    /\ p.multiplier >= Unit
    /\ p.jitter >= 0 /\ p.jitter <= Unit

\* retry.Default() is itself a valid policy.
ASSUME PolicyAssumption ==
    Unit \in Nat \ {0} /\ DefaultPolicy \in Policies /\ Validate(DefaultPolicy)

OrElse(value, fallback) == IF value <= 0 THEN fallback ELSE value

WithDefaults(p) ==
    [maxAttempts |-> OrElse(p.maxAttempts, DefaultPolicy.maxAttempts),
     initial     |-> OrElse(p.initial, DefaultPolicy.initial),
     max         |-> OrElse(p.max, DefaultPolicy.max),
     multiplier  |-> OrElse(p.multiplier, DefaultPolicy.multiplier),
     jitter      |-> IF p.jitter < 0 THEN 0 ELSE p.jitter]

\* Initial * Multiplier^(attempt - 1), not above Max (an infinite product is
\* above it too), cut off to whole ticks.
Backoff(p, attempt) ==
    LET exponent == IF attempt < 1 THEN 0 ELSE attempt - 1
        scaled == p.initial * p.multiplier^exponent
        one == Unit^exponent
    IN IF scaled > p.max * one THEN p.max ELSE scaled \div one

\* Mutant: the jitter may exceed the longest interval.
BackoffWithJitterUncapped(p, attempt, random) ==
    LET base == Backoff(p, attempt)
    IN (base * Unit * Unit + base * p.jitter * (2 * random - Unit)) \div (Unit * Unit)

\* random / Unit is the random number in [0, 1). What is divided is negative
\* only if the fraction exceeds one, which the first case returns as zero, so
\* the conversion's cut toward zero is \div.
BackoffWithJitter(p, attempt, random) ==
    LET base == Backoff(p, attempt)
        jittered == base * Unit * Unit + base * p.jitter * (2 * random - Unit)
    IN CASE p.jitter = 0                      -> base
         [] p.jitter # 0 /\ jittered < 0      -> 0
         [] p.jitter # 0 /\ jittered >= 0     ->
              LET ticks == jittered \div (Unit * Unit)
              IN IF ticks > p.max THEN p.max ELSE ticks

-----------------------------------------------------------------------------
\* What the engine relies on.

\* The intervals start at Initial, never shrink from one attempt to the next
\* and never exceed Max, for the attempt numbers below one as well.
Grows(p, attempt) ==
    /\ Backoff(p, attempt) >= p.initial
    /\ Backoff(p, attempt) <= p.max
    /\ Backoff(p, attempt) <= Backoff(p, attempt + 1)

\* Jitter moves an interval by at most the fraction of it, and not past Max:
\* the next attempt is never in the past and never later than Max from now.
JitterWithin(p, attempt, random) ==
    LET base == Backoff(p, attempt)
        delay == BackoffWithJitter(p, attempt, random)
    IN /\ 0 <= delay /\ delay <= p.max
       /\ (base - delay) * Unit <= base * p.jitter + (Unit - 1)
       /\ (delay - base) * Unit <= base * p.jitter

=============================================================================
