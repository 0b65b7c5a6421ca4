------------------------------ MODULE Backoff ------------------------------
(***************************************************************************)
(* Backoff::delay: the ceiling of the wait before a reconnect attempt.     *)
(* Both multiplications saturate; U32Max stands for the width of u32.      *)
(***************************************************************************)
EXTENDS Integers

CONSTANTS Base, Cap, Factor, U32Max

ASSUME BackoffConstants ==
    Base \in Nat /\ Cap \in Nat /\ Factor \in Nat \ {0} /\ U32Max \in Nat \ {0}

Least(a, b) == IF a < b THEN a ELSE b

\* Mutant: the power wraps around.
saturating_pow_Wraps(steps) ==
    LET pow[n \in 0 .. steps] == IF n = 0 THEN 1 ELSE (pow[n - 1] * Factor) % (U32Max + 1)
    IN  pow[steps]
saturating_pow(steps) ==
    LET pow[n \in 0 .. steps] == IF n = 0 THEN 1 ELSE Least(pow[n - 1] * Factor, U32Max)
    IN  pow[steps]

\* Attempts count from 1; attempt 0 waits as attempt 1 does.
Ceiling(attempt) == Least(Base * saturating_pow(IF attempt = 0 THEN 0 ELSE attempt - 1), Cap)

\* The delay is a fraction of the ceiling; what is not a number in [0, 1] is
\* clamped, or taken for 0.  Fractions are counted in percent.
Delay(attempt, percent) ==
    (Ceiling(attempt) * (IF percent < 0 THEN 0 ELSE Least(percent, 100))) \div 100

=============================================================================
