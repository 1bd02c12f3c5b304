------------------------------ MODULE Amounts ------------------------------
(***************************************************************************)
(* The integers that hold amounts of money in commerce/store and           *)
(* commerce/agent: i64 in the database, in Stripe's calls and in goals,    *)
(* u64 in a claim.  The width is scaled down to IntMax.                    *)
(***************************************************************************)
EXTENDS Integers

CONSTANT IntMax   \* i64::MAX

ASSUME AmountsAssumption == IntMax \in Nat

\* How many values an i64, or a u64, has.
Width == 2 * (IntMax + 1)

\* The values of a u64.
Unsigned == 0..(Width - 1)

\* Slip: the cast drops the sign bit.
AsSigned_Magnitude(n) == n % (IntMax + 1)

\* n as i64, of a u64.
AsSigned(n) == IF n > IntMax THEN n - Width ELSE n

\* The sum of two amounts as a release build computes it.  (A build with
\* overflow checks panics instead of wrapping.)
Plus(x, y) == IF x + y > IntMax THEN x + y - Width ELSE x + y
=============================================================================
