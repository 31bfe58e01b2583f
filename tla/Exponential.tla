---------------------------- MODULE Exponential ----------------------------
(***************************************************************************)
(* Fixed-point arithmetic (Exponential.sol).  An Exp is a natural number   *)
(* of units of 1/Scale.  The overflow checks of CarefulMath.sol are left   *)
(* out: the numbers of the model are far from 2^256.  A divisor that is 0  *)
(* reverts in the code; a user of these operators guards against it.       *)
(***************************************************************************)
EXTENDS Integers

CONSTANT Scale     \* expScale, 1e18

ASSUME ScaleAssumption == Scale \in Nat \ {0}

\* halfExpScale
HalfScale == Scale \div 2

\* truncate
Truncate(exp) == exp \div Scale

\* getExp, divExp
GetExp(num, denom) == (num * Scale) \div denom

\* mulScalarTruncate
MulScalarTruncate(exp, scalar) == Truncate(exp * scalar)

\* divScalarByExpTruncate
DivScalarByExpTruncate(scalar, divisor) == Truncate(GetExp(Scale * scalar, divisor))

\* mulExp: rounded to the nearest, not truncated
MulExp(a, b) == (HalfScale + a * b) \div Scale

\* mulExp3
MulExp3(a, b, c) == MulExp(MulExp(a, b), c)
=============================================================================
