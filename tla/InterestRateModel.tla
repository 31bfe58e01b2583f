------------------------- MODULE InterestRateModel -------------------------
(***************************************************************************)
(* The interest rates of the money markets (InterestRateModel.sol): the    *)
(* rate per block rises with utilization, with one slope up to a kink and  *)
(* another one beyond it.                                                  *)
(***************************************************************************)
EXTENDS Exponential

\* The parameters per block; updateModelInternal divides the yearly ones.
Model == [baseRate : Nat, multiplier : Nat, jumpMultiplier : Nat, kink : Nat]

\* updateModelInternal
ModelOf(baseRatePerYear, multiplierPerYear, jumpMultiplierPerYear, kink, blocksPerYear) ==
    [baseRate |-> baseRatePerYear \div blocksPerYear,
     multiplier |-> (multiplierPerYear * Scale) \div (blocksPerYear * kink),
     jumpMultiplier |-> jumpMultiplierPerYear \div blocksPerYear,
     kink |-> kink]

\* SafeMath: the subtraction of the reserves and the division revert.
HasUtilization(cash, borrows, reserves) == borrows = 0 \/ cash + borrows > reserves

UtilizationRate(cash, borrows, reserves) ==
    IF borrows = 0 THEN 0 ELSE (borrows * Scale) \div ((cash + borrows) - reserves)

\* getBorrowRateInternal
BorrowRateAt(model, util) ==
    IF util <= model.kink
    THEN (util * model.multiplier) \div Scale + model.baseRate
    ELSE ((util - model.kink) * model.jumpMultiplier) \div Scale
         + ((model.kink * model.multiplier) \div Scale + model.baseRate)

BorrowRate(model, cash, borrows, reserves) ==
    BorrowRateAt(model, UtilizationRate(cash, borrows, reserves))
=============================================================================
