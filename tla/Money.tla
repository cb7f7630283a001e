-------------------------------- MODULE Money --------------------------------
(***************************************************************************)
(* Rounding of money.  An amount is a whole number of units of the finest  *)
(* precision in use, and a currency's precision is its quantum: how many   *)
(* of those units its smallest coin is (10^(6 - decimal_places) where      *)
(* amounts carry the six places of CALCULATION_PRECISION).  Amounts are    *)
(* not negative here; decimal rounds negative ones as their mirror image.  *)
(***************************************************************************)
EXTENDS Integers

RoundingModes == {"half_up", "half_even"}

(* The highest multiple of q that is not above x, counted in quanta. *)
Below(x, q) == x \div q
Rest(x, q)  == x - q * Below(x, q)

RoundsUp(x, q, mode) ==
    \/ 2 * Rest(x, q) > q
    \/ 2 * Rest(x, q) = q /\ (mode = "half_up" \/ Below(x, q) % 2 = 1)

RoundMoney(x, q, mode) ==
    q * (Below(x, q) + IF RoundsUp(x, q, mode) THEN 1 ELSE 0)

(* format_money takes no rounding mode. *)
FormatMoney(x, q) == RoundMoney(x, q, "half_up")
=============================================================================
