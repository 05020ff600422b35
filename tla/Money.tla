-------------------------------- MODULE Money --------------------------------
(***************************************************************************)
(* Integer paise (engine/money.py).  Rates are basis points; bps is the    *)
(* only rounding on the money path, half away from zero.                   *)
(***************************************************************************)
EXTENDS Integers

Bps(paise, rate) ==
    IF paise < 0 THEN -((-paise * rate + 5000) \div 10000)
                 ELSE (paise * rate + 5000) \div 10000

Abs(paise) == IF paise < 0 THEN -paise ELSE paise
=============================================================================
