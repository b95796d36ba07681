-------------------------------- MODULE Numeric --------------------------------
(***************************************************************************)
(* What becomes of a quantity on its way into a numeric(10,3) column       *)
(* (src/baskety/db/migrations).  A request's float64 is passed on as it is *)
(* (shared.FloatToPgNumeric) and the database rounds it to thousandths,    *)
(* half away from zero.  A request's quantity is counted in quarters of a  *)
(* thousandth: enough for one that is rounded up, down, or to nothing.  A  *)
(* stored one is counted in thousandths.                                   *)
(***************************************************************************)
EXTENDS Integers

AsNumeric(q) == IF q >= 0 THEN (q + 2) \div 4 ELSE -((2 - q) \div 4)
================================================================================
