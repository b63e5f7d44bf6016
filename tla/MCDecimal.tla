------------------------------ MODULE MCDecimal ------------------------------
(* The real width: every pair of packed bytes, with and without a carry.    *)
EXTENDS Decimal
=============================================================================
