-------------------------- MODULE MCMultiPrecision --------------------------
(* Bytes of two bits, so that every operand of two bytes, every pair of     *)
(* accumulators and every flag are met between two digits of a number.      *)
EXTENDS MultiPrecision
=============================================================================
