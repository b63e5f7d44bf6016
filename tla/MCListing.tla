------------------------------ MODULE MCListing ------------------------------
(***************************************************************************)
(* Every entry of every table, as the first instruction of a program that  *)
(* goes on with a filler: \h01 is NOP, and a branch on the 6805; \h86      *)
(* loads an immediate byte, or is an empty entry on the 6805.              *)
(***************************************************************************)
EXTENDS Listing

MCLast == 5

Program(first, second, filler) ==
  [a \in 0 .. MCLast |-> CASE a = 0 -> first [] a = 1 -> second [] OTHER -> filler]

MCPrograms ==
  {Program(first, filler, filler) : first \in CodeByte, filler \in {\h01, \h86}}
    \cup {Program(prefix, second, \h01) : prefix \in Prefixes, second \in CodeByte}

=============================================================================
