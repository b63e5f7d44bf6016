----------------------------- MODULE MCCallStack -----------------------------
(* A 6800 with a 12 byte stack, two frames on the call stack and up to four *)
(* nested calls: room for one interrupt (7 bytes) inside two calls, for     *)
(* every wrap of the stack pointer and for a call stack that overflows.     *)
EXTENDS CallStack

=============================================================================
