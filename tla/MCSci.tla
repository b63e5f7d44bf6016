-------------------------------- MODULE MCSci --------------------------------
(***************************************************************************)
(* A receive buffer of three bytes, up to four keys typed and four bytes   *)
(* given by commands of one or two: enough for a window that reaches the   *)
(* end of the buffer without being full, more than once, and for a command *)
(* of which one byte is taken in and one refused.                          *)
(***************************************************************************)
EXTENDS Sci

MCBufSize == 3
MCMaxInput == 4
MCMaxFeed == 2
=============================================================================
