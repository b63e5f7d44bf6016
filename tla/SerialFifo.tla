----------------------------- MODULE SerialFifo -----------------------------
(***************************************************************************)
(* What a simulated receiver promises, whatever its buffer looks like: the *)
(* bytes it takes in are read once each, in the order they arrived; a key  *)
(* the user typed may have to wait, but it is never dropped; of the bytes  *)
(* of a command it takes a first part, and none only while earlier bytes   *)
(* are waiting.                                                            *)
(***************************************************************************)
EXTENDS Naturals, Sequences

CONSTANTS
  MaxFeed,  \* the most bytes one command gives
  NoByte    \* not a byte: a byte is where it came from and its number there

VARIABLES
  given,   \* number of bytes that arrived, by where from: "key" or "command"
  queue,   \* taken in, not read yet
  held,    \* a typed key that waits for room, or NoByte
  reg      \* what the program read last

vars == <<given, queue, held, reg>>

Arrival(src, n) == [from |-> src, nr |-> n]

Init ==
  /\ given = [src \in {"key", "command"} |-> 0]
  /\ queue = <<>> /\ held = NoByte /\ reg = NoByte

\* A key is typed: it is taken in, or held because something is waiting.
Type ==
  LET b == Arrival("key", given["key"] + 1)
  IN  /\ held = NoByte
      /\ given' = [given EXCEPT !["key"] = @ + 1]
      /\ \/ queue' = Append(queue, b) /\ UNCHANGED held
         \/ queue # <<>> /\ held' = b /\ UNCHANGED queue
      /\ UNCHANGED reg

\* The key that was held is taken in.
Accept ==
  /\ held # NoByte
  /\ queue' = Append(queue, held) /\ held' = NoByte
  /\ UNCHANGED <<given, reg>>

\* A command gives n bytes, the first k are taken in.
Feed(n) ==
  /\ given' = [given EXCEPT !["command"] = @ + n]
  /\ \E k \in 0 .. n :
       /\ k = 0 => queue # <<>>
       /\ queue' = queue \o [i \in 1 .. k |-> Arrival("command", given["command"] + i)]
  /\ UNCHANGED <<held, reg>>

\* The program reads the next byte.
Read ==
  /\ queue # <<>>
  /\ reg' = Head(queue) /\ queue' = Tail(queue)
  /\ UNCHANGED <<given, held>>

Next == Type \/ Accept \/ (\E n \in 1 .. MaxFeed : Feed(n)) \/ Read

Spec == Init /\ [][Next]_vars

=============================================================================
