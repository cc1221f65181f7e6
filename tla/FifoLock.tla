------------------------------- MODULE FifoLock -------------------------------
(***************************************************************************)
(* What the blocking mutex promises its threads: they form one line, join  *)
(* at its end, and only the first, the holder, may leave it.               *)
(***************************************************************************)
EXTENDS Sequences, Naturals

CONSTANT Ids           \* thread ids

VARIABLE line          \* the holder and, behind it, the waiters

Init == line = <<>>

Join(id) == line' = Append(line, id)

Leave == line # <<>> /\ line' = Tail(line)

Next == (\E id \in Ids : Join(id)) \/ Leave

Spec == Init /\ [][Next]_line
=============================================================================
