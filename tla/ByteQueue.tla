------------------------------ MODULE ByteQueue ------------------------------
(***************************************************************************)
(* What every user of an mbuf takes it to be: a FIFO of bytes.  The k-th   *)
(* byte ever put in is the number k; fed counts them.                      *)
(***************************************************************************)
EXTENDS Integers, Sequences

VARIABLES queue, fed

queueVars == << queue, fed >>

QueueInit == queue = << >> /\ fed = 0

Put ==
    /\ fed' \in Nat
    /\ fed' > fed
    /\ queue' = queue \o [i \in 1 .. fed' - fed |-> fed + i]

Take ==
    /\ \E n \in 1 .. Len(queue) : queue' = SubSeq(queue, n + 1, Len(queue))
    /\ UNCHANGED fed

Clear == queue' = << >> /\ UNCHANGED fed

QueueSpec == QueueInit /\ [][Put \/ Take \/ Clear]_queueVars
=============================================================================
