------------------------------ MODULE RdtStream ------------------------------
(***************************************************************************)
(* What README.md (Algorithm design) promises of a pair of sessions: the   *)
(* bytes an application submits reach the peer's application without loss  *)
(* and without duplication, in order, whatever happens to connections.     *)
(*                                                                         *)
(* submitted[e] counts the bytes e's application handed over (the k-th of  *)
(* them is the number k); delivered[e] is the sequence of bytes e's        *)
(* application has been given.                                             *)
(***************************************************************************)
EXTENDS Integers, Sequences

VARIABLES submitted, delivered

streamVars == << submitted, delivered >>

Ends == {"client", "server"}

Peer(e) == IF e = "client" THEN "server" ELSE "client"

StreamInit ==
    /\ submitted = [e \in Ends |-> 0]
    /\ delivered = [e \in Ends |-> << >>]

\* e's application submits more bytes.
Submit(e) ==
    /\ submitted' \in [Ends -> Nat]
    /\ submitted'[e] > submitted[e]
    /\ submitted'[Peer(e)] = submitted[Peer(e)]
    /\ UNCHANGED delivered

\* e is given the next n bytes of its peer's stream: never a byte twice,
\* never one skipped, never one that was not submitted.
HandOver(e) ==
    \E n \in 1 .. submitted[Peer(e)] - Len(delivered[e]) :
        /\ delivered' =
             [delivered EXCEPT ![e] = @ \o [i \in 1 .. n |-> Len(@) + i]]
        /\ UNCHANGED submitted

StreamNext == \E e \in Ends : Submit(e) \/ HandOver(e)

StreamSpec == StreamInit /\ [][StreamNext]_streamVars
=============================================================================
