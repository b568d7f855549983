----------------------------- MODULE RdtMessages -----------------------------
(***************************************************************************)
(* Messages over a session: rdt_send and rdt_poll of the Lua modules       *)
(* (lrdt_client.c, lrdt_server.c, the same code twice), on top of the two  *)
(* sessions of RdtReconnect with all their lost connections.  lsend puts a *)
(* length before a message and gives both to rdts_send; pollin cuts        *)
(* raw_rcv_buf into messages again.                                        *)
(*                                                                         *)
(* raw_rcv_buf is what the session has received and pollin has not taken:  *)
(* the bytes of received after the first taken.  The bytes of a message    *)
(* are numbers of the sender's stream, so a length can be read off a       *)
(* header's own bytes only; what a reader would do with any other bytes is *)
(* not modelled, and NothingHeldBack shows that it never reads them.       *)
(***************************************************************************)
EXTENDS RdtReconnect

CONSTANTS
    HeaderLen,  \* sizeof(message_t), 4 in the code
    Bodies,     \* lengths of messages; lsend drops the empty one
    Senders     \* the ends whose applications send

ASSUME MessagesAssumption ==
    /\ HeaderLen \in Nat \ {0}
    /\ Bodies \subseteq Nat \ {0}
    /\ \A n \in Bodies : HeaderLen + n \in MsgSizes
    /\ Senders \subseteq Ends

VARIABLES
    accepted,  \* accepted[e]: the messages e's rdts_send has taken, in order:
               \* where each starts in e's stream, and its length
    taken,     \* taken[e]: bytes ever drained from e's raw_rcv_buf
    handed     \* handed[e]: messages rdt_poll has given to e's application

messageVars == << vars, accepted, taken, handed >>

Message_t == [lo : Nat, len : Nat \ {0}]

\* The bytes of the message itself.
Body(m) == Bytes(m.lo + HeaderLen, m.len)

MessageInit ==
    /\ Init
    /\ accepted = [e \in Ends |-> << >>]
    /\ taken = [e \in Ends |-> 0]
    /\ handed = [e \in Ends |-> << >>]

-----------------------------------------------------------------------------
(* rdt_send *)

\* the length not counted in what rdts_send is given
Bug_new_message(n) == n

\* The bytes rdts_send is given for a message of n.
new_message(n) == HeaderLen + n

\* The -1 of rdts_send is not looked at: a refused message is gone.
lsend(e, n) ==
    /\ get_session(e)
    /\ handshake_succ[e]
    /\ sess[e].sent + new_message(n) <= MaxSent
    /\ sess' = [sess EXCEPT ![e] = rdts_send(@, new_message(n))]
    /\ accepted' =
         IF Overflows(sess[e], new_message(n)) THEN accepted
         ELSE [accepted EXCEPT ![e] = Append(@, [lo |-> sess[e].sent, len |-> n])]
    /\ UNCHANGED << handshake_succ, linked, wire, taken, handed >>

-----------------------------------------------------------------------------
(* rdt_poll *)

\* data_size of raw_rcv_buf.
RawLength(e) == sess[e].rcv_raw_offset - taken[e]

\* The next bytes of raw_rcv_buf are m's header.
IsNext(e, m) ==
    \A i \in 1 .. HeaderLen : sess[e].received[taken[e] + i] = m.lo + i

\* What pollin asks for before it takes a message: more than a length, and as
\* much as the length says.
Whole(e, m) ==
    /\ RawLength(e) > HeaderLen
    /\ IsNext(e, m)
    /\ RawLength(e) >= HeaderLen + m.len

\* the header left in the buffer
Bug_Drained(m) == m.len

\* rdts_drain_raw_rcv_buf
Drained(m) == HeaderLen + m.len

\* pollin, which lpoll calls when there is nothing to send.
pollin(e) ==
    /\ get_session(e)
    /\ sess[e].snd_buf = << >>
    /\ \E k \in DOMAIN accepted[Peer(e)] :
         LET m    == accepted[Peer(e)][k]
             from == taken[e] + HeaderLen
         IN  /\ Whole(e, m)
             /\ handed' = [handed EXCEPT
                  ![e] = Append(@, SubSeq(sess[e].received, from + 1, from + m.len))]
             /\ taken' = [taken EXCEPT ![e] = @ + Drained(m)]
    /\ UNCHANGED << vars, accepted >>

\* What the session does by itself and for the other calls.
lpoll(e) == pollin(e) \/ (Poll(e) /\ UNCHANGED << accepted, taken, handed >>)

lrecv(e) == (InputAck(e) \/ InputData(e)) /\ UNCHANGED << accepted, taken, handed >>

lrdt_ack(e) == Ack(e) /\ UNCHANGED << accepted, taken, handed >>

Connections ==
    /\ LoseConnection \/ StartReconnect \/ ServerReconnects \/ ClientReconnects
    /\ UNCHANGED << accepted, taken, handed >>

-----------------------------------------------------------------------------

MessageNext ==
    \/ \E e \in Senders : \E n \in Bodies : lsend(e, n)
    \/ \E e \in Ends : lpoll(e) \/ lrecv(e) \/ lrdt_ack(e)
    \/ Connections

MessageSpec == MessageInit /\ [][MessageNext]_messageVars

\* As in RdtReconnect; and each time the applications poll, they do so until
\* nothing is returned (rdt_client.lua:107, rdt_server.lua:173), so that pollin is
\* tried again however often there is something to send first.
MessageFairness ==
    /\ \A e \in Ends : WF_messageVars(lpoll(e)) /\ WF_messageVars(lrecv(e))
    /\ \A e \in Ends : SF_messageVars(pollin(e))
    /\ WF_messageVars(Connections /\ (ServerReconnects \/ ClientReconnects))

MessageFairSpec == MessageSpec /\ MessageFairness

-----------------------------------------------------------------------------
(* Properties *)

MessageTypeOK ==
    /\ TypeOK
    /\ accepted \in [Ends -> Seq(Message_t)]
    /\ taken \in [Ends -> Nat]
    /\ handed \in [Ends -> Seq(Seq(Nat))]

\* lrdt_client.c:158-161: if the peer's application waits, the messages an
\* application is given are the peer's, each whole, once, and in the order they
\* were accepted, over any number of lost connections and resends.
MessagesWhole ==
    \A e \in Ends : Waits(Peer(e)) =>
        /\ Len(handed[e]) <= Len(accepted[Peer(e)])
        /\ \A k \in DOMAIN handed[e] : handed[e][k] = Body(accepted[Peer(e)][k])

\* lrdt_client.c:147,154: when pollin finds no message, there is nothing in
\* raw_rcv_buf.  A resend starts and an ack ends between messages, so no part of
\* one is ever left there for a connection that may not come.  (Of a peer that waits.)
NothingHeldBack ==
    \A e \in Ends : Waits(Peer(e)) /\ RawLength(e) > 0 =>
        \E k \in DOMAIN accepted[Peer(e)] : Whole(e, accepted[Peer(e)][k])

\* rdt_client.lua:107: while an application may send, every message accepted so
\* far is handed to the peer's application, unless the connection is lost.
HandedUnlessLost ==
    \A e \in Senders : \A k \in 1 .. MaxSent :
        (handshake_succ[e] /\ ~Lost /\ Len(accepted[e]) >= k)
            ~> (Lost \/ Len(handed[Peer(e)]) >= k)

-----------------------------------------------------------------------------
(* The inductive invariant behind MessagesWhole and NothingHeldBack *)

\* Where the stream is after k messages of q.
Stop(q, k) == IF k = 0 THEN 0 ELSE q[k].lo + HeaderLen + q[k].len

Stops(e) == {Stop(accepted[e], k) : k \in 0 .. Len(accepted[e])}

\* e's stream is its messages, one after the other.
Framed(e) ==
    LET q == accepted[e]
    IN  /\ Stop(q, Len(q)) = sess[e].sent
        /\ \A k \in 1 .. Len(q) : q[k].lo = Stop(q, k - 1)
        /\ \A j, k \in 0 .. Len(q) : j < k => Stop(q, j) < Stop(q, k)

\* rcv_raw_offset counts what has been put into raw_rcv_buf.
Counted(e) == Len(sess[e].received) = sess[e].rcv_raw_offset

\* What e's pollin has drained is what it has handed out.
TakenIsHanded(e) == taken[e] = Stop(accepted[Peer(e)], Len(handed[e]))

\* How far the acks in q reach, and how far the data.
AcksOf(q) == {q[i].offset : i \in {j \in 1 .. Len(q) : q[j].kind = "ack"}}
EndsOf(q) == {q[i].lo + q[i].len : i \in {j \in 1 .. Len(q) : q[j].kind = "data"}}

\* Every offset the two sessions have of a stream, or tell each other, is in X.
AlignedTo(e, X) ==
    LET p == Peer(e)
    IN  /\ sess[e].remote_rcv_raw_offset \in X
        /\ sess[p].rcv_raw_offset \in X
        /\ AcksOf(wire[p]) \subseteq X /\ AcksOf(sess[p].snd_buf) \subseteq X
        /\ EndsOf(wire[e]) \subseteq X /\ EndsOf(sess[e].snd_buf) \subseteq X

MessageInv ==
    /\ MessageTypeOK
    /\ MessagesWhole
    /\ \A e \in Ends : Framed(e) /\ Counted(e)
    /\ \A e \in Ends :
         Waits(e) => TakenIsHanded(Peer(e)) /\ AlignedTo(e, Stops(e))

-----------------------------------------------------------------------------
(* What the documentation says and the code does not do *)

\* README.md:55, nothing lost: what an application passes to rdt_send is
\* accepted.  rdt_send returns nothing either way.
NothingRefused ==
    \A e \in Senders : \A n \in Bodies :
        get_session(e) /\ handshake_succ[e] => ~Overflows(sess[e], new_message(n))
=============================================================================
