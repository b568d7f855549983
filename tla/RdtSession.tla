----------------------------- MODULE RdtSession -----------------------------
(***************************************************************************)
(* The state of one rdt_session_t (rdt_session.h) and the functions of     *)
(* rdt_session.c that change it, each as an operator from a session to the *)
(* session it leaves behind.  The modules that run sessions against each   *)
(* other apply these operators in their actions.                           *)
(*                                                                         *)
(* Bytes.  An application's byte stream is numbered: the k-th byte it ever *)
(* hands to rdts_send is the number k.  raw_snd_buf is a FIFO that         *)
(* rdts_send extends at the back and an ack drains at the front, so its    *)
(* content is the last raw_snd_size bytes of the stream, whatever drained  *)
(* it: bytes sent - raw_snd_size + 1 .. sent.  That remote_rcv_raw_offset  *)
(* agrees with this is a property to be shown, not an assumption.          *)
(*                                                                         *)
(* Packets.  snd_buf holds encoded packets back to back; here it is the    *)
(* sequence of them.  rdts_send and rdts_push_raw produce packets with     *)
(* data only, rdts_send_ack packets with an ack only.                      *)
(*                                                                         *)
(* A definition whose name begins with Bug is a wrong version of the one   *)
(* after it; no specification uses it.  The properties are tried against   *)
(* these.                                                                  *)
(***************************************************************************)
EXTENDS Integers, Sequences

CONSTANTS
    max_raw_snd_buf_size,  \* rdts_init: limit on unacknowledged bytes
    auto_ack_limit         \* rdts_init: received bytes that trigger an ack

ASSUME SessionAssumption ==
    /\ max_raw_snd_buf_size \in Nat
    /\ auto_ack_limit \in Nat

-----------------------------------------------------------------------------
(* Packets *)

\* A data packet carries len > 0 bytes of the sender's stream, after byte lo.
DataPacket(lo, len) == [kind |-> "data", lo |-> lo, len |-> len]

\* An ack packet carries the sender's rcv_raw_offset.
AckPacket(offset) == [kind |-> "ack", offset |-> offset]

Packet ==
    [kind : {"data"}, lo : Nat, len : Nat \ {0}] \cup [kind : {"ack"}, offset : Nat]

-----------------------------------------------------------------------------
(* The session *)

Session ==
    [enable                : BOOLEAN,
     need_ack              : BOOLEAN,
     rcv_raw_offset        : Nat,
     remote_rcv_raw_offset : Nat,
     auto_ack_count        : Nat,
     raw_snd_size          : Nat,           \* raw_snd_buf->data_size
     snd_buf               : Seq(Packet),
     sent                  : Nat,           \* bytes ever accepted by rdts_send
     received              : Seq(Nat)]      \* bytes ever put into raw_rcv_buf

rdts_create ==
    [enable                |-> TRUE,
     need_ack              |-> FALSE,
     rcv_raw_offset        |-> 0,
     remote_rcv_raw_offset |-> 0,
     auto_ack_count        |-> 0,
     raw_snd_size          |-> 0,
     snd_buf               |-> << >>,
     sent                  |-> 0,
     received              |-> << >>]

-----------------------------------------------------------------------------
(* Sending *)

\* rdts_send refuses a message that would fill the retransmission buffer.
Overflows(S, len) == S.raw_snd_size + len >= max_raw_snd_buf_size

rdts_send(S, len) ==
    IF Overflows(S, len)
    THEN S
    ELSE [S EXCEPT !.snd_buf      = Append(@, DataPacket(S.sent, len)),
                   !.raw_snd_size = @ + len,
                   !.sent         = @ + len]

\* What rdts_push_raw sends: all of raw_snd_buf as one packet.
RawPacket(S) == DataPacket(S.sent - S.raw_snd_size, S.raw_snd_size)

\* snd_buf not reset before the resend
Bug_rdts_push_raw(S) ==
    IF S.raw_snd_size = 0 THEN S ELSE [S EXCEPT !.snd_buf = Append(@, RawPacket(S))]

rdts_push_raw(S) ==
    IF S.raw_snd_size = 0 THEN S ELSE [S EXCEPT !.snd_buf = << RawPacket(S) >>]

rdts_send_ack(S) ==
    [S EXCEPT !.snd_buf        = Append(@, AckPacket(S.rcv_raw_offset)),
              !.auto_ack_count = 0]

\* pollout: everything in snd_buf goes to the transport.
pollout(S) == [S EXCEPT !.snd_buf = << >>]

-----------------------------------------------------------------------------
(* Receiving *)

\* an ack of everything in raw_snd_buf refused
Bug_AcceptsAck(S, offset) ==
    /\ offset > S.remote_rcv_raw_offset
    /\ offset - S.remote_rcv_raw_offset < S.raw_snd_size

\* An ack counts when it is new and asks for no more than raw_snd_buf holds.
\* rdts_input does not even look at an ack of 0.
AcceptsAck(S, offset) ==
    /\ offset > S.remote_rcv_raw_offset
    /\ offset - S.remote_rcv_raw_offset <= S.raw_snd_size

\* the offset drained instead of the delta
Bug_DrainAcked_total(S, offset) ==
    [S EXCEPT !.raw_snd_size = @ - offset, !.remote_rcv_raw_offset = offset]

\* the new remote offset not stored
Bug_DrainAcked_forgets(S, offset) ==
    [S EXCEPT !.raw_snd_size = @ - (offset - S.remote_rcv_raw_offset)]

\* mbuf_drain(raw_snd_buf, delta) and the new remote offset.
DrainAcked(S, offset) ==
    [S EXCEPT !.raw_snd_size          = @ - (offset - S.remote_rcv_raw_offset),
              !.remote_rcv_raw_offset = offset]

\* The application's on_ack (session_on_ack) runs when it was asked for.  It
\* is registered in the same call that sets need_ack, so need_ack stands for both.
CallsOnAck(S, offset) == AcceptsAck(S, offset) /\ S.need_ack

\* on_ack without the resend
Bug_session_on_ack(S) == [S EXCEPT !.need_ack = FALSE]

session_on_ack(S) == rdts_push_raw([S EXCEPT !.need_ack = FALSE])

rdts_on_rcv_ack(S, offset) ==
    CASE CallsOnAck(S, offset)  -> session_on_ack(DrainAcked(S, offset))
      [] AcceptsAck(S, offset) /\ ~S.need_ack -> DrainAcked(S, offset)
      [] OTHER                  -> S

\* The bytes of a data packet.
Bytes(lo, len) == [i \in 1 .. len |-> lo + i]

\* the packet's header counted as received
Bug_StoreData(S, lo, len) ==
    [S EXCEPT !.received       = @ \o Bytes(lo, len),
              !.rcv_raw_offset = @ + len + 1,
              !.auto_ack_count = @ + len]

\* MBUF_ENQ(raw_rcv_buf, buf, len) and the counters that follow it.
StoreData(S, lo, len) ==
    [S EXCEPT !.received       = @ \o Bytes(lo, len),
              !.rcv_raw_offset = @ + len,
              !.auto_ack_count = @ + len]

\* the ack one byte late
Bug_AutoAckDue(S) == S.auto_ack_count > auto_ack_limit

AutoAckDue(S) == S.auto_ack_count >= auto_ack_limit

rdts_on_rcv_data(S, lo, len) ==
    LET T == StoreData(S, lo, len)
    IN  IF AutoAckDue(T) THEN rdts_send_ack(T) ELSE T

-----------------------------------------------------------------------------
(* Reconnecting (rdts_manager.c) *)

disable_session(S) == [S EXCEPT !.enable = FALSE]

\* snd_buf kept over a reconnect
Bug_reconnect_session(S) ==
    rdts_send_ack([S EXCEPT !.enable = TRUE, !.need_ack = TRUE])

reconnect_session(S) ==
    rdts_send_ack([S EXCEPT !.enable   = TRUE,
                            !.need_ack = TRUE,
                            !.snd_buf  = << >>])
=============================================================================
