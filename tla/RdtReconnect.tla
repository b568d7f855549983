---------------------------- MODULE RdtReconnect ----------------------------
(***************************************************************************)
(* Two sessions with the same sid, "client" and "server", over a sequence  *)
(* of connections.  One connection at a time is current; each direction of *)
(* it is a FIFO of packets.  A connection can be lost at any moment with   *)
(* everything in flight; the client then opens a new one and both sides    *)
(* run the reconnect handshake of README.md / rdt_client.lua /             *)
(* rdt_server.lua:                                                         *)
(*                                                                         *)
(*   client: rdt_disable, RECONN_HANDSHAKE_1 -->                           *)
(*   server:   rdt_disable, <-- RECONN_HANDSHAKE_2, rdt_reconnect, <-- ack *)
(*   client: rdt_reconnect, ack -->                                        *)
(*   each side, on the peer's ack: on_ack, resend of raw_snd_buf           *)
(*                                                                         *)
(* An application's calls are interleaved with this in every way its own   *)
(* rules allow.  An application that waits sends nothing between a         *)
(* reconnect and OnSessionReconnected; the client of rdt_client.lua waits  *)
(* (handshake_succ), its server does not, so ServerWaits is a parameter.   *)
(***************************************************************************)
EXTENDS RdtSession

CONSTANTS
    MsgSizes,     \* lengths an application passes to rdts_send
    ServerWaits,  \* does the server's application wait for OnSessionReconnected
    MaxSent,      \* bound: bytes each application sends
    MaxQueued     \* bound: packets e has under way when its application calls rdt_ack

ASSUME ReconnectAssumption ==
    /\ MsgSizes \subseteq Nat \ {0}     \* lsend drops the empty message
    /\ ServerWaits \in BOOLEAN
    /\ MaxSent \in Nat
    /\ MaxQueued \in Nat

VARIABLES
    sess,            \* sess[e]: e's rdt_session_t
    handshake_succ,  \* handshake_succ[e]: e's application may call rdts_send
    linked,          \* linked[e]: e's transport is the current connection
    wire             \* wire[e]: what e put on the current connection, unread

Ends == {"client", "server"}

Peer(e) == IF e = "client" THEN "server" ELSE "client"

\* The applications that wait for OnSessionReconnected.
Waits(e) == e = "client" \/ ServerWaits

vars == << sess, handshake_succ, linked, wire >>

\* The two commands of the reconnect handshake, sent outside the session.
RECONN_HANDSHAKE_1 == [kind |-> "RECONN_HANDSHAKE_1"]
RECONN_HANDSHAKE_2 == [kind |-> "RECONN_HANDSHAKE_2"]

Message == Packet \cup {RECONN_HANDSHAKE_1, RECONN_HANDSHAKE_2}

TypeOK ==
    /\ sess \in [Ends -> Session]
    /\ handshake_succ \in [Ends -> BOOLEAN]
    /\ linked \in [Ends -> BOOLEAN]
    /\ wire \in [Ends -> Seq(Message)]

\* Both applications have finished the first handshake.
Init ==
    /\ sess = [e \in Ends |-> rdts_create]
    /\ handshake_succ = [e \in Ends |-> TRUE]
    /\ linked = [e \in Ends |-> TRUE]
    /\ wire = [e \in Ends |-> << >>]

-----------------------------------------------------------------------------
(* The application's calls *)

\* The module functions of Lua raise an error on a disabled session, before
\* they touch it.
get_session(e) == sess[e].enable

Send(e) ==
    /\ get_session(e)
    /\ handshake_succ[e]
    /\ \E len \in MsgSizes :
         /\ sess[e].sent + len <= MaxSent
         /\ sess' = [sess EXCEPT ![e] = rdts_send(@, len)]
    /\ UNCHANGED << handshake_succ, linked, wire >>

\* rdt_ack: an ack outside the automatic ones.
Ack(e) ==
    /\ get_session(e)
    /\ Len(wire[e]) + Len(sess[e].snd_buf) < MaxQueued
    /\ sess' = [sess EXCEPT ![e] = rdts_send_ack(@)]
    /\ UNCHANGED << handshake_succ, linked, wire >>

\* rdt_poll takes all of snd_buf and the application writes it to its socket.
\* On a dead or superseded connection the bytes are gone.
Poll(e) ==
    /\ get_session(e)
    /\ sess[e].snd_buf # << >>
    /\ sess' = [sess EXCEPT ![e] = pollout(@)]
    /\ wire' = IF linked[e]
               THEN [wire EXCEPT ![e] = @ \o sess[e].snd_buf]
               ELSE wire
    /\ UNCHANGED << handshake_succ, linked >>

-----------------------------------------------------------------------------
(* The peer's packets *)

\* The next thing e reads from its connection, of the given kind.
Arrives(e, kind) ==
    /\ linked[e]
    /\ wire[Peer(e)] # << >>
    /\ Head(wire[Peer(e)]).kind = kind

Consume(e) == [wire EXCEPT ![Peer(e)] = Tail(@)]

\* rdts_input on an ack packet.  The callback tells the application that the
\* session is back (OnSessionReconnected), which lets it send again.
InputAck(e) ==
    /\ Arrives(e, "ack")
    /\ get_session(e)
    /\ LET offset == Head(wire[Peer(e)]).offset
       IN  /\ sess' = [sess EXCEPT ![e] = rdts_on_rcv_ack(@, offset)]
           /\ handshake_succ' =
                [handshake_succ EXCEPT ![e] = @ \/ CallsOnAck(sess[e], offset)]
    /\ wire' = Consume(e)
    /\ UNCHANGED linked

\* rdts_input on a data packet.
InputData(e) ==
    /\ Arrives(e, "data")
    /\ get_session(e)
    /\ LET pkt == Head(wire[Peer(e)])
       IN  sess' = [sess EXCEPT ![e] = rdts_on_rcv_data(@, pkt.lo, pkt.len)]
    /\ wire' = Consume(e)
    /\ UNCHANGED << handshake_succ, linked >>

-----------------------------------------------------------------------------
(* Connections *)

\* The current connection dies; what was in flight on it is lost.
LoseConnection ==
    /\ \E e \in Ends : linked[e]
    /\ linked' = [e \in Ends |-> FALSE]
    /\ wire' = [e \in Ends |-> << >>]
    /\ UNCHANGED << sess, handshake_succ >>

\* start_reconn / test_reconn: the client leaves its connection, dead or not,
\* for a new one.  The server keeps writing to the old one for a while.
StartReconnect ==
    /\ get_session("client")
    /\ sess' = [sess EXCEPT !["client"] = disable_session(@)]
    /\ handshake_succ' = [handshake_succ EXCEPT !["client"] = FALSE]
    /\ linked' = [e \in Ends |-> e = "client"]
    /\ wire' = [e \in Ends |-> IF e = "client" THEN << RECONN_HANDSHAKE_1 >> ELSE << >>]

\* rdt_reconnect followed by the poll both programs do at once, which writes
\* the ack to the new connection.
ReconnectAck(S) == reconnect_session(S).snd_buf
Reconnected(S) == pollout(reconnect_session(S))

ServerReconnects ==
    /\ linked["client"]
    /\ wire["client"] = << RECONN_HANDSHAKE_1 >>
    /\ get_session("server")
    /\ sess' = [sess EXCEPT !["server"] = Reconnected(disable_session(@))]
    /\ handshake_succ' = [handshake_succ EXCEPT !["server"] = @ /\ ~Waits("server")]
    /\ linked' = [linked EXCEPT !["server"] = TRUE]
    /\ wire' = [wire EXCEPT
         !["client"] = << >>,
         !["server"] = << RECONN_HANDSHAKE_2 >> \o ReconnectAck(sess["server"])]

ClientReconnects ==
    /\ Arrives("client", "RECONN_HANDSHAKE_2")
    /\ sess' = [sess EXCEPT !["client"] = Reconnected(@)]
    /\ wire' = [wire EXCEPT !["client"] = @ \o ReconnectAck(sess["client"]),
                            !["server"] = Tail(@)]
    /\ UNCHANGED << handshake_succ, linked >>

-----------------------------------------------------------------------------

Exchange(e) == Send(e) \/ Ack(e) \/ Poll(e) \/ InputAck(e) \/ InputData(e)

Next ==
    \/ \E e \in Ends : Exchange(e)
    \/ LoseConnection
    \/ StartReconnect
    \/ ServerReconnects
    \/ ClientReconnects

Spec == Init /\ [][Next]_vars

\* The event loops of both programs read a readable socket, run the handlers
\* and poll after each read.  Nothing makes an application send, a connection
\* break, or a client give up on one.
Fairness ==
    /\ \A e \in Ends : WF_vars(Poll(e)) /\ WF_vars(InputAck(e) \/ InputData(e))
    /\ WF_vars(ServerReconnects)
    /\ WF_vars(ClientReconnects)

FairSpec == Spec /\ Fairness

-----------------------------------------------------------------------------
(* Safety *)

\* What e's retransmission buffer must hold: the tail of the stream that the
\* peer has not acknowledged, and the peer acknowledges only what it has.
Covers(e) ==
    /\ sess[e].remote_rcv_raw_offset + sess[e].raw_snd_size = sess[e].sent
    /\ sess[e].remote_rcv_raw_offset <= sess[Peer(e)].rcv_raw_offset
    /\ sess[Peer(e)].rcv_raw_offset <= sess[e].sent

\* What e's peer has been given is the beginning of e's stream.
Intact(e) ==
    sess[Peer(e)].received = Bytes(0, sess[Peer(e)].rcv_raw_offset)

\* Draining raw_snd_buf (rdts_on_rcv_ack) never drops a byte the peer lacks,
\* across any number of lost connections and resends.
RetransmitBufferCovers == \A e \in Ends : Covers(e)

\* README.md:55,58: nothing lost, nothing duplicated.  What an application has
\* been given is, byte for byte, the beginning of its peer's stream, across
\* any number of lost connections and resends.
ExactlyOnce == \A e \in Ends : Intact(e)

\* An application that sends nothing between rdt_reconnect and
\* OnSessionReconnected is safe whatever the peer's application does in that
\* time: its own stream arrives intact even if the peer's does not.
WaitingIsEnough == \A e \in Ends : Waits(e) => Covers(e) /\ Intact(e)

\* No ack is ever refused: on one connection acks arrive in order, and a new
\* connection starts from the peer's true offset, so the "[warn]remote ack
\* smaller then local" and "[error]remote ack" branches of rdts_on_rcv_ack
\* are never taken.
AcksInRange ==
    \A e \in Ends : \A i \in DOMAIN wire[Peer(e)] :
        LET m == wire[Peer(e)][i]
        IN  m.kind = "ack" =>
              m.offset \in sess[e].remote_rcv_raw_offset .. sess[e].sent

\* When everything on an unbroken connection has been read, each side has
\* received the other's whole stream, and less than auto_ack_limit of it is
\* still unacknowledged: with auto_ack_limit = 1 the two pairs of offsets are
\* equal, the assertion at the end of test.c.
Quiet ==
    /\ \A e \in Ends : linked[e] /\ handshake_succ[e]
    /\ \A e \in Ends : wire[e] = << >> /\ sess[e].snd_buf = << >>

QuietOffsetsAgree ==
    Quiet => \A e \in Ends :
        /\ sess[Peer(e)].rcv_raw_offset = sess[e].sent
        /\ sess[e].raw_snd_size > 0 => sess[e].raw_snd_size < auto_ack_limit

\* When on_ack reports a reconnect complete, what it queues is exactly the
\* part of the stream that the peer has not received: no byte resent that had
\* arrived, none left out, nothing older ahead of it.
Back(e) == ~handshake_succ[e] /\ handshake_succ'[e]

ResendIsExact ==
    [][\A e \in Ends : Back(e) =>
          LET had == sess[Peer(e)].rcv_raw_offset
              all == sess[e].sent
          IN  had < all => sess'[e].snd_buf = << DataPacket(had, all - had) >>]_vars

-----------------------------------------------------------------------------
(* The inductive invariant behind WaitingIsEnough *)

\* What is under way from e: on the connection, then still in snd_buf.
Flow(e) == wire[e] \o sess[e].snd_buf

\* f[i] is how far a receiver at byte a has got after i packets of q, and b how
\* far it gets: each data packet starts where the receiver then is.
Follows(f, q, a, b) ==
    /\ f[0] = a /\ f[Len(q)] = b
    /\ \A i, j \in 0 .. Len(q) : i <= j => f[i] <= f[j]
    /\ \A i \in 1 .. Len(q) :
          IF q[i].kind = "data"
          THEN q[i].lo = f[i - 1] /\ f[i] = f[i - 1] + q[i].len
          ELSE f[i] = f[i - 1]

\* The data packets of q carry the stream from byte a to byte b without gap
\* or overlap.
Chain(q, a, b) == \E f \in [0 .. Len(q) -> a .. b] : Follows(f, q, a, b)

NoData(q) == \A i \in 1 .. Len(q) : q[i].kind # "data"

AcksAt(q, offset) == \A i \in 1 .. Len(q) : q[i].kind = "ack" => q[i].offset = offset

AcksUpTo(q, offset) == \A i \in 1 .. Len(q) : q[i].kind = "ack" => q[i].offset <= offset

\* Where the handshake stands.
HandshakeShape ==
    /\ sess["server"].enable
    /\ ~sess["client"].enable => ~handshake_succ["client"]
    /\ \A e \in Ends : wire[e] # << >> => linked[e]
    /\ \A i \in 1 .. Len(wire["client"]) :
          wire["client"][i].kind = "RECONN_HANDSHAKE_1"
            => ~sess["client"].enable /\ ~linked["server"]
    /\ \A i \in 1 .. Len(wire["server"]) :
          wire["server"][i].kind = "RECONN_HANDSHAKE_2"
            => i = 1 /\ ~sess["client"].enable

\* Every ack under way from e is true: it claims no more than e has received.
AcksTrue(e) ==
    /\ AcksUpTo(wire[e], sess[e].rcv_raw_offset)
    /\ AcksUpTo(sess[e].snd_buf, sess[e].rcv_raw_offset)

\* e has been told that the session is back: what is under way continues the
\* stream from where the peer is.
OpenInv(e) ==
    linked[e] /\ handshake_succ[e]
        => Chain(Flow(e), sess[Peer(e)].rcv_raw_offset, sess[e].sent)

\* e has not been told: no data is under way, and any ack that will end the
\* waiting gives the peer's offset exactly.
WaitInv(e) ==
    ~handshake_succ[e] =>
        /\ NoData(wire[e])
        /\ sess[e].enable => NoData(sess[e].snd_buf) /\ sess[e].need_ack
        /\ AcksAt(wire[Peer(e)], sess[Peer(e)].rcv_raw_offset)
        /\ linked[Peer(e)] /\ sess[Peer(e)].enable
              => AcksAt(sess[Peer(e)].snd_buf, sess[Peer(e)].rcv_raw_offset)

\* What holds of each end, waiting or not.
EndInv(e) ==
    /\ sess[e].remote_rcv_raw_offset + sess[e].raw_snd_size = sess[e].sent
    /\ AcksTrue(e)

\* What holds of the stream from e if e waits.
StreamInv(e) ==
    /\ Covers(e)
    /\ Intact(e)
    /\ handshake_succ[e] => ~sess[e].need_ack
    /\ OpenInv(e)
    /\ WaitInv(e)

\* The inductive invariant: the phases of a reconnect, for each application
\* that waits, with what must then be true of the bytes under way.
IInv ==
    /\ TypeOK
    /\ HandshakeShape
    /\ \A e \in Ends : EndInv(e)
    /\ \A e \in Ends : Waits(e) => StreamInv(e)

-----------------------------------------------------------------------------
(* The inductive invariant behind AcksInRange and QuietOffsetsAgree *)

\* The acks of q come in order, and none of them is below offset.
Rising(q, offset) ==
    \A i \in 1 .. Len(q) : q[i].kind = "ack" =>
        /\ offset <= q[i].offset
        /\ \A j \in 1 .. i : q[j].kind = "ack" => q[j].offset <= q[i].offset

\* A peer that knows of `offset` bytes, and reads q, knows of n.
Told(q, offset, n) ==
    n <= offset \/ \E i \in 1 .. Len(q) : q[i].kind = "ack" /\ n <= q[i].offset

\* q has an ack, and no data before it.
AckFirst(q) ==
    \E i \in 1 .. Len(q) :
        q[i].kind = "ack" /\ \A j \in 1 .. i : q[j].kind # "data"

\* What e has received and not counted in auto_ack_count, its peer knows of or
\* is being told.
OpenTells(e) ==
    linked[e] /\ handshake_succ[e] =>
        Told(Flow(e), sess[Peer(e)].remote_rcv_raw_offset,
             sess[e].rcv_raw_offset - sess[e].auto_ack_count)

\* As long as e waits for an ack with news it has received nothing since
\* reconnect_session, and what it has told is on the connection already: nothing
\* in snd_buf is missed when on_ack throws it away.
WaitTells(e) ==
    /\ linked[e] /\ sess[e].enable /\ ~handshake_succ[e]
    /\ sess[e].remote_rcv_raw_offset < sess[Peer(e)].rcv_raw_offset
    => /\ sess[e].auto_ack_count = 0
       /\ Told(wire[e], sess[Peer(e)].remote_rcv_raw_offset, sess[e].rcv_raw_offset)
       /\ linked[Peer(e)] /\ sess[Peer(e)].enable => AckFirst(wire[Peer(e)])

\* The server's RECONN_HANDSHAKE_2 is followed by the ack of reconnect_session.
HandshakeAck ==
    LET w == wire["server"]
    IN  w # << >> /\ w[1].kind = "RECONN_HANDSHAKE_2" => Len(w) > 1 /\ w[2].kind = "ack"

AckEnd(e) ==
    /\ Rising(Flow(e), sess[Peer(e)].remote_rcv_raw_offset)
    /\ OpenTells(e)
    /\ WaitTells(e)
    /\ sess[e].auto_ack_count = 0 \/ sess[e].auto_ack_count < auto_ack_limit

AckInv == HandshakeAck /\ \A e \in Ends : AckEnd(e)

-----------------------------------------------------------------------------
(* Liveness *)

Lost == \E e \in Ends : ~linked[e]

\* e has called rdt_reconnect on the current connection and has had no on_ack.
Waiting(e) == sess[e].enable /\ sess[e].need_ack /\ ~Lost

\* While an application may send, everything it has sent reaches the peer,
\* what a reconnect resends included, unless the connection is lost first.
DeliveredUnlessLost ==
    \A e \in Ends : \A n \in 1 .. MaxSent :
        (handshake_succ[e] /\ ~Lost /\ sess[e].sent >= n)
            ~> (Lost \/ sess[Peer(e)].rcv_raw_offset >= n)

\* A reconnect in which the peer has bytes to acknowledge completes.
News(e) == sess[Peer(e)].rcv_raw_offset > sess[e].remote_rcv_raw_offset

ReconnectCompletesOnNews ==
    \A e \in Ends : (Waiting(e) /\ News(e)) ~> (Lost \/ handshake_succ[e])

\* A sender stopped by max_raw_snd_buf_size is let go on: the peer's automatic
\* acks make room without the peer's application doing anything.  That the session
\* outlives the refusal is the code's and rdt_session.h:104's; README.md:79 says it
\* does not, see FullIsInvalid.
SenderIsUnblocked ==
    \A e \in Ends : \A len \in MsgSizes :
        (handshake_succ[e] /\ ~Lost /\ Overflows(sess[e], len))
            ~> (Lost \/ ~Overflows(sess[e], len))

-----------------------------------------------------------------------------
(* What the documentation says and the code does not do *)

\* README.md:236 and 264: once both sides have exchanged their acks the
\* callback runs and the whole reconnect is complete.
ReconnectCompletes ==
    \A e \in Ends : Waiting(e) ~> (Lost \/ handshake_succ[e])

\* README.md:79: a session given more than max_raw_snd_buf_size to keep becomes
\* invalid and has to be established again.
FullIsInvalid ==
    \A e \in Ends : \A len \in MsgSizes :
        get_session(e) /\ sess[e].raw_snd_size + len > max_raw_snd_buf_size
            => ~rdts_send(sess[e], len).enable

\* README.md:221: whenever the client needs to reconnect it opens a new
\* connection and starts over with rdt_disable.
ClientCanReconnect == (\A e \in Ends : ~linked[e]) => get_session("client")

-----------------------------------------------------------------------------
(* The promise of RdtStream *)

Stream == INSTANCE RdtStream
            WITH submitted <- [e \in Ends |-> sess[e].sent],
                 delivered <- [e \in Ends |-> sess[e].received]

ImplementsStream == Stream!StreamSpec
=============================================================================
