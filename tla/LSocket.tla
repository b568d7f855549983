------------------------------- MODULE LSocket -------------------------------
(***************************************************************************)
(* Packets over a TCP connection, one way: sendmsgbyso of the Lua programs *)
(* writes a packet through lsocket's send, and recv_packet, called once    *)
(* for every time select reports the socket readable, cuts the stream into *)
(* packets again.  Both ends are non-blocking (lsocket.c:234).             *)
(*                                                                         *)
(* Byte i of the k-th packet is << k, i >>; the first HeaderLen are its    *)
(* length.  A length can be read off bytes 1 .. HeaderLen of one packet    *)
(* only; what a reader does with any other four bytes is not modelled,     *)
(* the stream is lost by then.                                             *)
(***************************************************************************)
EXTENDS Integers, SequencesExt

CONSTANTS
    HeaderLen,      \* 4 in lsocket.c
    READER_BUFSIZ,  \* most bytes one recv takes
    Capacity,       \* bytes the connection holds between send and recv
    Sizes,          \* lengths of the messages
    MaxPackets      \* bound: packets written

ASSUME SocketAssumption ==
    /\ {HeaderLen, READER_BUFSIZ, Capacity} \subseteq Nat \ {0}
    /\ Sizes \subseteq Nat \ {0}
    /\ MaxPackets \in Nat

VARIABLES
    sent,       \* sent[k]: length of the k-th packet's message
    len,        \* len of sendmsgbyso's loop, Idle outside of it
    wire,       \* bytes in the connection
    input_buf,  \* bytes received and not handed out
    handed,     \* numbers of the packets recv_packet has returned
    refused     \* has recv_packet returned false

streamVars == << sent, len, wire, input_buf, handed, refused >>

Idle == -2

StreamInit ==
    /\ sent = << >> /\ len = Idle
    /\ wire = << >> /\ input_buf = << >>
    /\ handed = << >> /\ refused = FALSE

-----------------------------------------------------------------------------
(* Writing *)

\* pack_msg: the length, then the message.
packet_pack(k) == [i \in 1 .. HeaderLen + sent[k] |-> << k, i >>]

\* so:send(data): as much as fits.  When nothing does the number returned is
\* send's own -1, pushed over the false of the comment.
Fits(data) ==
    LET room == Capacity - Len(wire)
    IN  IF Len(data) <= room THEN data ELSE SubSeq(data, 1, room)

SendResult(data) == IF Len(wire) = Capacity THEN -1 ELSE Len(Fits(data))

\* sendmsgbyso is called with a message of n bytes.
sendmsgbyso(n) ==
    /\ len = Idle
    /\ Len(sent) < MaxPackets
    /\ sent' = Append(sent, n)
    /\ len' = 0
    /\ UNCHANGED << wire, input_buf, handed, refused >>

\* One turn of its loop.  len is what this send took, not what all have.
SendTurn ==
    LET msg  == packet_pack(Len(sent))
        data == SubSeq(msg, IF len < 0 THEN 1 ELSE len + 1, Len(msg))
    IN  /\ len # Idle
        /\ wire' = wire \o Fits(data)
        /\ len' = IF SendResult(data) = Len(msg) THEN Idle ELSE SendResult(data)
        /\ UNCHANGED << sent, input_buf, handed, refused >>

-----------------------------------------------------------------------------
(* Reading *)

IsHeader(buf) == \A i \in 1 .. HeaderLen : buf[i] = << buf[1][1], i >>

\* No packet yet: no more than a header, or less than the header says.
Lacks(buf) ==
    \/ Len(buf) <= HeaderLen
    \/ Len(buf) < HeaderLen + sent[buf[1][1]]

\* drained without the header
Bug_Rest(buf) == SubSeq(buf, sent[buf[1][1]] + 1, Len(buf))

\* mbuf_drain of the packet handed out.
Rest(buf) == SubSeq(buf, HeaderLen + sent[buf[1][1]] + 1, Len(buf))

\* recv_packet on a readable socket: one recv, of which the network decides how
\* much has come, and at most one packet.
recv_packet ==
    \E n \in 1 .. Len(wire) :
        LET buf == input_buf \o SubSeq(wire, 1, n)
        IN  /\ n <= READER_BUFSIZ
            /\ wire' = SubSeq(wire, n + 1, Len(wire))
            /\ Len(buf) > HeaderLen => IsHeader(buf)
            /\ IF Lacks(buf)
               THEN input_buf' = buf /\ refused' = TRUE /\ UNCHANGED handed
               ELSE /\ input_buf' = Rest(buf)
                    /\ handed' = Append(handed, buf[1][1])
                    /\ UNCHANGED refused
            /\ UNCHANGED << sent, len >>

-----------------------------------------------------------------------------

StreamNext == (\E n \in Sizes : sendmsgbyso(n)) \/ SendTurn \/ recv_packet

StreamSpec == StreamInit /\ [][StreamNext]_streamVars

\* The sender's loop runs on, and select reports a readable socket.
FairStreamSpec == StreamSpec /\ WF_streamVars(SendTurn) /\ WF_streamVars(recv_packet)

-----------------------------------------------------------------------------
(* Properties *)

\* The bytes of packets j .. k, back to back.
Packets(j, k) == FlattenSeq([i \in 1 .. k - j + 1 |-> packet_pack(i + j - 1)])

\* rdt_client.lua:54-67, lsocket.c:798: whatever the chunks the network makes
\* of it, what has been handed out, is buffered and is under way are the
\* packets written, whole, in order, and once each.  (So it also says what the
\* values of handed, input_buf and wire can be.)
StreamIntact ==
    /\ handed = [i \in 1 .. Len(handed) |-> i]
    /\ IsPrefix(input_buf \o wire, Packets(Len(handed) + 1, Len(sent)))
    /\ len = Idle => input_buf \o wire = Packets(Len(handed) + 1, Len(sent))

-----------------------------------------------------------------------------
(* What the documentation says and the code does not do *)

\* lsocket.c:798: a packet that has been written is handed out in the end.
AllHandedOut ==
    \A k \in 1 .. MaxPackets : (Len(sent) >= k) ~> (Len(handed) >= k)

\* rdt_client.lua:183: assert(so:recv_packet()) holds.
AssertHolds == ~refused
=============================================================================
