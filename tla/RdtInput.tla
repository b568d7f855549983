------------------------------ MODULE RdtInput ------------------------------
(***************************************************************************)
(* The packet format of rdt_session.c, byte by byte, and rdts_input, which *)
(* takes packets out of what the transport delivers.                       *)
(*                                                                         *)
(* A packet is one header byte (two 4-bit sizes), an optional ack offset,  *)
(* an optional data length, and the data; numbers take 1, 2, 4 or 8 bytes, *)
(* least significant first.  Base is 256 in the code; a smaller base       *)
(* brings all four widths within small numbers.                            *)
(*                                                                         *)
(* One call of rdts_input is a loop, modelled turn by turn so that it can  *)
(* fail to return.  Bytes that no packet could be made of wait in rcv_buf  *)
(* for the next call.  Histories (sent, handled) are per connection.       *)
(***************************************************************************)
EXTENDS Integers, SequencesExt

CONSTANTS
    Base,          \* values of a byte of a number
    Offsets,       \* ack offsets the peer sends
    Lengths,       \* lengths of the data the peer sends
    LogInput,      \* is RDTS_LOG_INPUT on
    MaxPackets,    \* bound: packets sent on one connection
    MaxBuf         \* bound: bytes rcv_buf grows to

\* The powers of Base up to the eighth: byte i of a number counts Place[i].
Place ==
    LET b2 == Base * Base  b3 == b2 * Base  b4 == b3 * Base  b5 == b4 * Base
        b6 == b5 * Base    b7 == b6 * Base  b8 == b7 * Base
    IN  << 1, Base, b2, b3, b4, b5, b6, b7, b8 >>

UCHAR_MAX == Place[2] - 1
USHRT_MAX == Place[3] - 1
UINT_MAX  == Place[5] - 1
UINT64_MAX == Place[9] - 1

\* init_packet_header takes a uint64_t and a uint32_t.
ASSUME InputAssumption ==
    /\ Base \in 2 .. 256
    /\ Offsets \subseteq 0 .. UINT64_MAX
    /\ Lengths \subseteq 1 .. UINT_MAX
    /\ LogInput \in BOOLEAN
    /\ MaxPackets \in Nat
    /\ MaxBuf \in Nat

VARIABLES
    rcv_buf,  \* rdts->rcv_buf
    call,     \* the call in progress: what is left of the input, and its locals
    wire,     \* encoded packets under way
    sent,     \* packets the peer has sent on this connection
    handled,  \* calls of rdts_on_rcv_ack and rdts_on_rcv_data on this connection
    unit      \* history: what the transport has made of the packets

vars == << rcv_buf, call, wire, sent, handled, unit >>

\* "whole": deliveries have come to whole packets; "cut": the last one has ended
\* inside a packet; "torn": a connection has ended so.
Units == {"whole", "cut", "torn"}

-----------------------------------------------------------------------------
(* Encoding *)

\* the largest one-byte number declared as two bytes
Bug_SizeCode(n) ==
    CASE n = 0          -> 0
      [] n \in 1 .. UCHAR_MAX - 1 -> 1
      [] n \in UCHAR_MAX .. USHRT_MAX -> 2
      [] n \in USHRT_MAX + 1 .. UINT_MAX -> 3
      [] OTHER          -> 4

\* init_packet_header: SIZE_NONE, SIZE_UINT8, SIZE_UINT16, SIZE_UINT32, SIZE_UINT64.
SizeCode(n) ==
    CASE n = 0          -> 0
      [] n \in 1 .. UCHAR_MAX -> 1
      [] n \in UCHAR_MAX + 1 .. USHRT_MAX -> 2
      [] n \in USHRT_MAX + 1 .. UINT_MAX -> 3
      [] OTHER          -> 4

\* The width of a number of a given size code.
Width == << 1, 2, 4, 8 >>

init_packet_header(offset, data_len) == SizeCode(offset) + 16 * SizeCode(data_len)

\* mbuf_push_number writes a byte even for 0, for which the header declares none.
NumberWidth(n) ==
    IF n <= UCHAR_MAX THEN 1 ELSE IF n <= USHRT_MAX THEN 2 ELSE IF n <= UINT_MAX THEN 4 ELSE 8

\* the last byte holds all that is left
Bug_mbuf_push_number(n) == [i \in 1 .. NumberWidth(n) |-> n \div Place[i]]

mbuf_push_number(n) == [i \in 1 .. NumberWidth(n) |-> (n \div Place[i]) % Base]

Payload(len) == [i \in 1 .. len |-> i % Base]

AckPacket(offset) == [kind |-> "ack", offset |-> offset]
DataPacket(len) == [kind |-> "data", data |-> Payload(len)]

Packets == {AckPacket(n) : n \in Offsets} \cup {DataPacket(n) : n \in Lengths}

\* What rdts_send_ack, rdts_send and rdts_push_raw put into snd_buf.
Encoded(pkt) ==
    IF pkt.kind = "ack"
    THEN << init_packet_header(pkt.offset, 0) >> \o mbuf_push_number(pkt.offset)
    ELSE LET len == Len(pkt.data)
         IN  << init_packet_header(0, len) >> \o mbuf_push_number(len) \o pkt.data

-----------------------------------------------------------------------------
(* Decoding *)

\* The number in the w bytes of p after the first k.
ReadNumber(p, k, w) ==
    SumFunctionOnSet([i \in 1 .. w |-> p[k + i] * Place[i]], 1 .. w)

\* the header byte itself not counted
Bug_PkgLen(fields, data_size) == fields - 1 + data_size

\* pkg_len, fields being the header byte and the numbers after it.
PkgLen(fields, data_size) == fields + data_size

\* parse_header on the bytes p.  A size that does not fit, and a size code
\* above 4, is DECODE_HEADER_ERR; only missing data is DECODE_HEADER_LACK.
parse_header(p) ==
    LET ack_code  == p[1] % 16
        data_code == p[1] \div 16
        aw        == IF ack_code = 0 THEN 0 ELSE Width[ack_code]
        dw        == IF data_code = 0 THEN 0 ELSE Width[data_code]
        fields    == 1 + aw + dw
        data_size == ReadNumber(p, 1 + aw, dw) % (UINT_MAX + 1)
    IN  IF ack_code > 4 \/ data_code > 4 THEN [r |-> "DECODE_HEADER_ERR"]
        ELSE IF fields > Len(p) THEN [r |-> "DECODE_HEADER_ERR"]
        ELSE IF data_size > 0 /\ fields + data_size > Len(p)
        THEN [r |-> "DECODE_HEADER_LACK"]
        ELSE [r          |-> "DECODE_HEADER_OK",
              ack_offset |-> ReadNumber(p, 1, aw),
              data       |-> SubSeq(p, fields + 1, fields + data_size),
              pkg_len    |-> PkgLen(fields, data_size)]

\* The handlers rdts_input calls for a packet, as the packets they amount to.
Handlers(ack_offset, data) ==
    (IF ack_offset > 0 THEN << AckPacket(ack_offset) >> ELSE << >>)
        \o (IF data # << >> THEN << [kind |-> "data", data |-> data] >> ELSE << >>)

-----------------------------------------------------------------------------
(* The peer and the transport *)

Idle == [pc |-> "idle"]

Init ==
    /\ rcv_buf = << >>
    /\ call = Idle
    /\ wire = << >>
    /\ sent = << >>
    /\ handled = << >>
    /\ unit = "whole"

PeerSends ==
    /\ Len(sent) < MaxPackets
    /\ \E pkt \in Packets :
         /\ wire' = Append(wire, Encoded(pkt))
         /\ sent' = Append(sent, pkt)
    /\ UNCHANGED << rcv_buf, call, handled, unit >>

\* A new connection; reconnect_session leaves rcv_buf as it is.
Reconnect ==
    /\ call = Idle
    /\ wire' = << >>
    /\ sent' = << >>
    /\ handled' = << >>
    /\ unit' = IF unit = "whole" THEN "whole" ELSE "torn"
    /\ UNCHANGED << rcv_buf, call >>

\* After k whole packets a delivery may end with part of the next one.
CutPlaces(k) ==
    IF k = Len(wire) THEN {0} ELSE 0 .. Len(wire[k + 1]) - 1

-----------------------------------------------------------------------------
(* rdts_input *)

\* The call, up to its loop.
rdts_input(buf) ==
    LET use_buf == rcv_buf # << >>
    IN  /\ rcv_buf' = IF use_buf THEN rcv_buf \o buf ELSE rcv_buf
        /\ call' = [pc        |-> "loop",
                    pinput    |-> rcv_buf \o buf,
                    use_buf   |-> use_buf,
                    drain_len |-> 0]

Deliver ==
    /\ call = Idle
    /\ \E k \in 0 .. Len(wire) : \E c \in CutPlaces(k) :
         LET part == IF c = 0 THEN << >> ELSE SubSeq(wire[k + 1], 1, c)
             rest == SubSeq(wire, k + 1, Len(wire))
         IN  /\ k + c > 0
             /\ rdts_input(FlattenSeq(SubSeq(wire, 1, k)) \o part)
             /\ wire' = IF c = 0 THEN rest
                        ELSE [rest EXCEPT ![1] = SubSeq(@, c + 1, Len(@))]
             /\ unit' = IF unit = "torn" THEN "torn" ELSE IF c = 0 THEN "whole" ELSE "cut"
    /\ UNCHANGED << sent, handled >>

Looping == call.pc = "loop"

Parsed == parse_header(call.pinput)

HasHeader == Looping /\ Len(call.pinput) > 1

\* MBUF_ENQ(rcv_buf, pinput, len), unless the input is rcv_buf's own.
Keep == IF call.use_buf THEN rcv_buf ELSE rcv_buf \o call.pinput

\* rcv_buf not drained
Bug_Drained(buf) == buf

\* mbuf_drain(rcv_buf, drain_len) before the return.
Drained(buf) ==
    IF call.use_buf THEN SubSeq(buf, call.drain_len + 1, Len(buf)) ELSE buf

\* len <= sizeof(rdt_header_t)
TooShort ==
    /\ Looping
    /\ Len(call.pinput) <= 1
    /\ rcv_buf' = Drained(Keep)
    /\ call' = Idle
    /\ UNCHANGED << wire, sent, handled, unit >>

HeaderOk ==
    /\ HasHeader
    /\ Parsed.r = "DECODE_HEADER_OK"
    /\ handled' = handled \o Handlers(Parsed.ack_offset, Parsed.data)
    /\ call' = [call EXCEPT !.pinput    = SubSeq(@, Parsed.pkg_len + 1, Len(@)),
                            !.drain_len = @ + Parsed.pkg_len]
    /\ UNCHANGED << rcv_buf, wire, sent, unit >>

\* No break: the next turn finds the same input, and rcv_buf grows without
\* end (here to MaxBuf).
HeaderLack ==
    /\ HasHeader
    /\ Parsed.r = "DECODE_HEADER_LACK"
    /\ rcv_buf' = IF Len(Keep) <= MaxBuf THEN Keep ELSE rcv_buf
    /\ UNCHANGED << call, wire, sent, handled, unit >>

\* The return -1 is inside the test of the log mask.
HeaderErr ==
    /\ HasHeader
    /\ Parsed.r = "DECODE_HEADER_ERR"
    /\ call' = IF LogInput THEN Idle ELSE call
    /\ UNCHANGED << rcv_buf, wire, sent, handled, unit >>

Turn == TooShort \/ HeaderOk \/ HeaderLack \/ HeaderErr

Next == PeerSends \/ Reconnect \/ Deliver \/ Turn

Spec == Init /\ [][Next]_vars

\* A call, once made, is executed.
FairSpec == Spec /\ WF_vars(Turn)

-----------------------------------------------------------------------------
(* Properties *)

Byte == 0 .. 255

TypeOK ==
    /\ rcv_buf \in Seq(Byte)
    /\ call = Idle \/ /\ call.pinput \in Seq(Byte)
                      /\ call.use_buf \in BOOLEAN
                      /\ call.drain_len \in Nat
    /\ wire \in Seq(Seq(Byte))
    /\ unit \in Units

\* What the receiver should make of a packet: an ack of 0 has no meaning.
MeaningOf(pkt) == IF pkt = AckPacket(0) THEN << >> ELSE << pkt >>

Meaning(pkts) == FlattenSeq([i \in 1 .. Len(pkts) |-> MeaningOf(pkts[i])])

\* The handlers are called for the packets of this connection, in order, each
\* once, with the numbers and bytes the peer encoded, however they were cut and
\* whatever is left in rcv_buf of a connection before; but for a connection
\* that ended inside a packet.
HandledIsSent == unit # "torn" => IsPrefix(handled, Meaning(sent))

\* A call leaves nothing for later but the stray byte of an ack of 0: when
\* everything has been delivered, everything has been handled.
NothingLeft ==
    call = Idle /\ unit = "whole" =>
        /\ rcv_buf \in {<< >>, << 0 >>}
        /\ wire = << >> => handled = Meaning(sent)

\* rdts_input returns when it is given the last byte of a packet with the rest.
InputReturns == (Looping /\ unit = "whole") ~> call = Idle

-----------------------------------------------------------------------------
(* What the documentation says and the code does not do *)

\* rdt_session.h:129: call rdts_input when you received a low level packet, e.g.
\* a tcp packet.
TakesAnyInput == Looping ~> call = Idle

\* README.md:55: nothing lost or duplicated over a reconnect.
HandledIsSentAnyway == IsPrefix(handled, Meaning(sent))
=============================================================================
