------------------------- MODULE RdtReconnectProofs -------------------------
(***************************************************************************)
(* Proofs about RdtReconnect, for all sizes of the retransmission buffer,  *)
(* all ack limits and message sizes and any number of reconnects; then     *)
(* about acks when both applications wait: none is refused, and at rest no *)
(* side owes the other more than auto_ack_limit allows.                    *)
(*                                                                         *)
(* The last part is about RdtMessages: every message of an application     *)
(* that waits is handed out whole, once and in order, and none is ever     *)
(* left in part in raw_rcv_buf, for all sizes of messages and headers.     *)
(***************************************************************************)
EXTENDS RdtMessages, RdtSessionProofs

-----------------------------------------------------------------------------
(* Chains *)

\* A chain goes forward.
LEMMA ChainForward ==
  ASSUME NEW q \in Seq(Message), NEW a \in Nat, NEW b \in Nat, Chain(q, a, b)
  PROVE  a <= b
<1>1. PICK f \in [0 .. Len(q) -> a .. b] : f[0] = a
  BY DEF Chain, Follows
<1>. QED
  BY <1>1

\* Without data under way the receiver is where the sender is.
LEMMA ChainWithoutData ==
  ASSUME NEW q \in Seq(Message), NEW a \in Nat, NoData(q)
  PROVE  Chain(q, a, a)
<1>. DEFINE f == [i \in 0 .. Len(q) |-> a]
<1>1. f \in [0 .. Len(q) -> a .. a]
  OBVIOUS
<1>2. Follows(f, q, a, a)
  BY DEF NoData, Follows
<1>. QED
  BY <1>1, <1>2 DEF Chain

\* The next data packet lengthens the chain, anything else leaves it.
LEMMA ChainAppend ==
  ASSUME NEW q \in Seq(Message), NEW a \in Nat, NEW b \in Nat, Chain(q, a, b),
         NEW m \in Message, NEW c \in Nat, b <= c,
         IF m.kind = "data" THEN m.lo = b /\ c = b + m.len ELSE c = b
  PROVE  Chain(Append(q, m), a, c)
<1>. DEFINE n == Len(q)
            r == Append(q, m)
<1>1. PICK f \in [0 .. n -> a .. b] : Follows(f, q, a, b)
  BY DEF Chain
<1>. DEFINE g == [i \in 0 .. n + 1 |-> IF i <= n THEN f[i] ELSE c]
<1>2. /\ n \in Nat /\ Len(r) = n + 1
      /\ r[n + 1] = m /\ \A i \in 1 .. n : r[i] = q[i]
  OBVIOUS
<1>3. a <= b
  BY ChainForward
<1>4. g \in [0 .. n + 1 -> a .. c]
  BY <1>2, <1>3
<1>5. g[n + 1] = c /\ \A i \in 0 .. n : g[i] = f[i]
  BY <1>2
<1>. HIDE DEF g, r
<1>6. g[0] = a /\ f[n] = b
  BY <1>1, <1>2, <1>5 DEF Follows
<1>7. ASSUME NEW i \in 0 .. n + 1, NEW j \in 0 .. n + 1, i <= j
      PROVE  g[i] <= g[j]
  <2>1. CASE j = n + 1
    BY <1>2, <1>4, <1>5, <2>1
  <2>2. CASE j \in 0 .. n
    BY <1>1, <1>2, <1>5, <1>7, <2>2 DEF Follows
  <2>. QED
    BY <1>2, <2>1, <2>2
<1>8. ASSUME NEW i \in 1 .. n + 1
      PROVE  IF r[i].kind = "data"
             THEN r[i].lo = g[i - 1] /\ g[i] = g[i - 1] + r[i].len
             ELSE g[i] = g[i - 1]
  <2>1. CASE i = n + 1
    BY <1>2, <1>5, <1>6, <2>1
  <2>2. CASE i \in 1 .. n
    <3>1. r[i] = q[i] /\ g[i] = f[i] /\ g[i - 1] = f[i - 1]
      BY <1>2, <1>5, <2>2
    <3>. QED
      BY <1>1, <2>2, <3>1 DEF Follows
  <2>. QED
    BY <1>2, <2>1, <2>2
<1>9. Follows(g, r, a, c)
  BY <1>2, <1>5, <1>6, <1>7, <1>8 DEF Follows
<1>10. Chain(r, a, c)
  BY <1>2, <1>4, <1>9 DEF Chain
<1>. QED
  BY <1>10 DEF r

\* Reading the first packet of a chain leaves a chain; if it is data it is the
\* data the receiver lacks next.
LEMMA ChainTail ==
  ASSUME NEW q \in Seq(Message), q # << >>,
         NEW a \in Nat, NEW b \in Nat, Chain(q, a, b)
  PROVE  /\ Head(q).kind # "data" => Chain(Tail(q), a, b)
         /\ Head(q).kind = "data" =>
              \A len \in Nat : Head(q).len = len =>
                 Head(q).lo = a /\ a + len <= b /\ Chain(Tail(q), a + len, b)
<1>. DEFINE n == Len(q)
            r == Tail(q)
            d == IF Head(q).kind = "data" THEN a + Head(q).len ELSE a
<1>1. PICK f \in [0 .. n -> a .. b] : Follows(f, q, a, b)
  BY DEF Chain
<1>. DEFINE g == [i \in 0 .. n - 1 |-> f[i + 1]]
<1>2. /\ n \in Nat \ {0} /\ Len(r) = n - 1 /\ Head(q) = q[1]
      /\ \A i \in 1 .. n - 1 : r[i] = q[i + 1]
  OBVIOUS
<1>3. /\ f[1] = d
      /\ f[n] = b
      /\ Head(q).kind = "data" => Head(q).lo = a
  BY <1>1, <1>2 DEF Follows
<1>4. d \in a .. b
  BY <1>2, <1>3
<1>. HIDE DEF d
<1>5. \A i \in 1 .. n : f[i] \in d .. b
  BY <1>1, <1>2, <1>3, <1>4 DEF Follows
<1>6. g \in [0 .. n - 1 -> d .. b]
  BY <1>2, <1>5
<1>7. \A i \in 0 .. n - 1 : g[i] = f[i + 1]
  OBVIOUS
<1>. HIDE DEF g, r
<1>8. g[0] = d /\ g[n - 1] = b
  BY <1>2, <1>3, <1>7
<1>9. \A i, j \in 0 .. n - 1 : i <= j => g[i] <= g[j]
  BY <1>1, <1>2, <1>7 DEF Follows
<1>10. ASSUME NEW i \in 1 .. n - 1
       PROVE  IF r[i].kind = "data"
              THEN r[i].lo = g[i - 1] /\ g[i] = g[i - 1] + r[i].len
              ELSE g[i] = g[i - 1]
  <2>1. r[i] = q[i + 1] /\ g[i] = f[i + 1] /\ g[i - 1] = f[i]
    BY <1>2, <1>7
  <2>2. i + 1 \in 1 .. n /\ (i + 1) - 1 = i
    BY <1>2
  <2>. QED
    BY <1>1, <2>1, <2>2 DEF Follows
<1>11. Follows(g, r, d, b)
  BY <1>2, <1>8, <1>9, <1>10 DEF Follows
<1>12. Chain(r, d, b)
  BY <1>2, <1>6, <1>11 DEF Chain
<1>. QED
  BY <1>3, <1>4, <1>12 DEF d, r

-----------------------------------------------------------------------------
(* Sequences of packets *)

\* Adding to the back of what is under way; reading from its front.
LEMMA FlowAppend ==
  ASSUME NEW w \in Seq(Message), NEW s \in Seq(Message), NEW m \in Message
  PROVE  w \o Append(s, m) = Append(w \o s, m)
<1>1. /\ w \o Append(s, m) \in Seq(Message)
      /\ Append(w \o s, m) \in Seq(Message)
      /\ Len(w \o Append(s, m)) = Len(Append(w \o s, m))
  OBVIOUS
<1>2. \A i \in 1 .. Len(w \o Append(s, m)) :
         (w \o Append(s, m))[i] = Append(w \o s, m)[i]
  OBVIOUS
<1>. QED
  BY <1>1, <1>2, SeqEqual

\* Reading the head of the connection leaves the tail of what is under way.
LEMMA FlowRead ==
  ASSUME NEW w \in Seq(Message), NEW s \in Seq(Message), w # << >>
  PROVE  /\ w \o s # << >>
         /\ Head(w \o s) = Head(w)
         /\ Tail(w \o s) = Tail(w) \o s
<1>1. /\ w \o s \in Seq(Message) /\ Len(w \o s) = Len(w) + Len(s)
      /\ Len(w) \in Nat \ {0}
  OBVIOUS
<1>2. w \o s # << >> /\ Head(w \o s) = Head(w)
  BY <1>1
<1>3. /\ Tail(w \o s) \in Seq(Message) /\ Tail(w) \o s \in Seq(Message)
      /\ Len(Tail(w \o s)) = Len(Tail(w) \o s)
  BY <1>1
<1>4. \A i \in 1 .. Len(Tail(w \o s)) : Tail(w \o s)[i] = (Tail(w) \o s)[i]
  BY <1>1
<1>. QED
  BY <1>2, <1>3, <1>4, SeqEqual

\* What is true of every packet of a sequence is true of its parts.
LEMMA ReadKeeps ==
  ASSUME NEW q \in Seq(Message), q # << >>, NEW n \in Nat
  PROVE  /\ NoData(q) => NoData(Tail(q))
         /\ AcksAt(q, n) => AcksAt(Tail(q), n)
         /\ AcksUpTo(q, n) => AcksUpTo(Tail(q), n)
         /\ Tail(q) \in Seq(Message)
  BY DEF NoData, AcksAt, AcksUpTo

\* The bounds on acks survive one more packet within them.
LEMMA AppendKeeps ==
  ASSUME NEW q \in Seq(Message), NEW m \in Message, NEW n \in Nat
  PROVE  /\ NoData(q) /\ m.kind # "data" => NoData(Append(q, m))
         /\ AcksAt(q, n) /\ (m.kind = "ack" => m.offset = n) => AcksAt(Append(q, m), n)
         /\ AcksUpTo(q, n) /\ (m.kind = "ack" => m.offset <= n) => AcksUpTo(Append(q, m), n)
  BY DEF NoData, AcksAt, AcksUpTo

\* The bounds on acks hold of what Poll leaves on the connection.
LEMMA ConcatKeeps ==
  ASSUME NEW q \in Seq(Message), NEW r \in Seq(Message), NEW n \in Nat
  PROVE  /\ NoData(q) /\ NoData(r) => NoData(q \o r)
         /\ AcksAt(q, n) /\ AcksAt(r, n) => AcksAt(q \o r, n)
         /\ AcksUpTo(q, n) /\ AcksUpTo(r, n) => AcksUpTo(q \o r, n)
  BY DEF NoData, AcksAt, AcksUpTo

\* The bounds on acks hold of an empty or lost connection.
LEMMA NothingKeeps ==
  ASSUME NEW n \in Nat
  PROVE  NoData(<< >>) /\ AcksAt(<< >>, n) /\ AcksUpTo(<< >>, n)
  BY DEF NoData, AcksAt, AcksUpTo

\* An upper bound on acks survives when its owner receives more.
LEMMA LaterKeeps ==
  ASSUME NEW q \in Seq(Message), NEW n \in Nat, NEW k \in Nat, AcksUpTo(q, n)
  PROVE  AcksUpTo(q, n + k)
<1>1. ASSUME NEW i \in 1 .. Len(q), q[i].kind = "ack"
      PROVE  q[i].offset <= n + k
  <2>1. q[i] \in Message
    OBVIOUS
  <2>2. q[i].offset \in Nat
    BY <1>1, <2>1 DEF Message, Packet, RECONN_HANDSHAKE_1, RECONN_HANDSHAKE_2
  <2>3. q[i].offset <= n
    BY <1>1 DEF AcksUpTo
  <2>. QED
    BY <2>2, <2>3
<1>. QED
  BY <1>1 DEF AcksUpTo

-----------------------------------------------------------------------------
(* The two ends *)

\* Each end is the peer of the other.
LEMMA PeerFacts ==
  ASSUME NEW e \in Ends
  PROVE  /\ Peer(e) \in Ends
         /\ Peer(e) # e
         /\ Peer(Peer(e)) = e
         /\ \A d \in Ends : d = e \/ d = Peer(e)
         /\ e = "client" <=> Peer(e) = "server"
         /\ e = "server" <=> Peer(e) = "client"
  BY DEF Ends, Peer

\* What the type invariant says of one end.
LEMMA EndFacts ==
  ASSUME IInv, NEW e \in Ends
  PROVE  /\ Sound(sess[e])
         /\ sess[e].rcv_raw_offset \in Nat
         /\ sess[e].remote_rcv_raw_offset \in Nat
         /\ sess[e].sent \in Nat
         /\ sess[e].snd_buf \in Seq(Packet)
         /\ sess[e].snd_buf \in Seq(Message)
         /\ wire[e] \in Seq(Message)
         /\ Flow(e) \in Seq(Message)
<1>1. sess[e] \in Session /\ wire[e] \in Seq(Message)
  BY DEF IInv, TypeOK
<1>2. sess[e].snd_buf \in Seq(Packet)
  BY <1>1, SessionFields
<1>3. sess[e].snd_buf \in Seq(Message)
  BY <1>2, SeqMonotonic DEF Message
<1>. QED
  BY <1>1, <1>2, <1>3, SessionFields DEF IInv, EndInv, Sound, Flow

\* Packets come and go without disturbing the handshake.
LEMMA ShapeKeeps ==
  ASSUME IInv, linked' = linked,
         \A d \in Ends :
            /\ sess'[d].enable = sess[d].enable
            /\ ~sess[d].enable => handshake_succ'[d] = handshake_succ[d]
            /\ \/ wire'[d] = wire[d]
               \/ linked[d] /\ \E q \in Seq(Packet) : wire'[d] = wire[d] \o q
               \/ wire[d] # << >> /\ wire'[d] = Tail(wire[d])
  PROVE  HandshakeShape'
<1>. DEFINE Named(q, i, k) == i \in 1 .. Len(q) /\ q[i].kind = k
            one == "RECONN_HANDSHAKE_1"
            two == "RECONN_HANDSHAKE_2"
<1>1. "client" \in Ends /\ "server" \in Ends
  BY DEF Ends
<1>2. \A d \in Ends : wire[d] \in Seq(Message) /\ (wire[d] # << >> => linked[d])
  BY DEF IInv, TypeOK, HandshakeShape
<1>3. \A d \in Ends : wire'[d] # << >> => linked'[d]
  BY <1>2
<1>4. \A k \in {one, two} : \A m \in Packet : m.kind # k
  BY DEF Packet
<1>5. ASSUME NEW d \in Ends, NEW k \in {one, two}, NEW i, Named(wire'[d], i, k)
      PROVE  \E j : Named(wire[d], j, k) /\ i <= j /\ i \in Nat \ {0} /\ j \in Nat
  <2>1. CASE wire'[d] = wire[d]
    BY <1>5, <2>1
  <2>2. CASE \E q \in Seq(Packet) : wire'[d] = wire[d] \o q
    <3>1. PICK q \in Seq(Packet) : wire'[d] = wire[d] \o q
      BY <2>2
    <3>2. i \in 1 .. Len(wire[d]) + Len(q)
      BY <1>2, <1>5, <3>1
    <3>3. ~(i > Len(wire[d]))
      <4>1. SUFFICES ASSUME i > Len(wire[d]) PROVE FALSE
        OBVIOUS
      <4>2. i - Len(wire[d]) \in 1 .. Len(q)
        BY <1>2, <3>2, <4>1
      <4>3. q[i - Len(wire[d])] \in Packet
        BY <4>2
      <4>4. wire'[d][i] = q[i - Len(wire[d])]
        BY <1>2, <3>1, <3>2, <4>1
      <4>. QED
        BY <1>4, <1>5, <4>3, <4>4
    <3>4. i \in 1 .. Len(wire[d]) /\ wire'[d][i] = wire[d][i]
      BY <1>2, <3>1, <3>2, <3>3
    <3>. QED
      BY <1>5, <3>4
  <2>3. CASE wire[d] # << >> /\ wire'[d] = Tail(wire[d])
    <3>1. i \in 1 .. Len(wire[d]) - 1 /\ wire'[d][i] = wire[d][i + 1]
      BY <1>2, <1>5, <2>3
    <3>2. Named(wire[d], i + 1, k) /\ i <= i + 1 /\ i \in Nat \ {0} /\ i + 1 \in Nat
      BY <1>2, <1>5, <3>1
    <3>. QED
      BY <3>2
  <2>. QED
    BY <2>1, <2>2, <2>3
<1>6. /\ \A i : Named(wire["client"], i, one) => ~sess["client"].enable /\ ~linked["server"]
      /\ \A i : Named(wire["server"], i, two) => i = 1 /\ ~sess["client"].enable
      /\ sess["server"].enable
      /\ ~sess["client"].enable => ~handshake_succ["client"]
  BY DEF IInv, HandshakeShape
<1>7. \A i : Named(wire'["client"], i, one) => ~sess'["client"].enable /\ ~linked'["server"]
  BY <1>1, <1>5, <1>6
<1>8. \A i : Named(wire'["server"], i, two) => i = 1 /\ ~sess'["client"].enable
  <2>1. SUFFICES ASSUME NEW i, Named(wire'["server"], i, two)
                 PROVE  i = 1 /\ ~sess'["client"].enable
    OBVIOUS
  <2>2. PICK j : Named(wire["server"], j, two) /\ i <= j /\ i \in Nat \ {0} /\ j \in Nat
    BY <1>1, <1>5, <2>1
  <2>3. j = 1 /\ ~sess["client"].enable
    BY <1>6, <2>2
  <2>. QED
    BY <1>1, <2>2, <2>3
<1>. QED
  BY <1>1, <1>3, <1>6, <1>7, <1>8 DEF HandshakeShape

-----------------------------------------------------------------------------
(* Each action preserves the inductive invariant *)

\* rdts_send by an application that may send.
LEMMA SendKeeps ==
  ASSUME IInv, NEW e \in Ends, Send(e), ReconnectAssumption
  PROVE  IInv'
<1>1. PICK len \in MsgSizes : sess' = [sess EXCEPT ![e] = rdts_send(@, len)]
  BY DEF Send
<1>. DEFINE p == Peer(e)
            S == sess[e]
            T == rdts_send(S, len)
            m == DataPacket(S.sent, len)
<1>2. len \in Nat \ {0}
  BY DEF ReconnectAssumption
<1>3. /\ handshake_succ[e] /\ S.enable
      /\ handshake_succ' = handshake_succ /\ linked' = linked /\ wire' = wire
  BY DEF Send, get_session
<1>4. /\ p \in Ends /\ p # e /\ Peer(p) = e
      /\ \A d \in Ends : d = e \/ d = p
  BY PeerFacts
<1>5. Sound(S) /\ Sound(sess[p])
  BY <1>4, EndFacts
<1>6. /\ Sound(T)
      /\ T.enable = S.enable
      /\ T.need_ack = S.need_ack
      /\ T.rcv_raw_offset = S.rcv_raw_offset
      /\ T.remote_rcv_raw_offset = S.remote_rcv_raw_offset
      /\ T.received = S.received
      /\ \/ T = S
         \/ T.sent = S.sent + len /\ T.snd_buf = Append(S.snd_buf, m)
  BY <1>2, <1>5, SendSound
<1>7. sess \in [Ends -> Session]
  BY DEF IInv, TypeOK
<1>8. sess'[e] = T /\ sess'[p] = sess[p] /\ sess' \in [Ends -> Session]
  BY <1>1, <1>4, <1>6, <1>7 DEF Sound
<1>. HIDE DEF T
<1>9. CASE T = S
  <2>1. sess' = sess
    BY <1>4, <1>7, <1>8, <1>9
  <2>. QED
    BY <1>3, <2>1 DEF IInv, TypeOK, HandshakeShape, EndInv, AcksTrue, StreamInv, Covers,
       Intact, OpenInv, WaitInv, Flow
<1>10. CASE T.sent = S.sent + len /\ T.snd_buf = Append(S.snd_buf, m)
  <2>1. m \in Packet /\ m.kind = "data" /\ m.lo = S.sent /\ m.len = len /\ m \in Message
    BY <1>2, EndFacts DEF m, DataPacket, Packet, Message
  <2>. HIDE DEF m
  <2>2. TypeOK'
    BY <1>3, <1>8 DEF IInv, TypeOK
  <2>3. HandshakeShape'
    BY <1>3, <1>4, <1>6, <1>8, ShapeKeeps
  <2>4. EndInv(e)'
    BY <1>3, <1>6, <1>8, <1>10, <2>1, AppendKeeps, EndFacts DEF IInv, EndInv, AcksTrue, Sound
  <2>5. EndInv(p)'
    BY <1>3, <1>4, <1>8 DEF IInv, EndInv, AcksTrue
  <2>6. ASSUME Waits(e) PROVE StreamInv(e)'
    <3>1. StreamInv(e)
      BY <2>6 DEF IInv
    <3>2. Covers(e)' /\ Intact(e)'
      BY <1>2, <1>4, <1>6, <1>8, <1>10, <2>4, <3>1, EndFacts
      DEF StreamInv, Covers, Intact, EndInv
    <3>3. Flow(e)' = Append(Flow(e), m)
      <4>1. Flow(e)' = wire[e] \o Append(S.snd_buf, m)
        BY <1>3, <1>8, <1>10 DEF Flow
      <4>. QED
        BY <2>1, <4>1, FlowAppend, EndFacts DEF Flow
    <3>4. OpenInv(e)'
      BY <1>2, <1>3, <1>4, <1>8, <1>10, <2>1, <3>1, <3>3, ChainAppend, EndFacts
      DEF StreamInv, OpenInv
    <3>. QED
      BY <1>3, <1>6, <1>8, <3>1, <3>2, <3>4 DEF StreamInv, WaitInv
  <2>7. ASSUME Waits(p) PROVE StreamInv(p)'
    <3>1. StreamInv(p)
      BY <1>4, <2>7 DEF IInv
    <3>2. \A n \in Nat : AcksAt(S.snd_buf, n) => AcksAt(T.snd_buf, n)
      BY <1>10, <2>1, AppendKeeps, EndFacts
    <3>. QED
      BY <1>3, <1>4, <1>6, <1>8, <3>1, <3>2, EndFacts
      DEF StreamInv, Covers, Intact, OpenInv, WaitInv, Flow
  <2>. QED
    BY <1>4, <2>2, <2>3, <2>4, <2>5, <2>6, <2>7 DEF IInv, Waits
<1>. QED
  BY <1>6, <1>9, <1>10

\* rdt_ack.
LEMMA AckKeeps ==
  ASSUME IInv, NEW e \in Ends, Ack(e)
  PROVE  IInv'
<1>. DEFINE p == Peer(e)
            S == sess[e]
            T == rdts_send_ack(S)
            m == AckPacket(S.rcv_raw_offset)
<1>1. /\ S.enable
      /\ sess' = [sess EXCEPT ![e] = T]
      /\ handshake_succ' = handshake_succ /\ linked' = linked /\ wire' = wire
  BY DEF Ack, get_session
<1>2. /\ p \in Ends /\ p # e /\ Peer(p) = e
      /\ \A d \in Ends : d = e \/ d = p
  BY PeerFacts
<1>3. Sound(S) /\ Sound(sess[p])
  BY <1>2, EndFacts
<1>4. /\ Sound(T)
      /\ m \in Packet
      /\ T.enable = S.enable
      /\ T.need_ack = S.need_ack
      /\ T.rcv_raw_offset = S.rcv_raw_offset
      /\ T.remote_rcv_raw_offset = S.remote_rcv_raw_offset
      /\ T.received = S.received
      /\ T.sent = S.sent
      /\ T.snd_buf = Append(S.snd_buf, m)
  BY <1>3, SendAckSound
<1>5. m \in Message /\ m.kind = "ack" /\ m.offset = S.rcv_raw_offset
  BY <1>4 DEF AckPacket, Message
<1>6. sess \in [Ends -> Session]
  BY DEF IInv, TypeOK
<1>7. sess'[e] = T /\ sess'[p] = sess[p] /\ sess' \in [Ends -> Session]
  BY <1>1, <1>2, <1>4, <1>6 DEF Sound
<1>. HIDE DEF T, m
<1>8. TypeOK'
  BY <1>1, <1>7 DEF IInv, TypeOK
<1>9. HandshakeShape'
  BY <1>1, <1>2, <1>4, <1>7, ShapeKeeps
<1>10. EndInv(e)'
  <2>1. AcksUpTo(wire[e], S.rcv_raw_offset) /\ AcksUpTo(S.snd_buf, S.rcv_raw_offset)
    BY DEF IInv, EndInv, AcksTrue
  <2>2. AcksUpTo(T.snd_buf, S.rcv_raw_offset)
    BY <1>4, <1>5, <2>1, AppendKeeps, EndFacts
  <2>. QED
    BY <1>1, <1>4, <1>7, <2>1, <2>2 DEF EndInv, AcksTrue, Sound
<1>11. EndInv(p)'
  BY <1>1, <1>2, <1>7 DEF IInv, EndInv, AcksTrue
<1>12. ASSUME Waits(e) PROVE StreamInv(e)'
  <2>1. StreamInv(e)
    BY <1>12 DEF IInv
  <2>2. Covers(e)' /\ Intact(e)'
    BY <1>2, <1>4, <1>7, <1>10, <2>1, EndFacts
    DEF StreamInv, Covers, Intact, EndInv
  <2>3. Flow(e)' = Append(Flow(e), m)
    <3>1. Flow(e)' = wire[e] \o Append(S.snd_buf, m)
      BY <1>1, <1>4, <1>7 DEF Flow
    <3>. QED
      BY <1>5, <3>1, FlowAppend, EndFacts DEF Flow
  <2>4. OpenInv(e)'
    BY <1>1, <1>2, <1>4, <1>5, <1>7, <2>1, <2>3, ChainAppend, EndFacts
    DEF StreamInv, OpenInv
  <2>5. NoData(S.snd_buf) => NoData(T.snd_buf)
    BY <1>4, <1>5, AppendKeeps, EndFacts
  <2>. QED
    BY <1>1, <1>2, <1>4, <1>7, <2>1, <2>2, <2>4, <2>5 DEF StreamInv, WaitInv
<1>13. ASSUME Waits(p) PROVE StreamInv(p)'
  <2>1. StreamInv(p)
    BY <1>2, <1>13 DEF IInv
  <2>2. AcksAt(S.snd_buf, S.rcv_raw_offset) => AcksAt(T.snd_buf, S.rcv_raw_offset)
    BY <1>4, <1>5, AppendKeeps, EndFacts
  <2>. QED
    BY <1>1, <1>2, <1>4, <1>7, <2>1, <2>2, EndFacts
    DEF StreamInv, Covers, Intact, OpenInv, WaitInv, Flow
<1>. QED
  BY <1>2, <1>8, <1>9, <1>10, <1>11, <1>12, <1>13 DEF IInv, Waits

\* rdt_poll and the write that follows it.
LEMMA PollKeeps ==
  ASSUME IInv, NEW e \in Ends, Poll(e)
  PROVE  IInv'
<1>. DEFINE p == Peer(e)
            S == sess[e]
            T == pollout(S)
<1>1. /\ S.enable
      /\ sess' = [sess EXCEPT ![e] = T]
      /\ handshake_succ' = handshake_succ /\ linked' = linked
  BY DEF Poll, get_session
<1>2. /\ p \in Ends /\ p # e /\ Peer(p) = e
      /\ \A d \in Ends : d = e \/ d = p
  BY PeerFacts
<1>3. Sound(S) /\ Sound(sess[p])
  BY <1>2, EndFacts
<1>4. /\ Sound(T)
      /\ T.enable = S.enable
      /\ T.need_ack = S.need_ack
      /\ T.rcv_raw_offset = S.rcv_raw_offset
      /\ T.remote_rcv_raw_offset = S.remote_rcv_raw_offset
      /\ T.received = S.received
      /\ T.sent = S.sent
      /\ T.snd_buf = << >>
  BY <1>3, PolloutSound
<1>5. sess \in [Ends -> Session] /\ wire \in [Ends -> Seq(Message)]
  BY DEF IInv, TypeOK
<1>6. sess'[e] = T /\ sess'[p] = sess[p] /\ sess' \in [Ends -> Session]
  BY <1>1, <1>2, <1>4, <1>5 DEF Sound
<1>7. /\ wire'[p] = wire[p]
      /\ wire' \in [Ends -> Seq(Message)]
      /\ \/ linked[e] /\ wire'[e] = wire[e] \o S.snd_buf
         \/ ~linked[e] /\ wire'[e] = wire[e]
  <2>1. wire[e] \o S.snd_buf \in Seq(Message)
    BY EndFacts
  <2>. QED
    BY <1>2, <1>5, <2>1 DEF Poll
<1>. HIDE DEF T
<1>8. TypeOK'
  BY <1>1, <1>6, <1>7 DEF IInv, TypeOK
<1>9. HandshakeShape'
  <2>1. S.snd_buf \in Seq(Packet)
    BY EndFacts
  <2>. QED
    BY <1>1, <1>2, <1>4, <1>6, <1>7, <2>1, ShapeKeeps
<1>10. EndInv(e)'
  <2>1. AcksUpTo(wire[e], S.rcv_raw_offset) /\ AcksUpTo(S.snd_buf, S.rcv_raw_offset)
    BY DEF IInv, EndInv, AcksTrue
  <2>2. AcksUpTo(wire'[e], S.rcv_raw_offset)
    BY <1>7, <2>1, ConcatKeeps, EndFacts
  <2>3. AcksUpTo(T.snd_buf, S.rcv_raw_offset)
    BY <1>4, NothingKeeps, EndFacts
  <2>. QED
    BY <1>4, <1>6, <2>2, <2>3 DEF EndInv, AcksTrue, Sound
<1>11. EndInv(p)'
  BY <1>1, <1>2, <1>6, <1>7 DEF IInv, EndInv, AcksTrue
<1>12. ASSUME Waits(e) PROVE StreamInv(e)'
  <2>1. StreamInv(e)
    BY <1>12 DEF IInv
  <2>2. Covers(e)' /\ Intact(e)'
    BY <1>2, <1>4, <1>6, <1>10, <2>1, EndFacts
    DEF StreamInv, Covers, Intact, EndInv
  <2>3. linked[e] => Flow(e)' = Flow(e)
    <3>1. linked[e] => Flow(e)' = Flow(e) \o << >>
      BY <1>4, <1>6, <1>7 DEF Flow
    <3>. QED
      BY <3>1, ConcatEmptySeq, EndFacts
  <2>4. OpenInv(e)'
    BY <1>1, <1>2, <1>4, <1>6, <2>1, <2>3 DEF StreamInv, OpenInv
  <2>5. WaitInv(e)'
    <3>1. ~handshake_succ[e] => NoData(wire'[e])
      BY <1>1, <1>7, <2>1, ConcatKeeps, EndFacts DEF StreamInv, WaitInv
    <3>. QED
      BY <1>1, <1>2, <1>4, <1>6, <1>7, <2>1, <3>1, NothingKeeps DEF StreamInv, WaitInv
  <2>. QED
    BY <1>1, <1>4, <1>6, <2>1, <2>2, <2>4, <2>5 DEF StreamInv
<1>13. ASSUME Waits(p) PROVE StreamInv(p)'
  <2>1. StreamInv(p)
    BY <1>2, <1>13 DEF IInv
  <2>2. WaitInv(p)'
    <3>1. ~handshake_succ[p] => AcksAt(wire'[e], S.rcv_raw_offset)
      BY <1>1, <1>2, <1>7, <2>1, ConcatKeeps, EndFacts DEF StreamInv, WaitInv
    <3>. QED
      BY <1>1, <1>2, <1>4, <1>6, <1>7, <2>1, <3>1, NothingKeeps, EndFacts
      DEF StreamInv, WaitInv
  <2>. QED
    BY <1>1, <1>2, <1>4, <1>6, <1>7, <2>1, <2>2, EndFacts
    DEF StreamInv, Covers, Intact, OpenInv, Flow
<1>. QED
  BY <1>2, <1>8, <1>9, <1>10, <1>11, <1>12, <1>13 DEF IInv, Waits

\* rdts_input on an ack packet.
LEMMA InputAckKeeps ==
  ASSUME IInv, NEW e \in Ends, InputAck(e)
  PROVE  IInv'
<1>. DEFINE p == Peer(e)
            S == sess[e]
            offset == Head(wire[p]).offset
            T == rdts_on_rcv_ack(S, offset)
<1>1. /\ S.enable /\ linked[e] /\ wire[p] # << >> /\ Head(wire[p]).kind = "ack"
      /\ sess' = [sess EXCEPT ![e] = T]
      /\ handshake_succ' = [handshake_succ EXCEPT ![e] = @ \/ CallsOnAck(S, offset)]
      /\ linked' = linked
      /\ wire' = [wire EXCEPT ![p] = Tail(@)]
  BY DEF InputAck, Arrives, Consume, get_session
<1>2. /\ p \in Ends /\ p # e /\ Peer(p) = e
      /\ \A d \in Ends : d = e \/ d = p
  BY PeerFacts
<1>3. Sound(S) /\ Sound(sess[p])
  BY <1>2, EndFacts
<1>4. /\ sess \in [Ends -> Session] /\ wire \in [Ends -> Seq(Message)]
      /\ handshake_succ \in [Ends -> BOOLEAN]
  BY DEF IInv, TypeOK
<1>5. Head(wire[p]) \in Message
  BY <1>1, <1>2, <1>4
<1>6. offset \in Nat
  BY <1>1, <1>5 DEF Message, Packet, RECONN_HANDSHAKE_1, RECONN_HANDSHAKE_2
<1>7. /\ Sound(T)
      /\ T.enable = S.enable
      /\ T.rcv_raw_offset = S.rcv_raw_offset
      /\ T.received = S.received
      /\ T.sent = S.sent
      /\ \/ /\ ~CallsOnAck(S, offset)
            /\ T.need_ack = S.need_ack
            /\ T.snd_buf = S.snd_buf
            /\ T.remote_rcv_raw_offset \in {S.remote_rcv_raw_offset, offset}
         \/ /\ CallsOnAck(S, offset)
            /\ T.need_ack = FALSE
            /\ T.remote_rcv_raw_offset = offset
            /\ \/ /\ offset = S.sent
                  /\ T.snd_buf = S.snd_buf
               \/ /\ offset < S.sent
                  /\ T.snd_buf = << DataPacket(offset, S.sent - offset) >>
  BY <1>3, <1>6, OnRcvAckSound
<1>8. /\ sess'[e] = T /\ sess'[p] = sess[p] /\ sess' \in [Ends -> Session]
      /\ wire'[p] = Tail(wire[p]) /\ wire'[e] = wire[e]
      /\ wire' \in [Ends -> Seq(Message)]
      /\ handshake_succ'[p] = handshake_succ[p]
      /\ handshake_succ' \in [Ends -> BOOLEAN]
  <2>1. Tail(wire[p]) \in Seq(Message)
    BY <1>1, <1>2, <1>4
  <2>2. (handshake_succ[e] \/ CallsOnAck(S, offset)) \in BOOLEAN
    OBVIOUS
  <2>. QED
    BY <1>1, <1>2, <1>4, <1>7, <2>1, <2>2 DEF Sound
<1>9. handshake_succ'[e] <=> handshake_succ[e] \/ CallsOnAck(S, offset)
  BY <1>1, <1>4
<1>10. offset <= sess[p].rcv_raw_offset
  <2>1. AcksUpTo(wire[p], sess[p].rcv_raw_offset)
    BY <1>2 DEF IInv, EndInv, AcksTrue
  <2>2. 1 \in 1 .. Len(wire[p]) /\ Head(wire[p]) = wire[p][1]
    BY <1>1, <1>2, <1>4
  <2>. QED
    BY <1>1, <2>1, <2>2 DEF AcksUpTo
<1>11. T.snd_buf = S.snd_buf \/ \E m \in Packet : m.kind = "data" /\ T.snd_buf = << m >>
  <2>1. CASE offset < S.sent /\ T.snd_buf = << DataPacket(offset, S.sent - offset) >>
    BY <1>6, <2>1, EndFacts DEF DataPacket, Packet
  <2>. QED
    BY <1>7, <2>1
<1>. HIDE DEF T, offset
<1>12. TypeOK'
  BY <1>1, <1>8 DEF IInv, TypeOK
<1>13. HandshakeShape'
  BY <1>1, <1>2, <1>7, <1>8, ShapeKeeps
<1>14. EndInv(e)'
  <2>1. AcksUpTo(T.snd_buf, S.rcv_raw_offset)
    BY <1>11 DEF IInv, EndInv, AcksTrue, AcksUpTo
  <2>. QED
    BY <1>7, <1>8, <2>1 DEF IInv, EndInv, AcksTrue, Sound
<1>15. EndInv(p)'
  BY <1>1, <1>2, <1>8, ReadKeeps, EndFacts DEF IInv, EndInv, AcksTrue
<1>16. ASSUME Waits(e) PROVE StreamInv(e)'
  <2>1. StreamInv(e)
    BY <1>16 DEF IInv
  <2>2. Covers(e)' /\ Intact(e)'
    BY <1>2, <1>7, <1>8, <1>10, <1>14, <2>1, EndFacts
    DEF StreamInv, Covers, Intact, EndInv
  <2>3. CASE ~CallsOnAck(S, offset)
    <3>1. handshake_succ'[e] = handshake_succ[e] /\ T.need_ack = S.need_ack /\ T.snd_buf = S.snd_buf
      BY <1>4, <1>7, <1>8, <1>9, <2>3
    <3>2. Flow(e)' = Flow(e)
      BY <1>8, <3>1 DEF Flow
    <3>3. OpenInv(e)'
      BY <1>1, <1>2, <1>7, <1>8, <2>1, <3>1, <3>2 DEF StreamInv, OpenInv
    <3>4. AcksAt(wire[p], sess[p].rcv_raw_offset) => AcksAt(wire'[p], sess[p].rcv_raw_offset)
      BY <1>1, <1>2, <1>8, ReadKeeps, EndFacts
    <3>5. WaitInv(e)'
      BY <1>1, <1>2, <1>7, <1>8, <2>1, <3>1, <3>4 DEF StreamInv, WaitInv
    <3>. QED
      BY <1>8, <2>1, <2>2, <3>1, <3>3, <3>5 DEF StreamInv
  <2>4. CASE CallsOnAck(S, offset)
    <3>1. ~handshake_succ[e]
      BY <2>1, <2>4 DEF StreamInv, CallsOnAck
    <3>2. /\ NoData(wire[e]) /\ NoData(S.snd_buf)
          /\ AcksAt(wire[p], sess[p].rcv_raw_offset)
      BY <1>1, <2>1, <3>1 DEF StreamInv, WaitInv
    <3>3. offset = sess[p].rcv_raw_offset
      <4>1. 1 \in 1 .. Len(wire[p]) /\ Head(wire[p]) = wire[p][1]
        BY <1>1, <1>2, <1>4
      <4>. QED
        BY <1>1, <3>2, <4>1 DEF AcksAt, offset
    <3>4. handshake_succ'[e] /\ T.need_ack = FALSE
      BY <1>7, <1>9, <2>4
    <3>5. Chain(Flow(e)', offset, S.sent)
      <4>1. CASE offset = S.sent /\ T.snd_buf = S.snd_buf
        <5>1. Flow(e)' = wire[e] \o S.snd_buf
          BY <1>8, <4>1 DEF Flow
        <5>2. NoData(wire[e] \o S.snd_buf)
          BY <1>6, <3>2, ConcatKeeps, EndFacts
        <5>. QED
          BY <1>6, <4>1, <5>1, <5>2, ChainWithoutData, EndFacts DEF Flow
      <4>2. CASE offset < S.sent /\ T.snd_buf = << DataPacket(offset, S.sent - offset) >>
        <5>. DEFINE m == DataPacket(offset, S.sent - offset)
        <5>1. m \in Message /\ m.kind = "data" /\ m.lo = offset /\ m.len = S.sent - offset
          BY <1>6, <4>2, EndFacts DEF DataPacket, Packet, Message
        <5>2. Flow(e)' = wire[e] \o << m >>
          BY <1>8, <4>2 DEF Flow
        <5>. HIDE DEF m
        <5>3. wire[e] \o << m >> = Append(wire[e], m)
          BY <5>1, EndFacts, AppendIsConcat
        <5>4. Chain(wire[e], offset, offset)
          BY <1>6, <3>2, ChainWithoutData, EndFacts
        <5>5. Chain(Append(wire[e], m), offset, S.sent)
          <6>1. /\ offset \in Nat /\ S.sent \in Nat /\ offset <= S.sent
                /\ S.sent = offset + m.len
            BY <1>6, <4>2, <5>1, EndFacts
          <6>. QED
            BY <5>1, <5>4, <6>1, ChainAppend, EndFacts
        <5>. QED
          BY <5>2, <5>3, <5>5
      <4>. QED
        BY <1>7, <2>4, <4>1, <4>2
    <3>6. OpenInv(e)'
      BY <1>2, <1>7, <1>8, <3>3, <3>5 DEF OpenInv
    <3>. QED
      BY <1>8, <2>2, <3>4, <3>6 DEF StreamInv, WaitInv
  <2>. QED
    BY <2>3, <2>4
<1>17. ASSUME Waits(p) PROVE StreamInv(p)'
  <2>1. StreamInv(p)
    BY <1>2, <1>17 DEF IInv
  <2>2. Covers(p)' /\ Intact(p)'
    BY <1>2, <1>7, <1>8, <2>1, EndFacts DEF StreamInv, Covers, Intact
  <2>3. OpenInv(p)'
    <3>1. Flow(p) # << >> /\ Head(Flow(p)).kind # "data" /\ Flow(p)' = Tail(Flow(p))
      <4>1. Flow(p)' = Tail(wire[p]) \o sess[p].snd_buf
        BY <1>2, <1>8 DEF Flow
      <4>2. /\ Flow(p) # << >> /\ Head(Flow(p)) = Head(wire[p])
            /\ Tail(Flow(p)) = Tail(wire[p]) \o sess[p].snd_buf
        BY <1>1, <1>2, FlowRead, EndFacts DEF Flow
      <4>. QED
        BY <1>1, <4>1, <4>2
    <3>. QED
      BY <1>1, <1>2, <1>7, <1>8, <2>1, <3>1, ChainTail, EndFacts DEF StreamInv, OpenInv
  <2>4. WaitInv(p)'
    <3>1. NoData(wire[p]) => NoData(wire'[p])
      BY <1>1, <1>2, <1>6, <1>8, ReadKeeps, EndFacts
    <3>2. AcksAt(S.snd_buf, S.rcv_raw_offset) => AcksAt(T.snd_buf, S.rcv_raw_offset)
      BY <1>11 DEF AcksAt
    <3>. QED
      BY <1>1, <1>2, <1>7, <1>8, <2>1, <3>1, <3>2 DEF StreamInv, WaitInv
  <2>. QED
    BY <1>8, <2>1, <2>2, <2>3, <2>4 DEF StreamInv
<1>. QED
  BY <1>2, <1>12, <1>13, <1>14, <1>15, <1>16, <1>17 DEF IInv, Waits

\* The data packet that e reads from an application that waits is the next
\* stretch of that application's stream.
LEMMA DataIsNext ==
  ASSUME IInv, NEW e \in Ends, Waits(Peer(e)),
         linked[e], wire[Peer(e)] # << >>, Head(wire[Peer(e)]).kind = "data"
  PROVE  LET p == Peer(e)
             pkt == Head(wire[p])
             rcv == sess[e].rcv_raw_offset
         IN  /\ handshake_succ[p] /\ linked[p]
             /\ pkt.lo = rcv /\ pkt.len \in Nat \ {0}
             /\ rcv + pkt.len <= sess[p].sent
             /\ Chain(Tail(wire[p]) \o sess[p].snd_buf, rcv + pkt.len, sess[p].sent)
<1>. DEFINE p == Peer(e)
            pkt == Head(wire[p])
            rcv == sess[e].rcv_raw_offset
<1>1. p \in Ends /\ Peer(p) = e /\ wire[p] \in Seq(Message) /\ wire[p] # << >>
  BY PeerFacts, EndFacts
<1>2. pkt \in Message /\ 1 \in 1 .. Len(wire[p]) /\ wire[p][1] = pkt
  BY <1>1
<1>3. pkt.len \in Nat \ {0}
  BY <1>2 DEF Message, Packet, RECONN_HANDSHAKE_1, RECONN_HANDSHAKE_2
<1>4. StreamInv(p)
  BY <1>1 DEF IInv
<1>5. handshake_succ[p] /\ linked[p]
  BY <1>1, <1>2, <1>4 DEF StreamInv, WaitInv, NoData, IInv, HandshakeShape
<1>6. Chain(Flow(p), rcv, sess[p].sent)
  BY <1>1, <1>4, <1>5 DEF StreamInv, OpenInv
<1>7. /\ Flow(p) # << >> /\ Head(Flow(p)) = pkt
      /\ Tail(Flow(p)) = Tail(wire[p]) \o sess[p].snd_buf
  BY <1>1, FlowRead, EndFacts DEF Flow
<1>8. rcv \in Nat /\ sess[p].sent \in Nat /\ Flow(p) \in Seq(Message)
  BY <1>1, EndFacts
<1>. HIDE DEF rcv, pkt
<1>9. pkt.lo = rcv /\ rcv + pkt.len <= sess[p].sent /\ Chain(Tail(Flow(p)), rcv + pkt.len, sess[p].sent)
  <2>1. pkt.kind = "data"
    BY DEF pkt
  <2>. QED
    BY <1>3, <1>6, <1>7, <1>8, <2>1, ChainTail
<1>. QED
  BY <1>3, <1>5, <1>7, <1>9 DEF rcv, pkt

\* rdts_input on a data packet.
LEMMA InputDataKeeps ==
  ASSUME IInv, NEW e \in Ends, InputData(e)
  PROVE  IInv'
<1>. DEFINE p == Peer(e)
            S == sess[e]
            pkt == Head(wire[p])
            lo == pkt.lo
            len == pkt.len
            T == rdts_on_rcv_data(S, lo, len)
<1>1. /\ S.enable /\ linked[e] /\ wire[p] # << >> /\ pkt.kind = "data"
      /\ sess' = [sess EXCEPT ![e] = T]
      /\ handshake_succ' = handshake_succ /\ linked' = linked
      /\ wire' = [wire EXCEPT ![p] = Tail(@)]
  BY DEF InputData, Arrives, Consume, get_session
<1>2. /\ p \in Ends /\ p # e /\ Peer(p) = e
      /\ \A d \in Ends : d = e \/ d = p
  BY PeerFacts
<1>3. Sound(S) /\ Sound(sess[p])
  BY <1>2, EndFacts
<1>4. sess \in [Ends -> Session] /\ wire \in [Ends -> Seq(Message)]
  BY DEF IInv, TypeOK
<1>5. pkt \in Message
  BY <1>1, <1>2, <1>4
<1>6. lo \in Nat /\ len \in Nat \ {0}
  BY <1>1, <1>5 DEF Message, Packet, RECONN_HANDSHAKE_1, RECONN_HANDSHAKE_2
<1>7. /\ Sound(T)
      /\ T.enable = S.enable
      /\ T.need_ack = S.need_ack
      /\ T.rcv_raw_offset = S.rcv_raw_offset + len
      /\ T.remote_rcv_raw_offset = S.remote_rcv_raw_offset
      /\ T.received = S.received \o Bytes(lo, len)
      /\ T.sent = S.sent
      /\ \/ T.snd_buf = S.snd_buf
         \/ T.snd_buf = Append(S.snd_buf, AckPacket(S.rcv_raw_offset + len))
  BY <1>3, <1>6, OnRcvDataSound
<1>8. /\ sess'[e] = T /\ sess'[p] = sess[p] /\ sess' \in [Ends -> Session]
      /\ wire'[p] = Tail(wire[p]) /\ wire'[e] = wire[e]
      /\ wire' \in [Ends -> Seq(Message)]
  <2>1. Tail(wire[p]) \in Seq(Message)
    BY <1>1, <1>2, <1>4
  <2>. QED
    BY <1>1, <1>2, <1>4, <1>7, <2>1 DEF Sound
<1>9. \/ T.snd_buf = S.snd_buf
      \/ \E m \in Message : /\ m.kind = "ack" /\ m.offset = S.rcv_raw_offset + len
                            /\ T.snd_buf = Append(S.snd_buf, m)
  <2>1. /\ AckPacket(S.rcv_raw_offset + len) \in Message
        /\ AckPacket(S.rcv_raw_offset + len).kind = "ack"
        /\ AckPacket(S.rcv_raw_offset + len).offset = S.rcv_raw_offset + len
    BY <1>6, EndFacts DEF AckPacket, Packet, Message
  <2>. QED
    BY <1>7, <2>1
<1>. HIDE DEF T, pkt, lo, len
<1>10. TypeOK'
  BY <1>1, <1>8 DEF IInv, TypeOK
<1>11. HandshakeShape'
  BY <1>1, <1>2, <1>7, <1>8, ShapeKeeps
<1>12. EndInv(e)'
  <2>1. /\ AcksUpTo(wire[e], S.rcv_raw_offset + len)
        /\ AcksUpTo(S.snd_buf, S.rcv_raw_offset + len)
    BY <1>6, LaterKeeps, EndFacts DEF IInv, EndInv, AcksTrue
  <2>2. AcksUpTo(T.snd_buf, S.rcv_raw_offset + len)
    <3>1. S.rcv_raw_offset + len \in Nat
      BY <1>6, EndFacts
    <3>2. CASE T.snd_buf = S.snd_buf
      BY <2>1, <3>2
    <3>3. ASSUME NEW m \in Message, m.kind = "ack", m.offset = S.rcv_raw_offset + len
          PROVE  AcksUpTo(Append(S.snd_buf, m), S.rcv_raw_offset + len)
      BY <2>1, <3>1, <3>3, AppendKeeps, EndFacts
    <3>. QED
      BY <1>9, <3>2, <3>3
  <2>. QED
    BY <1>7, <1>8, <2>1, <2>2 DEF EndInv, AcksTrue, Sound
<1>13. EndInv(p)'
  BY <1>1, <1>2, <1>8, ReadKeeps, EndFacts DEF IInv, EndInv, AcksTrue
<1>15. ASSUME Waits(p) PROVE StreamInv(p)'
  <2>1. StreamInv(p)
    BY <1>2, <1>15 DEF IInv
  <2>2. /\ handshake_succ[p] /\ linked[p]
        /\ lo = S.rcv_raw_offset
        /\ S.rcv_raw_offset + len <= sess[p].sent
        /\ Chain(Tail(wire[p]) \o sess[p].snd_buf, S.rcv_raw_offset + len, sess[p].sent)
    BY <1>1, <1>2, <1>15, DataIsNext DEF lo, len, pkt
  <2>3. Flow(p)' = Tail(wire[p]) \o sess[p].snd_buf
    BY <1>2, <1>8 DEF Flow
  <2>5. /\ lo = S.rcv_raw_offset
        /\ S.rcv_raw_offset + len <= sess[p].sent
        /\ Chain(Flow(p)', S.rcv_raw_offset + len, sess[p].sent)
    BY <2>2, <2>3
  <2>6. Covers(p)'
    BY <1>2, <1>6, <1>7, <1>8, <1>13, <2>1, <2>5, EndFacts DEF StreamInv, Covers, EndInv
  <2>7. Intact(p)'
    <3>1. S.received = Bytes(0, S.rcv_raw_offset)
      BY <1>2, <2>1 DEF StreamInv, Intact
    <3>. QED
      BY <1>2, <1>6, <1>7, <1>8, <2>5, <3>1, BytesJoin, EndFacts DEF Intact
  <2>8. OpenInv(p)'
    BY <1>2, <1>7, <1>8, <2>5 DEF OpenInv
  <2>. QED
    BY <1>1, <1>8, <2>1, <2>2, <2>6, <2>7, <2>8 DEF StreamInv, WaitInv
<1>16. ASSUME Waits(e) PROVE StreamInv(e)'
  <2>1. StreamInv(e)
    BY <1>16 DEF IInv
  <2>2. Covers(e)' /\ Intact(e)'
    BY <1>2, <1>7, <1>8, <1>12, <2>1, EndFacts DEF StreamInv, Covers, Intact, EndInv
  <2>3. OpenInv(e)'
    <3>1. CASE T.snd_buf = S.snd_buf
      BY <1>1, <1>2, <1>7, <1>8, <2>1, <3>1 DEF StreamInv, OpenInv, Flow
    <3>2. CASE T.snd_buf # S.snd_buf
      <4>1. PICK m \in Message : m.kind = "ack" /\ T.snd_buf = Append(S.snd_buf, m)
        BY <1>9, <3>2
      <4>2. Flow(e)' = wire[e] \o Append(S.snd_buf, m)
        BY <1>8, <4>1 DEF Flow
      <4>3. Flow(e)' = Append(Flow(e), m)
        BY <4>2, FlowAppend, EndFacts DEF Flow
      <4>. QED
        BY <1>1, <1>2, <1>7, <1>8, <2>1, <4>1, <4>3, ChainAppend, EndFacts
        DEF StreamInv, OpenInv
    <3>. QED
      BY <3>1, <3>2
  <2>4. WaitInv(e)'
    <3>1. NoData(S.snd_buf) => NoData(T.snd_buf)
      BY <1>6, <1>9, AppendKeeps, EndFacts
    <3>2. AcksAt(wire[p], sess[p].rcv_raw_offset) => AcksAt(wire'[p], sess[p].rcv_raw_offset)
      BY <1>1, <1>2, <1>8, ReadKeeps, EndFacts
    <3>. QED
      BY <1>1, <1>2, <1>7, <1>8, <2>1, <3>1, <3>2 DEF StreamInv, WaitInv
  <2>. QED
    BY <1>1, <1>7, <1>8, <2>1, <2>2, <2>3, <2>4 DEF StreamInv
<1>. QED
  BY <1>2, <1>10, <1>11, <1>12, <1>13, <1>15, <1>16 DEF IInv, Waits

\* The connection is lost.
LEMMA LoseKeeps ==
  ASSUME IInv, LoseConnection
  PROVE  IInv'
<1>1. /\ sess' = sess /\ handshake_succ' = handshake_succ
      /\ \A d \in Ends : ~linked'[d] /\ wire'[d] = << >>
      /\ linked' \in [Ends -> BOOLEAN] /\ wire' \in [Ends -> Seq(Message)]
  <2>1. << >> \in Seq(Message)
    OBVIOUS
  <2>. QED
    BY <2>1 DEF LoseConnection
<1>2. "client" \in Ends /\ "server" \in Ends /\ \A d \in Ends : Peer(d) \in Ends
  BY DEF Ends, Peer
<1>3. TypeOK'
  BY <1>1 DEF IInv, TypeOK
<1>4. HandshakeShape'
  BY <1>1, <1>2 DEF IInv, HandshakeShape
<1>5. \A d \in Ends : EndInv(d)'
  BY <1>1, NothingKeeps, EndFacts DEF IInv, EndInv, AcksTrue
<1>6. ASSUME NEW d \in Ends, Waits(d) PROVE StreamInv(d)'
  <2>1. StreamInv(d)
    BY <1>6 DEF IInv
  <2>2. NoData(<< >>) /\ AcksAt(<< >>, sess[Peer(d)].rcv_raw_offset)
    BY <1>2, NothingKeeps, EndFacts
  <2>. QED
    BY <1>1, <1>2, <2>1, <2>2 DEF StreamInv, Covers, Intact, OpenInv, WaitInv
<1>. QED
  BY <1>3, <1>4, <1>5, <1>6 DEF IInv, Waits

\* The client starts a reconnect.
LEMMA StartKeeps ==
  ASSUME IInv, StartReconnect
  PROVE  IInv'
<1>. DEFINE C == sess["client"]
            T == disable_session(C)
<1>1. /\ "client" \in Ends /\ "server" \in Ends /\ Peer("client") = "server"
      /\ Peer("server") = "client" /\ \A d \in Ends : d = "client" \/ d = "server"
  BY DEF Ends, Peer
<1>2. /\ Sound(T)
      /\ T.enable = FALSE
      /\ T.need_ack = C.need_ack
      /\ T.rcv_raw_offset = C.rcv_raw_offset
      /\ T.remote_rcv_raw_offset = C.remote_rcv_raw_offset
      /\ T.received = C.received
      /\ T.sent = C.sent
      /\ T.snd_buf = C.snd_buf
  BY <1>1, DisableSound, EndFacts
<1>3. /\ sess' = [sess EXCEPT !["client"] = T]
      /\ handshake_succ' = [handshake_succ EXCEPT !["client"] = FALSE]
      /\ linked' = [d \in Ends |-> d = "client"]
      /\ wire' = [d \in Ends |-> IF d = "client" THEN << RECONN_HANDSHAKE_1 >> ELSE << >>]
  BY DEF StartReconnect
<1>4. TypeOK
  BY DEF IInv
<1>5. /\ sess' \in [Ends -> Session] /\ sess'["client"] = T /\ sess'["server"] = sess["server"]
      /\ handshake_succ' \in [Ends -> BOOLEAN]
      /\ ~handshake_succ'["client"] /\ handshake_succ'["server"] = handshake_succ["server"]
  BY <1>1, <1>2, <1>3, <1>4 DEF TypeOK, Sound
<1>6. /\ RECONN_HANDSHAKE_1 \in Message
      /\ RECONN_HANDSHAKE_1.kind = "RECONN_HANDSHAKE_1"
  BY DEF Message, RECONN_HANDSHAKE_1
<1>7. /\ linked'["client"] /\ ~linked'["server"] /\ linked' \in [Ends -> BOOLEAN]
      /\ wire'["client"] = << RECONN_HANDSHAKE_1 >> /\ wire'["server"] = << >>
      /\ wire' \in [Ends -> Seq(Message)]
  <2>1. << >> \in Seq(Message) /\ << RECONN_HANDSHAKE_1 >> \in Seq(Message)
    BY <1>6
  <2>. QED
    BY <1>1, <1>3, <2>1
<1>. HIDE DEF T
<1>8. /\ NoData(wire'["client"]) /\ NoData(wire'["server"])
      /\ \A n : /\ AcksAt(wire'["client"], n) /\ AcksUpTo(wire'["client"], n)
               /\ AcksAt(wire'["server"], n) /\ AcksUpTo(wire'["server"], n)
  BY <1>6, <1>7 DEF NoData, AcksAt, AcksUpTo
<1>9. TypeOK'
  BY <1>5, <1>7 DEF TypeOK
<1>10. HandshakeShape'
  <2>1. sess'["server"].enable /\ ~sess'["client"].enable
    BY <1>2, <1>5 DEF IInv, HandshakeShape
  <2>. QED
    <3>1. Len(wire'["server"]) = 0
      BY <1>7
    <3>2. \A d \in Ends : wire'[d] # << >> => linked'[d]
      BY <1>1, <1>7
    <3>. QED
      BY <1>5, <1>7, <2>1, <3>1, <3>2 DEF HandshakeShape
<1>11. EndInv("client")' /\ EndInv("server")'
  BY <1>1, <1>2, <1>5, <1>8 DEF IInv, EndInv, AcksTrue, Sound
<1>12. StreamInv("client")'
  <2>1. StreamInv("client")
    BY <1>1 DEF IInv, Waits
  <2>. QED
    BY <1>1, <1>2, <1>5, <1>7, <1>8, <2>1
    DEF StreamInv, Covers, Intact, OpenInv, WaitInv, Sound
<1>13. ASSUME Waits("server") PROVE StreamInv("server")'
  <2>1. StreamInv("server")
    BY <1>1, <1>13 DEF IInv
  <2>. QED
    BY <1>1, <1>2, <1>5, <1>7, <1>8, <2>1 DEF StreamInv, Covers, Intact, OpenInv, WaitInv
<1>. QED
  BY <1>1, <1>9, <1>10, <1>11, <1>12, <1>13 DEF IInv, Waits

\* rdt_reconnect and the poll after it.
LEMMA ReconnectedFacts ==
  ASSUME NEW S, Sound(S)
  PROVE  /\ Sound(Reconnected(S))
         /\ Reconnected(S).enable = TRUE
         /\ Reconnected(S).need_ack = TRUE
         /\ Reconnected(S).rcv_raw_offset = S.rcv_raw_offset
         /\ Reconnected(S).remote_rcv_raw_offset = S.remote_rcv_raw_offset
         /\ Reconnected(S).received = S.received
         /\ Reconnected(S).sent = S.sent
         /\ Reconnected(S).snd_buf = << >>
         /\ ReconnectAck(S) = << AckPacket(S.rcv_raw_offset) >>
         /\ AckPacket(S.rcv_raw_offset) \in Packet
         /\ AckPacket(S.rcv_raw_offset).kind = "ack"
         /\ AckPacket(S.rcv_raw_offset).offset = S.rcv_raw_offset
<1>1. /\ AckPacket(S.rcv_raw_offset) \in Packet
      /\ AckPacket(S.rcv_raw_offset).kind = "ack"
      /\ AckPacket(S.rcv_raw_offset).offset = S.rcv_raw_offset
  BY SessionFields DEF Sound, AckPacket, Packet
<1>. DEFINE T == reconnect_session(S)
<1>2. /\ Sound(T)
      /\ T.enable = TRUE
      /\ T.need_ack = TRUE
      /\ T.rcv_raw_offset = S.rcv_raw_offset
      /\ T.remote_rcv_raw_offset = S.remote_rcv_raw_offset
      /\ T.received = S.received
      /\ T.sent = S.sent
      /\ T.snd_buf = << AckPacket(S.rcv_raw_offset) >>
  BY ReconnectSound
<1>3. Reconnected(S) = pollout(T) /\ ReconnectAck(S) = T.snd_buf
  BY DEF Reconnected, ReconnectAck
<1>. HIDE DEF T
<1>. QED
  BY <1>1, <1>2, <1>3, PolloutSound

\* The server answers a reconnect.
LEMMA ServerKeeps ==
  ASSUME IInv, ServerReconnects
  PROVE  IInv'
<1>. DEFINE S == sess["server"]
            T == Reconnected(disable_session(S))
            m == AckPacket(S.rcv_raw_offset)
            q == << RECONN_HANDSHAKE_2 >> \o ReconnectAck(S)
<1>1. /\ "client" \in Ends /\ "server" \in Ends /\ Peer("client") = "server"
      /\ Peer("server") = "client" /\ \A d \in Ends : d = "client" \/ d = "server"
  BY DEF Ends, Peer
<1>2. TypeOK
  BY DEF IInv
<1>3. /\ wire["client"] = << RECONN_HANDSHAKE_1 >>
      /\ sess' = [sess EXCEPT !["server"] = T]
      /\ handshake_succ' = [handshake_succ EXCEPT !["server"] = @ /\ ~Waits("server")]
      /\ linked["client"] /\ linked' = [linked EXCEPT !["server"] = TRUE]
      /\ wire' = [wire EXCEPT !["client"] = << >>, !["server"] = q]
  BY DEF ServerReconnects
<1>4. /\ Sound(T)
      /\ T.enable = TRUE
      /\ T.need_ack = TRUE
      /\ T.rcv_raw_offset = S.rcv_raw_offset
      /\ T.remote_rcv_raw_offset = S.remote_rcv_raw_offset
      /\ T.received = S.received
      /\ T.sent = S.sent
      /\ T.snd_buf = << >>
  <2>. DEFINE D == disable_session(S)
  <2>1. /\ Sound(D)
        /\ D.rcv_raw_offset = S.rcv_raw_offset
        /\ D.remote_rcv_raw_offset = S.remote_rcv_raw_offset
        /\ D.received = S.received
        /\ D.sent = S.sent
    BY <1>1, DisableSound, EndFacts
  <2>. HIDE DEF D
  <2>2. /\ Sound(Reconnected(D))
        /\ Reconnected(D).enable = TRUE
        /\ Reconnected(D).need_ack = TRUE
        /\ Reconnected(D).rcv_raw_offset = D.rcv_raw_offset
        /\ Reconnected(D).remote_rcv_raw_offset = D.remote_rcv_raw_offset
        /\ Reconnected(D).received = D.received
        /\ Reconnected(D).sent = D.sent
        /\ Reconnected(D).snd_buf = << >>
    BY <2>1, ReconnectedFacts
  <2>3. T = Reconnected(D)
    BY DEF D
  <2>. QED
    BY <2>1, <2>2, <2>3
<1>5. /\ m \in Packet /\ m.kind = "ack" /\ m.offset = S.rcv_raw_offset
      /\ ReconnectAck(S) = << m >>
  BY <1>1, ReconnectedFacts, EndFacts
<1>6. /\ RECONN_HANDSHAKE_2 \in Message /\ m \in Message
      /\ RECONN_HANDSHAKE_2.kind = "RECONN_HANDSHAKE_2"
      /\ RECONN_HANDSHAKE_1.kind = "RECONN_HANDSHAKE_1"
  BY <1>5 DEF Message, RECONN_HANDSHAKE_2, RECONN_HANDSHAKE_1
<1>. HIDE DEF m
<1>7. q \in Seq(Message) /\ Len(q) = 2 /\ q[1] = RECONN_HANDSHAKE_2 /\ q[2] = m
  BY <1>5, <1>6
<1>8. ~sess["client"].enable /\ ~handshake_succ["client"]
  <2>1. 1 \in 1 .. Len(wire["client"]) /\ wire["client"][1].kind = "RECONN_HANDSHAKE_1"
    BY <1>3, <1>6
  <2>. QED
    BY <2>1 DEF IInv, HandshakeShape
<1>9. /\ sess' \in [Ends -> Session] /\ sess'["server"] = T /\ sess'["client"] = sess["client"]
      /\ handshake_succ' \in [Ends -> BOOLEAN]
      /\ handshake_succ'["client"] = handshake_succ["client"]
      /\ Waits("server") => ~handshake_succ'["server"]
      /\ linked' \in [Ends -> BOOLEAN] /\ linked'["client"] /\ linked'["server"]
  BY <1>1, <1>2, <1>3, <1>4 DEF TypeOK, Sound, Waits
<1>10. wire' \in [Ends -> Seq(Message)] /\ wire'["client"] = << >> /\ wire'["server"] = q
  <2>1. << >> \in Seq(Message)
    OBVIOUS
  <2>. QED
    BY <1>1, <1>2, <1>3, <1>7, <2>1 DEF TypeOK
<1>. HIDE DEF T, q
<1>11. /\ NoData(q)
       /\ AcksAt(q, S.rcv_raw_offset)
       /\ AcksUpTo(q, S.rcv_raw_offset)
  <2>1. S.rcv_raw_offset \in Nat
    BY <1>1, EndFacts
  <2>. QED
    BY <1>5, <1>6, <1>7, <2>1 DEF NoData, AcksAt, AcksUpTo
<1>12. TypeOK'
  BY <1>9, <1>10 DEF TypeOK
<1>13. HandshakeShape'
  <2>1. Len(wire'["client"]) = 0
    BY <1>10
  <2>2. ASSUME NEW i \in 1 .. Len(wire'["server"]),
               wire'["server"][i].kind = "RECONN_HANDSHAKE_2"
        PROVE  i = 1
    <3>1. i \in {1, 2}
      <4>1. i \in 1 .. 2
        BY <1>7, <1>10, <2>2
      <4>. QED
        BY <4>1
    <3>2. q[2].kind # "RECONN_HANDSHAKE_2"
      BY <1>5, <1>7
    <3>. QED
      BY <1>10, <2>2, <3>1, <3>2
  <2>3. \A d \in Ends : linked'[d]
    BY <1>1, <1>9
  <2>. QED
    BY <1>4, <1>8, <1>9, <2>1, <2>2, <2>3 DEF HandshakeShape
<1>14. EndInv("client")' /\ EndInv("server")'
  <2>1. AcksUpTo(<< >>, sess["client"].rcv_raw_offset) /\ AcksUpTo(<< >>, S.rcv_raw_offset)
    BY <1>1, NothingKeeps, EndFacts
  <2>. QED
    BY <1>1, <1>4, <1>9, <1>10, <1>11, <2>1 DEF IInv, EndInv, AcksTrue, Sound
<1>15. StreamInv("client")'
  <2>1. StreamInv("client")
    BY <1>1 DEF IInv, Waits
  <2>2. NoData(<< >>) /\ AcksAt(<< >>, S.rcv_raw_offset)
    BY <1>1, NothingKeeps, EndFacts
  <2>. QED
    BY <1>1, <1>4, <1>8, <1>9, <1>10, <1>11, <2>1, <2>2
    DEF StreamInv, Covers, Intact, OpenInv, WaitInv
<1>16. ASSUME Waits("server") PROVE StreamInv("server")'
  <2>1. StreamInv("server")
    BY <1>1, <1>16 DEF IInv
  <2>2. NoData(<< >>) /\ AcksAt(<< >>, sess["client"].rcv_raw_offset)
    BY <1>1, NothingKeeps, EndFacts
  <2>3. Covers("server")' /\ Intact("server")'
    BY <1>1, <1>4, <1>9, <1>14, <2>1 DEF StreamInv, Covers, Intact, EndInv
  <2>. QED
    BY <1>1, <1>4, <1>8, <1>9, <1>10, <1>11, <1>16, <2>2, <2>3
    DEF StreamInv, OpenInv, WaitInv
<1>. QED
  BY <1>1, <1>12, <1>13, <1>14, <1>15, <1>16 DEF IInv, Waits

\* The client completes its side.
LEMMA ClientKeeps ==
  ASSUME IInv, ClientReconnects
  PROVE  IInv'
<1>. DEFINE C == sess["client"]
            T == Reconnected(C)
            m == AckPacket(C.rcv_raw_offset)
<1>1. /\ "client" \in Ends /\ "server" \in Ends /\ Peer("client") = "server"
      /\ Peer("server") = "client" /\ \A d \in Ends : d = "client" \/ d = "server"
  BY DEF Ends, Peer
<1>2. TypeOK
  BY DEF IInv
<1>3. /\ linked["client"] /\ wire["server"] # << >>
      /\ Head(wire["server"]).kind = "RECONN_HANDSHAKE_2"
      /\ sess' = [sess EXCEPT !["client"] = T]
      /\ handshake_succ' = handshake_succ /\ linked' = linked
      /\ wire' = [wire EXCEPT !["client"] = @ \o ReconnectAck(C), !["server"] = Tail(@)]
  BY <1>1 DEF ClientReconnects, Arrives
<1>4. /\ Sound(T)
      /\ T.enable = TRUE
      /\ T.need_ack = TRUE
      /\ T.rcv_raw_offset = C.rcv_raw_offset
      /\ T.remote_rcv_raw_offset = C.remote_rcv_raw_offset
      /\ T.received = C.received
      /\ T.sent = C.sent
      /\ T.snd_buf = << >>
  BY <1>1, ReconnectedFacts, EndFacts
<1>5. /\ m \in Packet /\ m \in Message /\ m.kind = "ack" /\ m.offset = C.rcv_raw_offset
      /\ ReconnectAck(C) = << m >>
  BY <1>1, ReconnectedFacts, EndFacts DEF Message
<1>. HIDE DEF m, T
<1>6. /\ 1 \in 1 .. Len(wire["server"]) /\ wire["server"][1].kind = "RECONN_HANDSHAKE_2"
      /\ Tail(wire["server"]) \in Seq(Message)
      /\ Len(Tail(wire["server"])) = Len(wire["server"]) - 1
      /\ \A i \in 1 .. Len(wire["server"]) - 1 : Tail(wire["server"])[i] = wire["server"][i + 1]
      /\ Len(wire["server"]) \in Nat
  BY <1>1, <1>2, <1>3 DEF TypeOK
<1>7. ~C.enable /\ ~handshake_succ["client"] /\ linked["server"]
  BY <1>1, <1>3, <1>6 DEF IInv, HandshakeShape
<1>8. /\ sess' \in [Ends -> Session] /\ sess'["client"] = T /\ sess'["server"] = sess["server"]
      /\ wire' \in [Ends -> Seq(Message)]
      /\ wire'["client"] = Append(wire["client"], m)
      /\ wire'["server"] = Tail(wire["server"])
  <2>1. wire["client"] \o << m >> = Append(wire["client"], m)
    BY <1>1, <1>5, EndFacts, AppendIsConcat
  <2>2. Append(wire["client"], m) \in Seq(Message)
    BY <1>1, <1>5, EndFacts
  <2>. QED
    BY <1>1, <1>2, <1>3, <1>4, <1>5, <1>6, <2>1, <2>2 DEF TypeOK, Sound
<1>9. TypeOK'
  BY <1>2, <1>3, <1>8 DEF TypeOK
<1>10. HandshakeShape'
  <2>1. ASSUME NEW i \in 1 .. Len(wire'["client"])
        PROVE  wire'["client"][i].kind # "RECONN_HANDSHAKE_1"
    <3>1. \A j \in 1 .. Len(wire["client"]) : wire["client"][j].kind # "RECONN_HANDSHAKE_1"
      BY <1>7 DEF IInv, HandshakeShape
    <3>2. wire'["client"][i] = m \/ \E j \in 1 .. Len(wire["client"]) : wire'["client"][i] = wire["client"][j]
      BY <1>1, <1>5, <1>8, <2>1, EndFacts
    <3>. QED
      BY <1>5, <3>1, <3>2
  <2>2. ASSUME NEW i \in 1 .. Len(wire'["server"])
        PROVE  wire'["server"][i].kind # "RECONN_HANDSHAKE_2"
    <3>1. \A j \in 1 .. Len(wire["server"]) :
             wire["server"][j].kind = "RECONN_HANDSHAKE_2" => j = 1
      BY DEF IInv, HandshakeShape
    <3>2. /\ i + 1 \in 1 .. Len(wire["server"]) /\ i + 1 # 1
          /\ wire'["server"][i] = wire["server"][i + 1]
      BY <1>6, <1>8, <2>2
    <3>. QED
      BY <3>1, <3>2
  <2>3. \A d \in Ends : linked'[d]
    BY <1>1, <1>3, <1>7
  <2>4. sess'["server"].enable /\ sess'["client"].enable
    BY <1>4, <1>8 DEF IInv, HandshakeShape
  <2>. QED
    BY <2>1, <2>2, <2>3, <2>4 DEF HandshakeShape
<1>11. EndInv("client")'
  <2>1. AcksUpTo(wire["client"], C.rcv_raw_offset) /\ C.rcv_raw_offset \in Nat
    BY <1>1, EndFacts DEF IInv, EndInv, AcksTrue
  <2>2. AcksUpTo(Append(wire["client"], m), C.rcv_raw_offset)
    BY <1>1, <1>5, <2>1, AppendKeeps, EndFacts
  <2>3. AcksUpTo(<< >>, C.rcv_raw_offset)
    BY <2>1, NothingKeeps
  <2>. QED
    BY <1>4, <1>8, <2>2, <2>3 DEF EndInv, AcksTrue, Sound
<1>12. EndInv("server")'
  BY <1>1, <1>3, <1>8, ReadKeeps, EndFacts DEF IInv, EndInv, AcksTrue
<1>13. StreamInv("client")'
  <2>1. StreamInv("client")
    BY <1>1 DEF IInv, Waits
  <2>2. NoData(<< >>)
    BY NothingKeeps
  <2>3. NoData(Append(wire["client"], m))
    BY <1>1, <1>5, <1>7, <2>1, AppendKeeps, EndFacts DEF StreamInv, WaitInv
  <2>4. AcksAt(wire["server"], sess["server"].rcv_raw_offset)
            => AcksAt(Tail(wire["server"]), sess["server"].rcv_raw_offset)
    BY <1>1, <1>3, ReadKeeps, EndFacts
  <2>. QED
    BY <1>1, <1>3, <1>4, <1>7, <1>8, <1>11, <2>1, <2>2, <2>3, <2>4
    DEF StreamInv, Covers, Intact, OpenInv, WaitInv, EndInv
<1>14. ASSUME Waits("server") PROVE StreamInv("server")'
  <2>1. StreamInv("server")
    BY <1>1, <1>14 DEF IInv
  <2>2. Covers("server")' /\ Intact("server")'
    BY <1>1, <1>4, <1>8, <2>1 DEF StreamInv, Covers, Intact
  <2>3. OpenInv("server")'
    <3>1. Flow("server") # << >> /\ Head(Flow("server")).kind # "data"
          /\ Flow("server")' = Tail(Flow("server"))
      <4>1. Flow("server")' = Tail(wire["server"]) \o sess["server"].snd_buf
        BY <1>8 DEF Flow
      <4>2. /\ Flow("server") # << >> /\ Head(Flow("server")) = Head(wire["server"])
            /\ Tail(Flow("server")) = Tail(wire["server"]) \o sess["server"].snd_buf
        BY <1>1, <1>3, FlowRead, EndFacts DEF Flow
      <4>. QED
        BY <1>3, <4>1, <4>2
    <3>2. /\ C.rcv_raw_offset \in Nat /\ sess["server"].sent \in Nat
          /\ Flow("server") \in Seq(Message)
      BY <1>1, EndFacts
    <3>3. Chain(Flow("server"), C.rcv_raw_offset, sess["server"].sent)
            => Chain(Flow("server")', C.rcv_raw_offset, sess["server"].sent)
      BY <3>1, <3>2, ChainTail
    <3>. QED
      BY <1>1, <1>3, <1>4, <1>8, <2>1, <3>3 DEF StreamInv, OpenInv
  <2>4. WaitInv("server")'
    <3>1. C.rcv_raw_offset \in Nat /\ AcksAt(<< >>, C.rcv_raw_offset)
      BY <1>1, NothingKeeps, EndFacts
    <3>2. AcksAt(wire["client"], C.rcv_raw_offset)
              => AcksAt(Append(wire["client"], m), C.rcv_raw_offset)
      BY <1>1, <1>5, <3>1, AppendKeeps, EndFacts
    <3>3. NoData(wire["server"]) => NoData(Tail(wire["server"]))
      BY <1>1, <1>3, <3>1, ReadKeeps, EndFacts
    <3>. QED
      BY <1>1, <1>3, <1>4, <1>8, <2>1, <3>1, <3>2, <3>3 DEF StreamInv, WaitInv
  <2>. QED
    BY <1>3, <1>8, <2>1, <2>2, <2>3, <2>4 DEF StreamInv
<1>. QED
  BY <1>1, <1>9, <1>10, <1>11, <1>12, <1>13, <1>14 DEF IInv, Waits

-----------------------------------------------------------------------------
(* The theorems *)

\* Both sessions start empty.
LEMMA InitIInv ==
  ASSUME Init PROVE IInv
<1>1. /\ \A e \in Ends : /\ sess[e] = rdts_create /\ handshake_succ[e] = TRUE
                        /\ linked[e] = TRUE /\ wire[e] = << >>
      /\ \A e \in Ends : Peer(e) \in Ends
      /\ "client" \in Ends /\ "server" \in Ends
  BY DEF Init, Ends, Peer
<1>2. /\ rdts_create.enable = TRUE /\ rdts_create.need_ack = FALSE
      /\ rdts_create.rcv_raw_offset = 0 /\ rdts_create.remote_rcv_raw_offset = 0
      /\ rdts_create.raw_snd_size = 0 /\ rdts_create.sent = 0
      /\ rdts_create.snd_buf = << >> /\ rdts_create.received = << >>
  BY DEF rdts_create
<1>3. rdts_create \in Session /\ << >> \in Seq(Message)
  BY CreateSound DEF Sound
<1>4. TypeOK
  <2>1. /\ sess = [e \in Ends |-> rdts_create]
        /\ handshake_succ = [e \in Ends |-> TRUE]
        /\ linked = [e \in Ends |-> TRUE]
        /\ wire = [e \in Ends |-> << >>]
    BY DEF Init
  <2>. QED
    BY <1>3, <2>1 DEF TypeOK
<1>5. HandshakeShape
  <2>1. Len(wire["client"]) = 0 /\ Len(wire["server"]) = 0
    BY <1>1
  <2>. QED
    BY <1>1, <1>2, <2>1 DEF HandshakeShape
<1>6. ASSUME NEW e \in Ends PROVE EndInv(e)
  BY <1>1, <1>2, NothingKeeps DEF EndInv, AcksTrue
<1>7. ASSUME NEW e \in Ends PROVE StreamInv(e)
  <2>1. Covers(e)
    BY <1>1, <1>2 DEF Covers
  <2>2. Intact(e)
    <3>1. Bytes(0, 0) = << >>
      BY DEF Bytes
    <3>. QED
      BY <1>1, <1>2, <3>1 DEF Intact
  <2>3. OpenInv(e)
    <3>1. Flow(e) = << >> /\ << >> \in Seq(Message)
      BY <1>1, <1>2 DEF Flow
    <3>2. Chain(Flow(e), 0, 0)
      BY <3>1, ChainWithoutData, NothingKeeps
    <3>. QED
      BY <1>1, <1>2, <3>2 DEF OpenInv
  <2>. QED
    BY <1>1, <1>2, <2>1, <2>2, <2>3 DEF StreamInv, WaitInv
<1>. QED
  BY <1>4, <1>5, <1>6, <1>7 DEF IInv

\* No step of either application, of the transport or of the handshake breaks
\* the inductive invariant.
LEMMA NextIInv ==
  ASSUME IInv, [Next]_vars, ReconnectAssumption
  PROVE  IInv'
<1>1. ASSUME NEW e \in Ends, Exchange(e) PROVE IInv'
  BY <1>1, SendKeeps, AckKeeps, PollKeeps, InputAckKeeps, InputDataKeeps DEF Exchange
<1>2. CASE LoseConnection
  BY <1>2, LoseKeeps
<1>3. CASE StartReconnect
  BY <1>3, StartKeeps
<1>4. CASE ServerReconnects
  BY <1>4, ServerKeeps
<1>5. CASE ClientReconnects
  BY <1>5, ClientKeeps
<1>6. CASE UNCHANGED vars
  BY <1>6 DEF vars, IInv, TypeOK, HandshakeShape, EndInv, AcksTrue, StreamInv, Covers,
     Intact, OpenInv, WaitInv, Flow
<1>. QED
  BY <1>1, <1>2, <1>3, <1>4, <1>5, <1>6 DEF Next

\* The inductive invariant holds in every reachable state.
THEOREM Invariance == Spec => []IInv
<1>1. Init => IInv
  BY InitIInv
<1>2. IInv /\ [Next]_vars => IInv'
  BY NextIInv, ReconnectAssumption
<1>. QED
  BY <1>1, <1>2, PTL DEF Spec

\* Type correctness: in particular raw_snd_size never goes below zero, so an
\* ack never drains more than raw_snd_buf holds.
THEOREM TypeCorrect == Spec => []TypeOK
<1>1. IInv => TypeOK
  BY DEF IInv
<1>. QED
  BY <1>1, Invariance, PTL

\* An application that waits for OnSessionReconnected before it sends again
\* has its whole stream delivered in order, once, and its retransmission
\* buffer always holds what the peer lacks, whatever the peer's application does.
THEOREM WaitingSuffices == Spec => []WaitingIsEnough
<1>1. IInv => WaitingIsEnough
  BY DEF IInv, WaitingIsEnough, StreamInv
<1>. QED
  BY <1>1, Invariance, PTL

\* If both applications wait, README.md:55 holds: nothing is lost and nothing
\* is duplicated, in either direction.
THEOREM ExactlyOnceIfBothWait ==
  ASSUME ServerWaits PROVE Spec => []ExactlyOnce
<1>1. IInv => ExactlyOnce
  BY DEF IInv, StreamInv, Waits, ExactlyOnce
<1>. QED
  BY <1>1, Invariance, PTL

\* If both applications wait, no drain of raw_snd_buf drops a byte the peer
\* has not received.
THEOREM BufferCoversIfBothWait ==
  ASSUME ServerWaits PROVE Spec => []RetransmitBufferCovers
<1>1. IInv => RetransmitBufferCovers
  BY DEF IInv, StreamInv, Waits, RetransmitBufferCovers
<1>. QED
  BY <1>1, Invariance, PTL

-----------------------------------------------------------------------------
(* What a reconnect resends *)

\* Only InputAck on an ack that calls on_ack ends the waiting of an application.
LEMMA BackMeansOnAck ==
  ASSUME IInv, [Next]_vars, NEW e \in Ends, Back(e)
  PROVE  InputAck(e) /\ CallsOnAck(sess[e], Head(wire[Peer(e)]).offset)
<1>1. handshake_succ \in [Ends -> BOOLEAN] /\ e \in Ends
  BY DEF IInv, TypeOK
<1>2. ~handshake_succ[e] /\ handshake_succ'[e]
  BY DEF Back
<1>3. handshake_succ' # handshake_succ
  BY <1>2
<1>4. PICK d \in Ends : InputAck(d)
  <2>1. ~LoseConnection /\ ~ClientReconnects /\ ~UNCHANGED vars
    BY <1>3 DEF LoseConnection, ClientReconnects, vars
  <2>2. ~StartReconnect
    BY <1>1, <1>2 DEF StartReconnect
  <2>3. ~ServerReconnects
    BY <1>1, <1>2 DEF ServerReconnects
  <2>4. \A d \in Ends : ~Send(d) /\ ~Ack(d) /\ ~Poll(d) /\ ~InputData(d)
    BY <1>3 DEF Send, Ack, Poll, InputData
  <2>. QED
    BY <2>1, <2>2, <2>3, <2>4 DEF Next, Exchange
<1>5. handshake_succ' = [handshake_succ EXCEPT ![d] =
        @ \/ CallsOnAck(sess[d], Head(wire[Peer(d)]).offset)]
  BY <1>4 DEF InputAck
<1>6. d = e
  BY <1>1, <1>2, <1>5
<1>. QED
  BY <1>1, <1>2, <1>4, <1>5, <1>6

\* A reconnect resends exactly the bytes the peer has not received, in one
\* packet with nothing older before it.
THEOREM ResendExactIfBothWait ==
  ASSUME ServerWaits PROVE Spec => ResendIsExact
<1>. DEFINE Exact(e) ==
       Back(e) =>
          LET had == sess[Peer(e)].rcv_raw_offset
              all == sess[e].sent
          IN  had < all => sess'[e].snd_buf = << DataPacket(had, all - had) >>
<1>1. ASSUME IInv, [Next]_vars, NEW e \in Ends, Back(e),
             sess[Peer(e)].rcv_raw_offset < sess[e].sent
      PROVE  sess'[e].snd_buf =
               << DataPacket(sess[Peer(e)].rcv_raw_offset,
                             sess[e].sent - sess[Peer(e)].rcv_raw_offset) >>
  <2>. DEFINE p == Peer(e)
              S == sess[e]
              offset == Head(wire[p]).offset
  <2>1. InputAck(e) /\ CallsOnAck(S, offset)
    BY <1>1, BackMeansOnAck
  <2>2. /\ sess' = [sess EXCEPT ![e] = rdts_on_rcv_ack(S, offset)]
        /\ wire[p] # << >> /\ Head(wire[p]).kind = "ack"
    BY <2>1 DEF InputAck, Arrives
  <2>3. sess \in [Ends -> Session] /\ wire[p] \in Seq(Message) /\ Sound(S)
    BY <1>1, PeerFacts, EndFacts DEF IInv, TypeOK
  <2>4. 1 \in 1 .. Len(wire[p]) /\ Head(wire[p]) = wire[p][1] /\ wire[p][1] \in Message
    BY <2>2, <2>3
  <2>5. offset \in Nat
    BY <2>2, <2>4 DEF Message, Packet, RECONN_HANDSHAKE_1, RECONN_HANDSHAKE_2
  <2>6. StreamInv(e) /\ ~handshake_succ[e]
    BY <1>1 DEF IInv, Waits, Back
  <2>7. offset = sess[p].rcv_raw_offset
    BY <2>2, <2>4, <2>6 DEF StreamInv, WaitInv, AcksAt
  <2>. HIDE DEF offset
  <2>8. rdts_on_rcv_ack(S, offset).snd_buf = << DataPacket(offset, S.sent - offset) >>
    <3>1. offset # S.sent
      BY <1>1, <2>5, <2>7, EndFacts
    <3>. QED
      BY <2>1, <2>3, <2>5, <3>1, OnRcvAckSound
  <2>. QED
    BY <1>1, <2>2, <2>3, <2>7, <2>8
<1>2. IInv /\ [Next]_vars => [\A e \in Ends : Exact(e)]_vars
  BY <1>1
<1>3. Spec => [][\A e \in Ends : Exact(e)]_vars
  BY <1>2, Invariance, PTL DEF Spec
<1>. QED
  BY <1>3 DEF ResendIsExact

-----------------------------------------------------------------------------
(* RdtReconnect implements RdtStream *)

\* The sessions' counters, as the abstract stream sees them.
SentBy == [e \in Ends |-> sess[e].sent]
GivenTo == [e \in Ends |-> sess[e].received]

\* A step that changes neither the bytes sent nor the bytes received is a stutter.
LEMMA QuietStep ==
  ASSUME \A e \in Ends : sess'[e].sent = sess[e].sent /\ sess'[e].received = sess[e].received
  PROVE  SentBy' = SentBy /\ GivenTo' = GivenTo
  BY DEF SentBy, GivenTo

\* rdts_send by e submits bytes of e, or nothing if the message is refused.
LEMMA SendSubmits ==
  ASSUME IInv, NEW e \in Ends, Send(e), ReconnectAssumption
  PROVE  GivenTo' = GivenTo /\ (SentBy' = SentBy \/ Stream!Submit(e))
<1>1. PICK len \in MsgSizes : sess' = [sess EXCEPT ![e] = rdts_send(@, len)]
  BY DEF Send
<1>2. len \in Nat \ {0} /\ sess \in [Ends -> Session] /\ Sound(sess[e])
  BY EndFacts DEF ReconnectAssumption, IInv, TypeOK
<1>. DEFINE T == rdts_send(sess[e], len)
<1>3. /\ T.received = sess[e].received
      /\ T = sess[e] \/ T.sent = sess[e].sent + len
  BY <1>2, SendSound
<1>4. sess'[e] = T /\ \A d \in Ends : d # e => sess'[d] = sess[d]
  BY <1>1, <1>2
<1>. HIDE DEF T
<1>5. GivenTo' = GivenTo
  BY <1>3, <1>4 DEF GivenTo
<1>6. ASSUME T = sess[e] PROVE SentBy' = SentBy
  BY <1>4, <1>6 DEF SentBy
<1>7. ASSUME T.sent = sess[e].sent + len PROVE Stream!Submit(e)
  <2>1. \A d \in Ends : sess'[d].sent \in Nat /\ sess[d].sent \in Nat
    BY <1>2, <1>4, <1>7, EndFacts
  <2>2. SentBy' \in [Ends -> Nat] /\ SentBy'[e] > SentBy[e]
    BY <1>2, <1>4, <1>7, <2>1 DEF SentBy
  <2>3. SentBy'[Peer(e)] = SentBy[Peer(e)]
    BY <1>4, PeerFacts DEF SentBy
  <2>4. Stream!Ends = Ends /\ Stream!Peer(e) = Peer(e)
    BY DEF Stream!Ends, Ends, Stream!Peer, Peer
  <2>. QED
    BY <1>5, <2>2, <2>3, <2>4 DEF Stream!Submit, SentBy, GivenTo
<1>. QED
  BY <1>3, <1>5, <1>6, <1>7

\* Neither rdt_ack, rdt_poll nor an ack touches the streams.
LEMMA OthersQuiet ==
  ASSUME IInv, NEW e \in Ends, Ack(e) \/ Poll(e) \/ InputAck(e)
  PROVE  SentBy' = SentBy /\ GivenTo' = GivenTo
<1>. DEFINE S == sess[e]
            offset == Head(wire[Peer(e)]).offset
<1>1. Sound(S) /\ sess \in [Ends -> Session]
  BY EndFacts DEF IInv, TypeOK
<1>2. ASSUME NEW T, T.sent = S.sent, T.received = S.received, sess' = [sess EXCEPT ![e] = T]
      PROVE  SentBy' = SentBy /\ GivenTo' = GivenTo
  BY <1>1, <1>2, QuietStep
<1>3. CASE Ack(e)
  BY <1>1, <1>2, <1>3, SendAckSound DEF Ack
<1>4. CASE Poll(e)
  BY <1>1, <1>2, <1>4, PolloutSound DEF Poll
<1>5. CASE InputAck(e)
  <2>1. /\ sess' = [sess EXCEPT ![e] = rdts_on_rcv_ack(S, offset)]
        /\ wire[Peer(e)] # << >> /\ Head(wire[Peer(e)]).kind = "ack"
    BY <1>5 DEF InputAck, Arrives
  <2>2. Head(wire[Peer(e)]) \in Message
    BY <2>1, PeerFacts, EndFacts
  <2>3. offset \in Nat
    BY <2>1, <2>2 DEF Message, Packet, RECONN_HANDSHAKE_1, RECONN_HANDSHAKE_2
  <2>4. /\ rdts_on_rcv_ack(S, offset).sent = S.sent
        /\ rdts_on_rcv_ack(S, offset).received = S.received
    BY <1>1, <2>3, OnRcvAckSound
  <2>. QED
    BY <1>2, <2>1, <2>4
<1>. QED
  BY <1>3, <1>4, <1>5

\* rdts_input on a data packet hands over the next bytes of the peer's stream.
LEMMA InputHandsOver ==
  ASSUME IInv, NEW e \in Ends, InputData(e), Waits(Peer(e))
  PROVE  Stream!HandOver(e)
<1>. DEFINE p == Peer(e)
            S == sess[e]
            lo == Head(wire[p]).lo
            len == Head(wire[p]).len
            T == rdts_on_rcv_data(S, lo, len)
<1>1. /\ sess' = [sess EXCEPT ![e] = T]
      /\ linked[e] /\ wire[p] # << >> /\ Head(wire[p]).kind = "data"
  BY DEF InputData, Arrives
<1>2. /\ lo = S.rcv_raw_offset /\ len \in Nat \ {0}
      /\ S.rcv_raw_offset + len <= sess[p].sent
  BY <1>1, DataIsNext
<1>3. /\ Sound(S) /\ sess \in [Ends -> Session] /\ p \in Ends /\ Peer(p) = e
      /\ S.rcv_raw_offset \in Nat /\ sess[p].sent \in Nat
  BY PeerFacts, EndFacts DEF IInv, TypeOK
<1>4. lo \in Nat
  BY <1>2, <1>3
<1>5. T.sent = S.sent /\ T.received = S.received \o Bytes(lo, len)
  BY <1>2, <1>3, <1>4, OnRcvDataSound
<1>. HIDE DEF T, lo, len
<1>6. S.received = Bytes(0, S.rcv_raw_offset)
  BY <1>3 DEF IInv, StreamInv, Intact
<1>7. Len(S.received) = S.rcv_raw_offset
  BY <1>3, <1>6 DEF Bytes
<1>8. /\ len \in 1 .. SentBy[p] - Len(GivenTo[e])
  BY <1>2, <1>3, <1>7 DEF SentBy, GivenTo
<1>9. SentBy' = SentBy
  BY <1>1, <1>3, <1>5 DEF SentBy
<1>10. GivenTo' = [GivenTo EXCEPT ![e] = @ \o [i \in 1 .. len |-> Len(@) + i]]
  <2>1. Bytes(lo, len) = [i \in 1 .. len |-> Len(S.received) + i]
    BY <1>2, <1>7 DEF Bytes
  <2>2. GivenTo[e] = S.received /\ GivenTo'[e] = S.received \o Bytes(lo, len)
    BY <1>1, <1>3, <1>5 DEF GivenTo
  <2>3. \A d \in Ends : d # e => GivenTo'[d] = GivenTo[d]
    BY <1>1, <1>3 DEF GivenTo
  <2>. QED
    BY <2>1, <2>2, <2>3 DEF GivenTo
<1>11. Stream!Peer(e) = p
  BY DEF Stream!Peer, Peer
<1>. QED
  BY <1>8, <1>9, <1>10, <1>11 DEF Stream!HandOver, SentBy, GivenTo

\* Neither the loss of a connection nor the handshake touches the streams.
LEMMA ConnectionsQuiet ==
  ASSUME IInv, LoseConnection \/ StartReconnect \/ ServerReconnects \/ ClientReconnects
  PROVE  SentBy' = SentBy /\ GivenTo' = GivenTo
<1>. DEFINE C == sess["client"]
            S == sess["server"]
<1>1. /\ "client" \in Ends /\ "server" \in Ends /\ sess \in [Ends -> Session]
      /\ Sound(C) /\ Sound(S)
  BY EndFacts DEF Ends, IInv, TypeOK
<1>2. ASSUME NEW e \in Ends, NEW T, T.sent = sess[e].sent, T.received = sess[e].received,
             sess' = [sess EXCEPT ![e] = T]
      PROVE  SentBy' = SentBy /\ GivenTo' = GivenTo
  BY <1>1, <1>2, QuietStep
<1>3. CASE LoseConnection
  BY <1>3, QuietStep DEF LoseConnection
<1>4. CASE StartReconnect
  BY <1>1, <1>2, <1>4, DisableSound DEF StartReconnect
<1>5. CASE ServerReconnects
  <2>. DEFINE D == disable_session(S)
  <2>1. Sound(D) /\ D.sent = S.sent /\ D.received = S.received
    BY <1>1, DisableSound
  <2>2. sess' = [sess EXCEPT !["server"] = Reconnected(D)]
    BY <1>5 DEF ServerReconnects
  <2>. HIDE DEF D
  <2>3. Reconnected(D).sent = S.sent /\ Reconnected(D).received = S.received
    BY <2>1, ReconnectedFacts
  <2>. QED
    BY <1>1, <1>2, <2>2, <2>3
<1>6. CASE ClientReconnects
  BY <1>1, <1>2, <1>6, ReconnectedFacts DEF ClientReconnects
<1>. QED
  BY <1>3, <1>4, <1>5, <1>6

\* Every step of the protocol is a step of the abstract stream or a stutter.
LEMMA StepSimulation ==
  ASSUME IInv, [Next]_vars, ReconnectAssumption, ServerWaits
  PROVE  Stream!StreamNext \/ (SentBy' = SentBy /\ GivenTo' = GivenTo)
<1>1. Stream!Ends = Ends /\ \A e \in Ends : Peer(e) \in Ends /\ Waits(Peer(e))
  BY DEF Stream!Ends, Ends, Peer, Waits
<1>2. ASSUME NEW e \in Ends, Send(e)
      PROVE  Stream!StreamNext \/ (SentBy' = SentBy /\ GivenTo' = GivenTo)
  BY <1>1, <1>2, SendSubmits DEF Stream!StreamNext
<1>3. ASSUME NEW e \in Ends, InputData(e)
      PROVE  Stream!StreamNext
  BY <1>1, <1>3, InputHandsOver DEF Stream!StreamNext
<1>4. CASE UNCHANGED vars
  BY <1>4, QuietStep DEF vars
<1>. QED
  BY <1>2, <1>3, <1>4, OthersQuiet, ConnectionsQuiet DEF Next, Exchange

\* If both applications wait, a pair of sessions over any sequence of
\* connections is the exactly-once stream of RdtStream.
THEOREM StreamImplementedIfBothWait ==
  ASSUME ServerWaits PROVE Spec => ImplementsStream
<1>1. Init => Stream!StreamInit
  <2>1. ASSUME Init PROVE SentBy = [e \in Ends |-> 0] /\ GivenTo = [e \in Ends |-> << >>]
    BY <2>1 DEF Init, SentBy, GivenTo, rdts_create
  <2>2. Stream!Ends = Ends
    BY DEF Stream!Ends, Ends
  <2>. QED
    BY <2>1, <2>2 DEF Stream!StreamInit, SentBy, GivenTo
<1>2. IInv /\ [Next]_vars => [Stream!StreamNext]_(Stream!streamVars)
  BY StepSimulation, ReconnectAssumption DEF Stream!streamVars, SentBy, GivenTo
<1>. QED
  BY <1>1, <1>2, Invariance, PTL DEF Spec, ImplementsStream, Stream!StreamSpec

-----------------------------------------------------------------------------
(* Sequences of packets *)

\* A new packet that is no ack, or the latest, comes in order.
LEMMA RisingAppend ==
  ASSUME NEW q \in Seq(Message), NEW n \in Nat, Rising(q, n), NEW m \in Message,
         m.kind = "ack" => n <= m.offset /\ AcksUpTo(q, m.offset)
  PROVE  Rising(Append(q, m), n)
<1>. DEFINE r == Append(q, m)
<1>1. r \in Seq(Message) /\ Len(r) = Len(q) + 1
  OBVIOUS
<1>2. \A i \in 1 .. Len(r) : r[i] \in Message /\ (i <= Len(q) => r[i] = q[i])
                             /\ (i > Len(q) => r[i] = m)
  BY <1>1
<1>3. \A i \in 1 .. Len(r) : r[i].kind = "ack" => r[i].offset \in Nat
  BY <1>2 DEF Message, Packet, RECONN_HANDSHAKE_1, RECONN_HANDSHAKE_2
<1>. HIDE DEF r
<1>4. ASSUME NEW i \in 1 .. Len(r), r[i].kind = "ack"
      PROVE  /\ n <= r[i].offset
             /\ \A j \in 1 .. i : r[j].kind = "ack" => r[j].offset <= r[i].offset
  <2>1. CASE i <= Len(q)
    BY <1>1, <1>2, <1>4, <2>1 DEF Rising
  <2>2. CASE i > Len(q)
    <3>1. r[i] = m /\ i = Len(r)
      BY <1>1, <1>2, <2>2
    <3>2. ASSUME NEW j \in 1 .. i, r[j].kind = "ack" PROVE r[j].offset <= r[i].offset
      <4>1. CASE j <= Len(q)
        BY <1>1, <1>2, <1>4, <3>1, <3>2, <4>1 DEF AcksUpTo
      <4>2. CASE j > Len(q)
        BY <1>1, <1>2, <1>3, <3>1, <3>2, <4>2
      <4>. QED
        BY <4>1, <4>2
    <3>. QED
      BY <1>4, <3>1, <3>2
  <2>. QED
    BY <1>1, <2>1, <2>2
<1>. QED
  BY <1>4 DEF Rising, r

\* Both halves of a sequence in order are.
LEMMA RisingParts ==
  ASSUME NEW w \in Seq(Message), NEW s \in Seq(Message), NEW n \in Nat, Rising(w \o s, n)
  PROVE  Rising(w, n) /\ Rising(s, n)
<1>. DEFINE q == w \o s
<1>1. /\ Len(q) = Len(w) + Len(s)
      /\ \A i \in 1 .. Len(w) : q[i] = w[i]
      /\ \A i \in 1 .. Len(s) : q[i + Len(w)] = s[i]
  OBVIOUS
<1>2. Rising(q, n)
  OBVIOUS
<1>. HIDE DEF q
<1>3. ASSUME NEW i \in 1 .. Len(w), w[i].kind = "ack"
      PROVE  /\ n <= w[i].offset
             /\ \A j \in 1 .. i : w[j].kind = "ack" => w[j].offset <= w[i].offset
  <2>1. i \in 1 .. Len(q) /\ q[i] = w[i]
    BY <1>1
  <2>2. \A j \in 1 .. i : q[j] = w[j]
    BY <1>1
  <2>. QED
    BY <1>2, <1>3, <2>1, <2>2 DEF Rising
<1>4. ASSUME NEW i \in 1 .. Len(s), s[i].kind = "ack"
      PROVE  /\ n <= s[i].offset
             /\ \A j \in 1 .. i : s[j].kind = "ack" => s[j].offset <= s[i].offset
  <2>1. i + Len(w) \in 1 .. Len(q) /\ q[i + Len(w)] = s[i]
    BY <1>1
  <2>2. \A j \in 1 .. i : j + Len(w) \in 1 .. i + Len(w) /\ q[j + Len(w)] = s[j]
    BY <1>1
  <2>. QED
    BY <1>2, <1>4, <2>1, <2>2 DEF Rising
<1>. QED
  BY <1>3, <1>4 DEF Rising

\* A packet read leaves the rest in order; an ack read is no more than the rest.
LEMMA RisingTail ==
  ASSUME NEW q \in Seq(Message), q # << >>, NEW n \in Nat, Rising(q, n)
  PROVE  /\ Rising(Tail(q), n)
         /\ Head(q).kind = "ack" => Rising(Tail(q), Head(q).offset)
<1>. DEFINE t == Tail(q)
<1>1. /\ Len(q) = Len(t) + 1 /\ Head(q) = q[1] /\ Len(t) \in Nat
      /\ \A i \in 1 .. Len(t) : t[i] = q[i + 1]
  OBVIOUS
<1>. HIDE DEF t
<1>2. ASSUME NEW i \in 1 .. Len(t), t[i].kind = "ack"
      PROVE  /\ n <= t[i].offset
             /\ \A j \in 1 .. i : t[j].kind = "ack" => t[j].offset <= t[i].offset
             /\ Head(q).kind = "ack" => Head(q).offset <= t[i].offset
  <2>1. i + 1 \in 1 .. Len(q) /\ q[i + 1] = t[i]
    BY <1>1
  <2>2. \A j \in 1 .. i : j + 1 \in 1 .. i + 1 /\ q[j + 1] = t[j]
    BY <1>1
  <2>3. 1 \in 1 .. i + 1
    OBVIOUS
  <2>. QED
    BY <1>1, <1>2, <2>1, <2>2, <2>3 DEF Rising
<1>. QED
  BY <1>2 DEF Rising, t

\* Something that is no ack comes before them all.
LEMMA RisingFirst ==
  ASSUME NEW m, m.kind # "ack", NEW s \in Seq(Message), NEW n \in Nat, Rising(s, n)
  PROVE  Rising(<< m >> \o s, n)
<1>. DEFINE q == << m >> \o s
<1>1. /\ Len(q) = Len(s) + 1 /\ q[1] = m
      /\ \A i \in 2 .. Len(q) : q[i] = s[i - 1] /\ i - 1 \in 1 .. Len(s)
  OBVIOUS
<1>. HIDE DEF q
<1>2. ASSUME NEW i \in 1 .. Len(q), q[i].kind = "ack"
      PROVE  /\ n <= q[i].offset
             /\ \A j \in 1 .. i : q[j].kind = "ack" => q[j].offset <= q[i].offset
  <2>1. i \in 2 .. Len(q)
    BY <1>1, <1>2
  <2>2. \A j \in 1 .. i : q[j].kind = "ack" => j \in 2 .. Len(q) /\ j - 1 \in 1 .. i - 1
    BY <1>1, <2>1
  <2>. QED
    BY <1>1, <1>2, <2>1, <2>2 DEF Rising
<1>. QED
  BY <1>2 DEF Rising, q

\* What the peer is told it stays told when more follows,
LEMMA ToldMore ==
  ASSUME NEW q \in Seq(Message), NEW s \in Seq(Message), NEW o, NEW n, Told(q, o, n)
  PROVE  Told(q \o s, o, n)
<1>1. Len(q) <= Len(q \o s) /\ \A i \in 1 .. Len(q) : (q \o s)[i] = q[i]
  OBVIOUS
<1>. QED
  BY <1>1 DEF Told

\* One more packet takes back nothing that q tells; an ack of n tells of n.
LEMMA ToldAppend ==
  ASSUME NEW q \in Seq(Message), NEW m \in Message, NEW o, NEW n,
         Told(q, o, n) \/ (m.kind = "ack" /\ n <= m.offset)
  PROVE  Told(Append(q, m), o, n)
<1>1. /\ Len(Append(q, m)) = Len(q) + 1 /\ Append(q, m)[Len(q) + 1] = m
      /\ \A i \in 1 .. Len(q) : Append(q, m)[i] = q[i]
  OBVIOUS
<1>. QED
  BY <1>1 DEF Told

\* and when it has read a packet, provided it then knows what an ack has said.
LEMMA ToldTail ==
  ASSUME NEW q \in Seq(Message), q # << >>, NEW o \in Nat, NEW n \in Int, Told(q, o, n),
         NEW k \in Nat, o <= k, Head(q).kind = "ack" => Head(q).offset <= k
  PROVE  Told(Tail(q), k, n)
<1>1. /\ Len(q) = Len(Tail(q)) + 1 /\ Head(q) = q[1]
      /\ \A i \in 2 .. Len(q) : Tail(q)[i - 1] = q[i] /\ i - 1 \in 1 .. Len(Tail(q))
  OBVIOUS
<1>2. CASE n <= o
  BY <1>2 DEF Told
<1>3. ASSUME NEW i \in 1 .. Len(q), q[i].kind = "ack", n <= q[i].offset
      PROVE  Told(Tail(q), k, n)
  <2>1. CASE i = 1
    <3>1. q[1] \in Message
      BY <1>3
    <3>2. q[1].offset \in Nat
      BY <1>3, <2>1, <3>1 DEF Message, Packet, RECONN_HANDSHAKE_1, RECONN_HANDSHAKE_2
    <3>. QED
      BY <1>1, <1>3, <2>1, <3>2 DEF Told
  <2>2. CASE i \in 2 .. Len(q)
    BY <1>1, <1>3, <2>2 DEF Told
  <2>. QED
    BY <2>1, <2>2
<1>. QED
  BY <1>2, <1>3 DEF Told

\* An ack that comes first still does when more follows; it does when there was
\* no data; and it does not when data is next.
LEMMA AckFirstMore ==
  ASSUME NEW q \in Seq(Message)
  PROVE  /\ \A s \in Seq(Message) : AckFirst(q) => AckFirst(q \o s)
         /\ \A m \in Message : NoData(q) /\ m.kind = "ack" => AckFirst(Append(q, m))
         /\ q # << >> /\ Head(q).kind = "data" => ~AckFirst(q)
<1>1. ASSUME NEW s \in Seq(Message), AckFirst(q) PROVE AckFirst(q \o s)
  <2>1. Len(q) <= Len(q \o s) /\ \A i \in 1 .. Len(q) : (q \o s)[i] = q[i]
    OBVIOUS
  <2>. QED
    BY <1>1, <2>1 DEF AckFirst
<1>2. ASSUME NEW m \in Message, NoData(q), m.kind = "ack" PROVE AckFirst(Append(q, m))
  <2>1. /\ Len(Append(q, m)) = Len(q) + 1 /\ Append(q, m)[Len(q) + 1] = m
        /\ \A i \in 1 .. Len(q) : Append(q, m)[i] = q[i]
    OBVIOUS
  <2>. QED
    BY <1>2, <2>1 DEF AckFirst, NoData
<1>3. ASSUME q # << >>, Head(q).kind = "data", AckFirst(q) PROVE FALSE
  <2>1. Head(q) = q[1] /\ \A i \in 1 .. Len(q) : 1 \in 1 .. i
    BY <1>3
  <2>. QED
    BY <1>3, <2>1 DEF AckFirst
<1>. QED
  BY <1>1, <1>2, <1>3

-----------------------------------------------------------------------------
(* auto_ack_count *)

\* Which calls count received bytes in auto_ack_count, and which reset it.
LEMMA CountFacts ==
  ASSUME NEW S, Sound(S)
  PROVE  /\ \A len \in Nat \ {0} : rdts_send(S, len).auto_ack_count = S.auto_ack_count
         /\ rdts_send_ack(S).auto_ack_count = 0
         /\ pollout(S).auto_ack_count = S.auto_ack_count
         /\ disable_session(S).auto_ack_count = S.auto_ack_count
         /\ Reconnected(S).auto_ack_count = 0
         /\ \A offset \in Nat :
              rdts_on_rcv_ack(S, offset).auto_ack_count = S.auto_ack_count
  BY DEF Sound, Session, rdts_send, rdts_send_ack, pollout, disable_session, Reconnected,
         reconnect_session, rdts_on_rcv_ack, session_on_ack, rdts_push_raw, DrainAcked

\* The bytes received are counted, or acknowledged.
LEMMA CountData ==
  ASSUME NEW S, Sound(S), NEW lo \in Nat, NEW len \in Nat \ {0}
  PROVE  LET T == rdts_on_rcv_data(S, lo, len)
         IN  \/ /\ T.snd_buf = S.snd_buf
                /\ T.auto_ack_count = S.auto_ack_count + len
                /\ T.auto_ack_count < auto_ack_limit
             \/ /\ T.snd_buf = Append(S.snd_buf, AckPacket(S.rcv_raw_offset + len))
                /\ T.auto_ack_count = 0
<1>. DEFINE U == StoreData(S, lo, len)
            T == rdts_on_rcv_data(S, lo, len)
<1>1. /\ U.snd_buf = S.snd_buf
      /\ U.auto_ack_count = S.auto_ack_count + len
      /\ U.rcv_raw_offset = S.rcv_raw_offset + len
      /\ U.auto_ack_count \in Nat
  BY DEF StoreData, Sound, Session
<1>2. CASE AutoAckDue(U)
  <2>1. T = rdts_send_ack(U)
    BY <1>2 DEF rdts_on_rcv_data
  <2>2. /\ rdts_send_ack(U).snd_buf = Append(U.snd_buf, AckPacket(U.rcv_raw_offset))
        /\ rdts_send_ack(U).auto_ack_count = 0
    BY DEF rdts_send_ack, StoreData, Sound, Session
  <2>. QED
    BY <1>1, <2>1, <2>2
<1>3. CASE ~AutoAckDue(U)
  <2>1. T = U
    BY <1>3 DEF rdts_on_rcv_data
  <2>. QED
    BY <1>1, <1>3, <2>1, SessionAssumption DEF AutoAckDue
<1>. QED
  BY <1>2, <1>3

\* An ack no greater than what was sent is never lost on the receiver.
LEMMA AckIsTaken ==
  ASSUME NEW S, Sound(S), NEW offset \in Nat, offset <= S.sent
  PROVE  LET T == rdts_on_rcv_ack(S, offset)
         IN  /\ S.remote_rcv_raw_offset <= T.remote_rcv_raw_offset
             /\ offset <= T.remote_rcv_raw_offset
             /\ T.remote_rcv_raw_offset \in {S.remote_rcv_raw_offset, offset}
<1>. DEFINE T == rdts_on_rcv_ack(S, offset)
<1>1. /\ S \in Session /\ S.remote_rcv_raw_offset \in Nat
      /\ S.raw_snd_size \in Nat /\ S.sent \in Nat
      /\ S.remote_rcv_raw_offset + S.raw_snd_size = S.sent
  BY SessionFields DEF Sound
<1>2. CASE AcceptsAck(S, offset)
  <2>1. T \in {DrainAcked(S, offset), session_on_ack(DrainAcked(S, offset))}
    BY <1>2 DEF rdts_on_rcv_ack, CallsOnAck
  <2>2. /\ Sound(DrainAcked(S, offset))
        /\ DrainAcked(S, offset).remote_rcv_raw_offset = offset
    BY <1>2, DrainSound
  <2>3. session_on_ack(DrainAcked(S, offset)).remote_rcv_raw_offset = offset
    BY <2>2, OnAckSound
  <2>. QED
    BY <1>1, <1>2, <2>1, <2>2, <2>3 DEF AcceptsAck
<1>3. CASE ~AcceptsAck(S, offset)
  <2>1. T = S
    BY <1>3 DEF rdts_on_rcv_ack, CallsOnAck
  <2>2. offset <= S.remote_rcv_raw_offset
    BY <1>1, <1>3 DEF AcceptsAck
  <2>. QED
    BY <1>1, <2>1, <2>2
<1>. QED
  BY <1>2, <1>3

\* What IInv says of an end when both applications wait.
LEMMA WaitingFacts ==
  ASSUME IInv, ServerWaits, NEW e \in Ends
  PROVE  /\ StreamInv(e) /\ StreamInv(Peer(e))
         /\ AcksUpTo(Flow(e), sess[e].rcv_raw_offset)
         /\ sess[Peer(e)].remote_rcv_raw_offset <= sess[e].rcv_raw_offset
         /\ sess[e].rcv_raw_offset <= sess[Peer(e)].sent
         /\ sess[e].auto_ack_count \in Nat
         /\ handshake_succ[e] => sess[e].enable
<1>1. Peer(e) \in Ends /\ Peer(Peer(e)) = e
  BY PeerFacts
<1>2. StreamInv(e) /\ StreamInv(Peer(e))
  BY <1>1 DEF IInv, Waits
<1>3. AcksUpTo(Flow(e), sess[e].rcv_raw_offset)
  BY EndFacts, ConcatKeeps DEF IInv, EndInv, AcksTrue, Flow
<1>4. sess[e].auto_ack_count \in Nat
  BY SessionFields DEF IInv, TypeOK
<1>5. handshake_succ[e] => sess[e].enable
  <2>1. e = "client" \/ e = "server"
    BY DEF Ends
  <2>. QED
    BY <2>1 DEF IInv, HandshakeShape
<1>. QED
  BY <1>1, <1>2, <1>3, <1>4, <1>5 DEF StreamInv, Covers

-----------------------------------------------------------------------------
(* Each action keeps AckInv *)

\* What is on the server's connection after packets came or went.
LEMMA HandshakeAckKeeps ==
  ASSUME IInv, HandshakeAck,
         LET w == wire["server"]
         IN  \/ wire'["server"] = w
             \/ \E s \in Seq(Packet) : wire'["server"] = w \o s
             \/ w # << >> /\ wire'["server"] = Tail(w)
             \/ wire'["server"] = << >>
  PROVE  HandshakeAck'
<1>. DEFINE w == wire["server"]
<1>1. w \in Seq(Message)
  BY DEF IInv, TypeOK, Ends
<1>2. \A i \in 1 .. Len(w) : w[i].kind = "RECONN_HANDSHAKE_2" => i = 1
  BY DEF IInv, HandshakeShape
<1>3. HandshakeAck <=> (w # << >> /\ w[1].kind = "RECONN_HANDSHAKE_2"
                          => Len(w) > 1 /\ w[2].kind = "ack")
  BY DEF HandshakeAck
<1>. HIDE DEF w
<1>4. ASSUME NEW s \in Seq(Packet), wire'["server"] = w \o s PROVE HandshakeAck'
  <2>1. /\ Len(w \o s) = Len(w) + Len(s)
        /\ \A i \in 1 .. Len(w) : (w \o s)[i] = w[i]
        /\ \A i \in 1 .. Len(s) : (w \o s)[Len(w) + i] = s[i] /\ s[i] \in Packet
    BY <1>1
  <2>2. CASE w = << >>
    <3>1. \A i \in 1 .. Len(s) : (w \o s)[i].kind # "RECONN_HANDSHAKE_2"
      BY <2>1, <2>2 DEF Packet
    <3>2. w \o s # << >> => 1 \in 1 .. Len(s)
      BY <1>1, <2>1, <2>2
    <3>. QED
      BY <1>4, <3>1, <3>2 DEF HandshakeAck
  <2>3. CASE w # << >>
    <3>1. 1 \in 1 .. Len(w) /\ (Len(w) > 1 => 2 \in 1 .. Len(w))
      BY <1>1, <2>3
    <3>. QED
      BY <1>1, <1>3, <1>4, <2>1, <2>3, <3>1 DEF HandshakeAck
  <2>. QED
    BY <2>2, <2>3
<1>5. ASSUME w # << >>, wire'["server"] = Tail(w) PROVE HandshakeAck'
  <2>1. Tail(w) # << >> => Tail(w)[1] = w[2] /\ 2 \in 1 .. Len(w)
    BY <1>1, <1>5
  <2>. QED
    BY <1>2, <1>5, <2>1 DEF HandshakeAck
<1>6. CASE wire'["server"] = w \/ wire'["server"] = << >>
  BY <1>3, <1>6 DEF HandshakeAck
<1>. QED
  BY <1>4, <1>5, <1>6 DEF w

\* rdts_send adds data behind whatever acks are under way.
LEMMA SendTells ==
  ASSUME IInv, ServerWaits, AckInv, ReconnectAssumption, NEW e \in Ends, Send(e)
  PROVE  AckInv'
<1>1. PICK len \in MsgSizes : sess' = [sess EXCEPT ![e] = rdts_send(@, len)]
  BY DEF Send
<1>. DEFINE p == Peer(e)
            S == sess[e]
            T == rdts_send(S, len)
            m == DataPacket(S.sent, len)
<1>2. len \in Nat \ {0}
  BY DEF ReconnectAssumption
<1>3. /\ handshake_succ[e] /\ handshake_succ' = handshake_succ
      /\ linked' = linked /\ wire' = wire
  BY DEF Send
<1>4. /\ p \in Ends /\ p # e /\ Peer(p) = e
      /\ \A d \in Ends : d = e \/ d = p
  BY PeerFacts
<1>5. Sound(S) /\ S.sent \in Nat /\ sess[p].remote_rcv_raw_offset \in Nat
  BY <1>4, EndFacts
<1>6. /\ T.enable = S.enable
      /\ T.rcv_raw_offset = S.rcv_raw_offset
      /\ T.remote_rcv_raw_offset = S.remote_rcv_raw_offset
      /\ T.auto_ack_count = S.auto_ack_count
      /\ T.snd_buf = S.snd_buf \/ T.snd_buf = Append(S.snd_buf, m)
  BY <1>2, <1>5, SendSound, CountFacts
<1>7. m \in Message /\ m.kind = "data"
  BY <1>2, <1>5 DEF DataPacket, Message, Packet
<1>8. sess'[e] = T /\ sess'[p] = sess[p]
  BY <1>1, <1>4 DEF IInv, TypeOK
<1>. HIDE DEF T, m
<1>9. Flow(e)' = Flow(e) \/ Flow(e)' = Append(Flow(e), m)
  <2>1. Flow(e)' = wire[e] \o T.snd_buf
    BY <1>3, <1>8 DEF Flow
  <2>2. wire[e] \o Append(S.snd_buf, m) = Append(Flow(e), m)
    BY <1>7, FlowAppend, EndFacts DEF Flow
  <2>. QED
    BY <1>6, <2>1, <2>2 DEF Flow
<1>10. Flow(p)' = Flow(p)
  BY <1>3, <1>8 DEF Flow
<1>11. AckEnd(e)'
  <2>1. Rising(Flow(e)', sess[p].remote_rcv_raw_offset)
    BY <1>4, <1>5, <1>7, <1>9, RisingAppend, EndFacts DEF AckInv, AckEnd
  <2>2. OpenTells(e)'
    <3>1. \A o, n : Told(Flow(e), o, n) => Told(Flow(e)', o, n)
      BY <1>7, <1>9, ToldAppend, EndFacts
    <3>. QED
      BY <1>3, <1>4, <1>6, <1>8, <3>1 DEF AckInv, AckEnd, OpenTells
  <2>. QED
    BY <1>3, <1>6, <1>8, <2>1, <2>2 DEF AckInv, AckEnd, WaitTells
<1>12. AckEnd(p)'
  BY <1>3, <1>4, <1>6, <1>8, <1>10 DEF AckInv, AckEnd, OpenTells, WaitTells
<1>. QED
  BY <1>3, <1>4, <1>11, <1>12 DEF AckInv, HandshakeAck

\* An ack asked for tells the latest offset, and is the largest.
LEMMA AckTells ==
  ASSUME IInv, ServerWaits, AckInv, NEW e \in Ends, Ack(e)
  PROVE  AckInv'
<1>. DEFINE p == Peer(e)
            S == sess[e]
            T == rdts_send_ack(S)
            m == AckPacket(S.rcv_raw_offset)
<1>1. /\ sess' = [sess EXCEPT ![e] = T]
      /\ handshake_succ' = handshake_succ /\ linked' = linked /\ wire' = wire
  BY DEF Ack
<1>2. /\ p \in Ends /\ p # e /\ Peer(p) = e
      /\ \A d \in Ends : d = e \/ d = p
  BY PeerFacts
<1>3. /\ Sound(S) /\ S.rcv_raw_offset \in Nat
      /\ sess[p].remote_rcv_raw_offset \in Nat
      /\ sess[p].remote_rcv_raw_offset <= S.rcv_raw_offset
      /\ AcksUpTo(Flow(e), S.rcv_raw_offset)
  BY <1>2, EndFacts, WaitingFacts
<1>4. /\ T.enable = S.enable
      /\ T.rcv_raw_offset = S.rcv_raw_offset
      /\ T.remote_rcv_raw_offset = S.remote_rcv_raw_offset
      /\ T.auto_ack_count = 0
      /\ T.snd_buf = Append(S.snd_buf, m)
  BY <1>3, SendAckSound, CountFacts
<1>5. m \in Message /\ m.kind = "ack" /\ m.offset = S.rcv_raw_offset
  BY <1>3 DEF AckPacket, Message, Packet
<1>6. sess'[e] = T /\ sess'[p] = sess[p]
  BY <1>1, <1>2 DEF IInv, TypeOK
<1>. HIDE DEF T, m
<1>7. Flow(e)' = Append(Flow(e), m) /\ Flow(p)' = Flow(p)
  <2>1. Flow(e)' = wire[e] \o Append(S.snd_buf, m)
    BY <1>1, <1>4, <1>6 DEF Flow
  <2>. QED
    BY <1>1, <1>5, <1>6, <2>1, FlowAppend, EndFacts DEF Flow
<1>8. AckEnd(e)'
  <2>1. Rising(Flow(e)', sess[p].remote_rcv_raw_offset)
    BY <1>2, <1>3, <1>5, <1>7, RisingAppend, EndFacts DEF AckInv, AckEnd
  <2>2. Told(Flow(e)', sess[p].remote_rcv_raw_offset, S.rcv_raw_offset)
    BY <1>3, <1>5, <1>7, ToldAppend, EndFacts
  <2>3. OpenTells(e)'
    BY <1>3, <1>4, <1>6, <1>2, <2>2 DEF OpenTells
  <2>4. WaitTells(e)'
    BY <1>1, <1>2, <1>4, <1>6 DEF AckInv, AckEnd, WaitTells
  <2>. QED
    BY <1>2, <1>4, <1>6, <2>1, <2>3, <2>4 DEF AckEnd
<1>9. AckEnd(p)'
  BY <1>1, <1>2, <1>4, <1>6, <1>7 DEF AckInv, AckEnd, OpenTells, WaitTells
<1>. QED
  BY <1>1, <1>2, <1>8, <1>9 DEF AckInv, HandshakeAck

\* rdt_poll moves packets from snd_buf to the connection, in order.
LEMMA PollTells ==
  ASSUME IInv, ServerWaits, AckInv, NEW e \in Ends, Poll(e)
  PROVE  AckInv'
<1>. DEFINE p == Peer(e)
            S == sess[e]
            T == pollout(S)
<1>1. /\ sess' = [sess EXCEPT ![e] = T]
      /\ handshake_succ' = handshake_succ /\ linked' = linked
  BY DEF Poll
<1>2. /\ p \in Ends /\ p # e /\ Peer(p) = e
      /\ \A d \in Ends : d = e \/ d = p
  BY PeerFacts
<1>3. /\ Sound(S) /\ S.snd_buf \in Seq(Packet) /\ S.snd_buf \in Seq(Message)
      /\ wire[e] \in Seq(Message) /\ sess[p].remote_rcv_raw_offset \in Nat
  BY <1>2, EndFacts
<1>4. /\ T.enable = S.enable
      /\ T.rcv_raw_offset = S.rcv_raw_offset
      /\ T.remote_rcv_raw_offset = S.remote_rcv_raw_offset
      /\ T.auto_ack_count = S.auto_ack_count
      /\ T.snd_buf = << >>
  BY <1>3, PolloutSound, CountFacts
<1>5. sess'[e] = T /\ sess'[p] = sess[p]
  BY <1>1, <1>2 DEF IInv, TypeOK
<1>6. /\ wire'[p] = wire[p]
      /\ \/ linked[e] /\ wire'[e] = wire[e] \o S.snd_buf
         \/ ~linked[e] /\ wire'[e] = wire[e]
  BY <1>2 DEF Poll, IInv, TypeOK
<1>. HIDE DEF T
<1>7. /\ Flow(e)' = wire'[e]
      /\ linked[e] => Flow(e)' = Flow(e)
      /\ Flow(p)' = Flow(p)
  <2>1. Flow(e)' = wire'[e] \o << >>
    BY <1>4, <1>5 DEF Flow
  <2>2. wire[e] \o S.snd_buf \in Seq(Message)
    BY <1>3
  <2>. QED
    BY <1>3, <1>5, <1>6, <2>1, <2>2, ConcatEmptySeq DEF Flow
<1>8. AckEnd(e)'
  <2>1. Rising(Flow(e)', sess[p].remote_rcv_raw_offset)
    <3>1. Rising(Flow(e), sess[p].remote_rcv_raw_offset)
      BY DEF AckInv, AckEnd
    <3>. QED
      BY <1>3, <1>6, <1>7, <3>1, RisingParts DEF Flow
  <2>2. OpenTells(e)'
    BY <1>1, <1>2, <1>4, <1>5, <1>7 DEF AckInv, AckEnd, OpenTells
  <2>3. WaitTells(e)'
    <3>1. \A n : Told(wire[e], sess[p].remote_rcv_raw_offset, n)
                  => Told(wire'[e], sess[p].remote_rcv_raw_offset, n)
      BY <1>3, <1>6, ToldMore
    <3>. QED
      BY <1>1, <1>2, <1>4, <1>5, <1>6, <3>1 DEF AckInv, AckEnd, WaitTells
  <2>. QED
    BY <1>2, <1>4, <1>5, <2>1, <2>2, <2>3 DEF AckInv, AckEnd
<1>9. AckEnd(p)'
  <2>1. AckFirst(wire[e]) => AckFirst(wire'[e])
    BY <1>3, <1>6, AckFirstMore
  <2>. QED
    BY <1>1, <1>2, <1>4, <1>5, <1>6, <1>7, <2>1 DEF AckInv, AckEnd, OpenTells, WaitTells
<1>10. HandshakeAck'
  <2>1. e = "server" \/ p = "server"
    BY <1>2 DEF Ends
  <2>. QED
    BY <1>3, <1>6, <2>1, HandshakeAckKeeps DEF AckInv
<1>. QED
  BY <1>2, <1>8, <1>9, <1>10 DEF AckInv
\* What comes off a connection, whoever reads it: e, from p.
LEMMA ReadTells ==
  ASSUME IInv, AckInv, NEW p \in Ends, wire[p] # << >>,
         wire'[p] = Tail(wire[p]), sess'[p].snd_buf = sess[p].snd_buf,
         NEW k \in Nat, sess[Peer(p)].remote_rcv_raw_offset <= k,
         Head(wire[p]).kind = "ack" => Head(wire[p]).offset <= k,
         k = sess[Peer(p)].remote_rcv_raw_offset \/
            (Head(wire[p]).kind = "ack" /\ k = Head(wire[p]).offset)
  PROVE  /\ Rising(Flow(p)', k)
         /\ \A n \in Int :
              /\ Told(Flow(p), sess[Peer(p)].remote_rcv_raw_offset, n) => Told(Flow(p)', k, n)
              /\ Told(wire[p], sess[Peer(p)].remote_rcv_raw_offset, n) => Told(wire'[p], k, n)
<1>. DEFINE o == sess[Peer(p)].remote_rcv_raw_offset
<1>1. /\ wire[p] \in Seq(Message) /\ sess[p].snd_buf \in Seq(Message)
      /\ Flow(p) \in Seq(Message) /\ o \in Nat
  BY PeerFacts, EndFacts
<1>2. /\ Flow(p) # << >>
      /\ Head(Flow(p)) = Head(wire[p])
      /\ Flow(p)' = Tail(Flow(p))
  <2>1. /\ wire[p] \o sess[p].snd_buf # << >>
        /\ Head(wire[p] \o sess[p].snd_buf) = Head(wire[p])
        /\ Tail(wire[p] \o sess[p].snd_buf) = Tail(wire[p]) \o sess[p].snd_buf
    BY <1>1, FlowRead
  <2>2. Flow(p) = wire[p] \o sess[p].snd_buf
    BY DEF Flow
  <2>3. Flow(p)' = Tail(wire[p]) \o sess[p].snd_buf
    BY DEF Flow
  <2>. QED
    BY <2>1, <2>2, <2>3
<1>3. Rising(Flow(p), o)
  BY DEF AckInv, AckEnd
<1>. HIDE DEF o
<1>4. Rising(Flow(p)', k)
  BY <1>1, <1>2, <1>3, RisingTail DEF o
<1>5. ASSUME NEW n \in Int, Told(Flow(p), o, n) PROVE Told(Flow(p)', k, n)
  BY <1>1, <1>2, <1>5, ToldTail DEF o
<1>6. ASSUME NEW n \in Int, Told(wire[p], o, n) PROVE Told(wire'[p], k, n)
  BY <1>1, <1>6, ToldTail DEF o
<1>. QED
  BY <1>4, <1>5, <1>6 DEF o

\* An ack that is read raises the offset the later ones are compared with; if it
\* ends the waiting, on_ack throws away a snd_buf in which nothing is missed.
LEMMA InputAckTells ==
  ASSUME IInv, ServerWaits, AckInv, NEW e \in Ends, InputAck(e)
  PROVE  AckInv'
<1>. DEFINE p == Peer(e)
            S == sess[e]
            offset == Head(wire[p]).offset
            T == rdts_on_rcv_ack(S, offset)
<1>1. /\ S.enable /\ linked[e] /\ wire[p] # << >> /\ Head(wire[p]).kind = "ack"
      /\ sess' = [sess EXCEPT ![e] = T]
      /\ handshake_succ' = [handshake_succ EXCEPT ![e] = @ \/ CallsOnAck(S, offset)]
      /\ linked' = linked
      /\ wire' = [wire EXCEPT ![p] = Tail(@)]
  BY DEF InputAck, Arrives, Consume, get_session
<1>2. /\ p \in Ends /\ p # e /\ Peer(p) = e
      /\ \A d \in Ends : d = e \/ d = p
  BY PeerFacts
<1>3. /\ Sound(S) /\ wire[p] \in Seq(Message) /\ wire[e] \in Seq(Message)
      /\ S.snd_buf \in Seq(Message) /\ Flow(e) \in Seq(Message)
      /\ S.remote_rcv_raw_offset \in Nat /\ S.rcv_raw_offset \in Nat /\ S.sent \in Nat
      /\ sess[p].remote_rcv_raw_offset \in Nat /\ sess[p].rcv_raw_offset \in Nat
      /\ S.auto_ack_count \in Nat /\ sess[p].auto_ack_count \in Nat
  BY <1>2, EndFacts, WaitingFacts
<1>4. /\ Head(wire[p]) \in Message /\ Head(wire[p]) = wire[p][1]
      /\ 1 \in 1 .. Len(wire[p])
  BY <1>1, <1>3
<1>5. offset \in Nat
  BY <1>1, <1>4 DEF Message, Packet, RECONN_HANDSHAKE_1, RECONN_HANDSHAKE_2
<1>6. offset <= sess[p].rcv_raw_offset /\ offset <= S.sent
  <2>1. AcksUpTo(wire[p], sess[p].rcv_raw_offset)
    BY <1>2 DEF IInv, EndInv, AcksTrue
  <2>2. offset <= sess[p].rcv_raw_offset
    BY <1>1, <1>4, <2>1 DEF AcksUpTo
  <2>3. sess[p].rcv_raw_offset <= S.sent
    BY <1>2, WaitingFacts
  <2>. QED
    BY <1>3, <1>5, <2>2, <2>3
<1>7. /\ T.enable = S.enable
      /\ T.rcv_raw_offset = S.rcv_raw_offset
      /\ T.auto_ack_count = S.auto_ack_count
      /\ S.remote_rcv_raw_offset <= T.remote_rcv_raw_offset
      /\ offset <= T.remote_rcv_raw_offset
      /\ T.remote_rcv_raw_offset \in {S.remote_rcv_raw_offset, offset}
  <2>1. T.enable = S.enable /\ T.rcv_raw_offset = S.rcv_raw_offset
    BY <1>3, <1>5, OnRcvAckSound
  <2>2. T.auto_ack_count = S.auto_ack_count
    BY <1>3, <1>5, CountFacts
  <2>3. /\ S.remote_rcv_raw_offset <= T.remote_rcv_raw_offset
        /\ offset <= T.remote_rcv_raw_offset
        /\ T.remote_rcv_raw_offset \in {S.remote_rcv_raw_offset, offset}
    BY <1>3, <1>5, <1>6, AckIsTaken
  <2>. QED
    BY <2>1, <2>2, <2>3
<1>8. \/ T.snd_buf = S.snd_buf
      \/ /\ CallsOnAck(S, offset)
         /\ \E m \in Message : m.kind = "data" /\ T.snd_buf = << m >>
  <2>1. CASE offset < S.sent /\ T.snd_buf = << DataPacket(offset, S.sent - offset) >>
             /\ CallsOnAck(S, offset)
    <3>1. /\ DataPacket(offset, S.sent - offset) \in Message
          /\ DataPacket(offset, S.sent - offset).kind = "data"
      BY <1>3, <1>5, <2>1 DEF DataPacket, Message, Packet
    <3>. QED
      BY <2>1, <3>1
  <2>2. \/ T.snd_buf = S.snd_buf
        \/ /\ CallsOnAck(S, offset) /\ offset < S.sent
           /\ T.snd_buf = << DataPacket(offset, S.sent - offset) >>
    BY <1>3, <1>5, OnRcvAckSound
  <2>. QED
    BY <2>1, <2>2
<1>9. /\ sess'[e] = T /\ sess'[p] = sess[p]
      /\ wire'[p] = Tail(wire[p]) /\ wire'[e] = wire[e]
      /\ handshake_succ'[p] = handshake_succ[p]
      /\ handshake_succ'[e] <=> handshake_succ[e] \/ CallsOnAck(S, offset)
  BY <1>1, <1>2 DEF IInv, TypeOK
<1>10. ~handshake_succ[e] => offset = sess[p].rcv_raw_offset
  <2>1. WaitInv(e)
    BY WaitingFacts DEF StreamInv
  <2>. QED
    BY <1>1, <1>2, <1>4, <2>1 DEF WaitInv, AcksAt
<1>11. CallsOnAck(S, offset) =>
         ~handshake_succ[e] /\ S.remote_rcv_raw_offset < offset
  BY <1>3, <1>5, WaitingFacts DEF CallsOnAck, AcceptsAck, StreamInv
<1>. HIDE DEF T, offset
<1>12. AckEnd(p)'
  <2>1. T.remote_rcv_raw_offset \in Nat
    BY <1>3, <1>5, <1>7
  <2>2. /\ Rising(Flow(p)', T.remote_rcv_raw_offset)
        /\ \A n \in Int :
             /\ Told(Flow(p), S.remote_rcv_raw_offset, n)
                  => Told(Flow(p)', T.remote_rcv_raw_offset, n)
             /\ Told(wire[p], S.remote_rcv_raw_offset, n)
                  => Told(wire'[p], T.remote_rcv_raw_offset, n)
    BY <1>1, <1>2, <1>7, <1>9, <2>1, ReadTells DEF offset
  <2>3. sess[p].rcv_raw_offset - sess[p].auto_ack_count \in Int
    BY <1>3
  <2>4. OpenTells(p)'
    BY <1>1, <1>2, <1>9, <2>2, <2>3 DEF AckInv, AckEnd, OpenTells
  <2>5. WaitTells(p)'
    BY <1>1, <1>2, <1>3, <1>7, <1>9, <2>2 DEF AckInv, AckEnd, WaitTells
  <2>. QED
    BY <1>2, <1>9, <2>2, <2>4, <2>5 DEF AckInv, AckEnd
<1>13. AckEnd(e)'
  <2>1. Flow(e)' = wire[e] \o T.snd_buf
    BY <1>9 DEF Flow
  <2>2. Rising(Flow(e), sess[p].remote_rcv_raw_offset)
    BY DEF AckInv, AckEnd
  <2>3. Rising(Flow(e)', sess[p].remote_rcv_raw_offset)
    <3>1. CASE T.snd_buf = S.snd_buf
      BY <2>1, <2>2, <3>1 DEF Flow
    <3>2. ASSUME NEW m \in Message, m.kind = "data", T.snd_buf = << m >>
          PROVE  Rising(Flow(e)', sess[p].remote_rcv_raw_offset)
      <4>1. Rising(wire[e], sess[p].remote_rcv_raw_offset)
        BY <1>3, <2>2, RisingParts DEF Flow
      <4>2. wire[e] \o << m >> = Append(wire[e], m)
        BY <1>3
      <4>. QED
        BY <1>3, <2>1, <3>2, <4>1, <4>2, RisingAppend
    <3>. QED
      BY <1>8, <3>1, <3>2
  <2>4. OpenTells(e)'
    <3>1. CASE CallsOnAck(S, offset)
      <4>1. S.auto_ack_count = 0 /\ Told(wire[e], sess[p].remote_rcv_raw_offset, S.rcv_raw_offset)
        BY <1>1, <1>2, <1>10, <1>11, <3>1 DEF AckInv, AckEnd, WaitTells
      <4>2. T.snd_buf \in Seq(Message)
        <5>1. \A x \in Message : << x >> \in Seq(Message)
          OBVIOUS
        <5>. QED
          BY <1>3, <1>8, <5>1
      <4>3. Told(Flow(e)', sess[p].remote_rcv_raw_offset, S.rcv_raw_offset)
        BY <1>3, <2>1, <4>1, <4>2, ToldMore
      <4>4. T.rcv_raw_offset - T.auto_ack_count = S.rcv_raw_offset
        BY <1>3, <1>7, <4>1
      <4>. QED
        BY <1>2, <1>9, <4>3, <4>4 DEF OpenTells
    <3>2. CASE ~CallsOnAck(S, offset)
      <4>1. Flow(e)' = Flow(e)
        BY <1>8, <2>1, <3>2 DEF Flow
      <4>. QED
        BY <1>1, <1>2, <1>7, <1>9, <3>2, <4>1 DEF AckInv, AckEnd, OpenTells
    <3>. QED
      BY <3>1, <3>2
  <2>5. WaitTells(e)'
    <3>1. handshake_succ'[e] \/ ~(T.remote_rcv_raw_offset < sess[p].rcv_raw_offset)
      BY <1>3, <1>5, <1>7, <1>9, <1>10
    <3>. QED
      BY <1>2, <1>9, <3>1 DEF WaitTells
  <2>. QED
    BY <1>2, <1>7, <1>9, <2>3, <2>4, <2>5 DEF AckInv, AckEnd
<1>14. HandshakeAck'
  <2>1. e = "server" \/ p = "server"
    BY <1>2 DEF Ends
  <2>. QED
    BY <1>1, <1>9, <2>1, HandshakeAckKeeps DEF AckInv
<1>. QED
  BY <1>2, <1>12, <1>13, <1>14 DEF AckInv

\* Received bytes are counted until auto_ack_limit of them make an ack.
LEMMA InputDataTells ==
  ASSUME IInv, ServerWaits, AckInv, NEW e \in Ends, InputData(e)
  PROVE  AckInv'
<1>. DEFINE p == Peer(e)
            S == sess[e]
            pkt == Head(wire[p])
            lo == pkt.lo
            len == pkt.len
            T == rdts_on_rcv_data(S, lo, len)
            m == AckPacket(S.rcv_raw_offset + len)
<1>1. /\ S.enable /\ linked[e] /\ wire[p] # << >> /\ pkt.kind = "data"
      /\ sess' = [sess EXCEPT ![e] = T]
      /\ handshake_succ' = handshake_succ /\ linked' = linked
      /\ wire' = [wire EXCEPT ![p] = Tail(@)]
  BY DEF InputData, Arrives, Consume, get_session
<1>2. /\ p \in Ends /\ p # e /\ Peer(p) = e
      /\ \A d \in Ends : d = e \/ d = p
  BY PeerFacts
<1>3. /\ Sound(S) /\ wire[p] \in Seq(Message) /\ wire[e] \in Seq(Message)
      /\ S.snd_buf \in Seq(Message) /\ Flow(e) \in Seq(Message)
      /\ S.remote_rcv_raw_offset \in Nat /\ S.rcv_raw_offset \in Nat /\ S.sent \in Nat
      /\ sess[p].remote_rcv_raw_offset \in Nat /\ sess[p].rcv_raw_offset \in Nat
      /\ S.auto_ack_count \in Nat /\ sess[p].auto_ack_count \in Nat
  BY <1>2, EndFacts, WaitingFacts
<1>4. /\ handshake_succ[p] /\ linked[p]
      /\ lo = S.rcv_raw_offset /\ len \in Nat \ {0}
  BY <1>1, <1>2, DataIsNext DEF Waits
<1>. HIDE DEF lo, len
<1>5. /\ T.enable = S.enable
      /\ T.rcv_raw_offset = S.rcv_raw_offset + len
      /\ T.remote_rcv_raw_offset = S.remote_rcv_raw_offset
  BY <1>3, <1>4, OnRcvDataSound
<1>6. \/ /\ T.snd_buf = S.snd_buf
         /\ T.auto_ack_count = S.auto_ack_count + len
         /\ T.auto_ack_count < auto_ack_limit
      \/ /\ T.snd_buf = Append(S.snd_buf, m)
         /\ T.auto_ack_count = 0
  <2>1. Sound(S) /\ lo \in Nat /\ len \in Nat \ {0}
    BY <1>3, <1>4
  <2>. HIDE DEF S
  <2>. QED
    BY ONLY <2>1, CountData
<1>7. m \in Message /\ m.kind = "ack" /\ m.offset = S.rcv_raw_offset + len
  BY <1>3, <1>4 DEF AckPacket, Message, Packet
<1>8. /\ sess'[e] = T /\ sess'[p] = sess[p]
      /\ wire'[p] = Tail(wire[p]) /\ wire'[e] = wire[e]
  BY <1>1, <1>2 DEF IInv, TypeOK
<1>. HIDE DEF T, m
<1>9. AckEnd(p)'
  <2>1. /\ Rising(Flow(p)', S.remote_rcv_raw_offset)
        /\ \A n \in Int : Told(Flow(p), S.remote_rcv_raw_offset, n)
                             => Told(Flow(p)', S.remote_rcv_raw_offset, n)
    <3>1. /\ sess'[p].snd_buf = sess[p].snd_buf /\ Peer(p) = e
          /\ S.remote_rcv_raw_offset <= S.remote_rcv_raw_offset
          /\ Head(wire[p]).kind # "ack"
      BY <1>1, <1>2, <1>3, <1>8
    <3>. QED
      BY <1>1, <1>2, <1>3, <1>8, <3>1, ReadTells
  <2>2. sess[p].rcv_raw_offset - sess[p].auto_ack_count \in Int
    BY <1>3
  <2>3. OpenTells(p)'
    BY <1>1, <1>2, <1>5, <1>8, <2>1, <2>2 DEF AckInv, AckEnd, OpenTells
  <2>4. WaitTells(p)'
    BY <1>1, <1>4 DEF WaitTells
  <2>. QED
    BY <1>2, <1>5, <1>8, <2>1, <2>3, <2>4 DEF AckInv, AckEnd
<1>10. Flow(e)' = IF T.snd_buf = S.snd_buf THEN Flow(e) ELSE Append(Flow(e), m)
  <2>1. Flow(e)' = wire[e] \o T.snd_buf
    BY <1>8 DEF Flow
  <2>2. wire[e] \o Append(S.snd_buf, m) = Append(Flow(e), m)
    BY <1>3, <1>7, FlowAppend DEF Flow
  <2>. QED
    BY <1>6, <2>1, <2>2 DEF Flow
<1>11. AckEnd(e)'
  <2>1. Rising(Flow(e)', sess[p].remote_rcv_raw_offset)
    <3>1. Rising(Flow(e), sess[p].remote_rcv_raw_offset)
      BY DEF AckInv, AckEnd
    <3>2. /\ AcksUpTo(Flow(e), S.rcv_raw_offset)
          /\ sess[p].remote_rcv_raw_offset <= S.rcv_raw_offset
      BY WaitingFacts
    <3>3. /\ AcksUpTo(Flow(e), S.rcv_raw_offset + len)
          /\ sess[p].remote_rcv_raw_offset <= S.rcv_raw_offset + len
      BY <1>3, <1>4, <3>2, LaterKeeps
    <3>. QED
      BY <1>3, <1>7, <1>10, <3>1, <3>3, RisingAppend
  <2>2. OpenTells(e)'
    <3>1. CASE T.snd_buf = S.snd_buf /\ T.auto_ack_count = S.auto_ack_count + len
      <4>1. T.rcv_raw_offset - T.auto_ack_count = S.rcv_raw_offset - S.auto_ack_count
        BY <1>3, <1>4, <1>5, <3>1
      <4>. QED
        BY <1>1, <1>2, <1>8, <1>10, <3>1, <4>1 DEF AckInv, AckEnd, OpenTells
    <3>2. CASE T.snd_buf = Append(S.snd_buf, m) /\ T.auto_ack_count = 0
      <4>1. Flow(e)' = Append(Flow(e), m)
        <5>1. Append(S.snd_buf, m) # S.snd_buf
          <6>1. Len(Append(S.snd_buf, m)) = Len(S.snd_buf) + 1 /\ Len(S.snd_buf) \in Nat
            BY <1>3
          <6>. QED
            BY <6>1
        <5>. QED
          BY <1>10, <3>2, <5>1
      <4>2. Told(Flow(e)', sess[p].remote_rcv_raw_offset, S.rcv_raw_offset + len)
        BY <1>3, <1>4, <1>7, <4>1, ToldAppend
      <4>3. T.rcv_raw_offset - T.auto_ack_count = S.rcv_raw_offset + len
        BY <1>3, <1>4, <1>5, <3>2
      <4>. QED
        BY <1>2, <1>8, <4>2, <4>3 DEF OpenTells
    <3>. QED
      BY <1>6, <3>1, <3>2
  <2>3. WaitTells(e)'
    <3>1. ~AckFirst(wire[p])
      BY <1>1, <1>3, AckFirstMore
    <3>2. linked[p] /\ sess[p].enable
      BY <1>2, <1>4, WaitingFacts
    <3>3. handshake_succ[e] \/ ~(S.remote_rcv_raw_offset < sess[p].rcv_raw_offset)
      BY <1>1, <1>2, <3>1, <3>2 DEF AckInv, AckEnd, WaitTells
    <3>. QED
      BY <1>1, <1>2, <1>5, <1>8, <3>3 DEF WaitTells
  <2>. QED
    BY <1>2, <1>6, <1>8, <2>1, <2>2, <2>3 DEF AckEnd
<1>12. HandshakeAck'
  <2>1. e = "server" \/ p = "server"
    BY <1>2 DEF Ends
  <2>. QED
    BY <1>1, <1>8, <2>1, HandshakeAckKeeps DEF AckInv
<1>. QED
  BY <1>2, <1>9, <1>11, <1>12 DEF AckInv
-----------------------------------------------------------------------------
(* Connections *)

\* A lost connection takes the acks on it along; nothing is claimed of it.
LEMMA LoseTells ==
  ASSUME IInv, AckInv, LoseConnection
  PROVE  AckInv'
<1>1. /\ sess' = sess /\ handshake_succ' = handshake_succ
      /\ \A d \in Ends : ~linked'[d] /\ wire'[d] = << >>
  BY DEF LoseConnection
<1>2. ASSUME NEW d \in Ends PROVE AckEnd(d)'
  <2>1. /\ wire[d] \in Seq(Message) /\ sess[d].snd_buf \in Seq(Message)
        /\ Peer(d) \in Ends /\ sess[Peer(d)].remote_rcv_raw_offset \in Nat
    BY PeerFacts, EndFacts
  <2>2. Flow(d)' = sess[d].snd_buf
    <3>1. Flow(d)' = << >> \o sess[d].snd_buf
      BY <1>1 DEF Flow
    <3>. QED
      BY <2>1, <3>1, ConcatEmptySeq
  <2>3. Rising(wire[d] \o sess[d].snd_buf, sess[Peer(d)].remote_rcv_raw_offset)
    BY DEF AckInv, AckEnd, Flow
  <2>4. Rising(Flow(d)', sess[Peer(d)].remote_rcv_raw_offset)
    BY <2>1, <2>2, <2>3, RisingParts
  <2>. QED
    BY <1>1, <2>4 DEF AckInv, AckEnd, OpenTells, WaitTells
<1>. QED
  BY <1>1, <1>2, HandshakeAckKeeps DEF AckInv, Ends

\* The client is disabled and waits; its new connection has no ack yet.
LEMMA StartTells ==
  ASSUME IInv, AckInv, StartReconnect
  PROVE  AckInv'
<1>. DEFINE C == sess["client"]
            T == disable_session(C)
<1>1. /\ "client" \in Ends /\ "server" \in Ends /\ Peer("client") = "server"
      /\ Peer("server") = "client" /\ \A d \in Ends : d = "client" \/ d = "server"
  BY DEF Ends, Peer
<1>2. /\ T.enable = FALSE
      /\ T.remote_rcv_raw_offset = C.remote_rcv_raw_offset
      /\ T.snd_buf = C.snd_buf
      /\ T.auto_ack_count = C.auto_ack_count
  BY <1>1, EndFacts, DisableSound, CountFacts
<1>3. /\ sess'["client"] = T /\ sess'["server"] = sess["server"]
      /\ ~handshake_succ'["client"] /\ ~linked'["server"]
      /\ wire'["client"] = << RECONN_HANDSHAKE_1 >> /\ wire'["server"] = << >>
  BY <1>1 DEF StartReconnect, IInv, TypeOK
<1>4. \A d \in Ends : /\ wire[d] \in Seq(Message) /\ sess[d].snd_buf \in Seq(Message)
                       /\ sess[d].remote_rcv_raw_offset \in Nat
  BY EndFacts
<1>. HIDE DEF T
<1>5. \A d \in Ends : Rising(sess[d].snd_buf, sess[Peer(d)].remote_rcv_raw_offset)
  BY <1>1, <1>4, RisingParts DEF AckInv, AckEnd, Flow
<1>6. AckEnd("client")'
  <2>1. Flow("client")' = << RECONN_HANDSHAKE_1 >> \o C.snd_buf
    BY <1>2, <1>3 DEF Flow
  <2>2. Rising(Flow("client")', sess["server"].remote_rcv_raw_offset)
    BY <1>1, <1>4, <1>5, <2>1, RisingFirst DEF RECONN_HANDSHAKE_1
  <2>. QED
    BY <1>1, <1>2, <1>3, <2>2 DEF AckInv, AckEnd, OpenTells, WaitTells
<1>7. AckEnd("server")'
  <2>1. Flow("server")' = sess["server"].snd_buf
    <3>1. Flow("server")' = << >> \o sess["server"].snd_buf
      BY <1>3 DEF Flow
    <3>. QED
      BY <1>1, <1>4, <3>1, ConcatEmptySeq
  <2>2. Rising(Flow("server")', C.remote_rcv_raw_offset)
    BY <1>1, <1>5, <2>1
  <2>. QED
    BY <1>1, <1>2, <1>3, <2>2 DEF AckInv, AckEnd, OpenTells, WaitTells
<1>. QED
  BY <1>1, <1>3, <1>6, <1>7, HandshakeAckKeeps DEF AckInv

\* The server's ack follows RECONN_HANDSHAKE_2 and gives its true offset.
LEMMA ServerTells ==
  ASSUME IInv, ServerWaits, AckInv, ServerReconnects
  PROVE  AckInv'
<1>. DEFINE C == sess["client"]
            S == sess["server"]
            T == Reconnected(disable_session(S))
            m == AckPacket(S.rcv_raw_offset)
<1>1. /\ "client" \in Ends /\ "server" \in Ends /\ Peer("client") = "server"
      /\ Peer("server") = "client" /\ \A d \in Ends : d = "client" \/ d = "server"
  BY DEF Ends, Peer
<1>2. /\ Sound(S) /\ S.rcv_raw_offset \in Nat
      /\ C.remote_rcv_raw_offset \in Nat /\ S.remote_rcv_raw_offset \in Nat
      /\ C.remote_rcv_raw_offset <= S.rcv_raw_offset
      /\ wire["client"] \in Seq(Message) /\ C.snd_buf \in Seq(Message)
  BY <1>1, EndFacts, WaitingFacts
<1>3. /\ T.rcv_raw_offset = S.rcv_raw_offset
      /\ T.remote_rcv_raw_offset = S.remote_rcv_raw_offset
      /\ T.snd_buf = << >>
      /\ T.auto_ack_count = 0
  <2>1. /\ Sound(disable_session(S))
        /\ disable_session(S).rcv_raw_offset = S.rcv_raw_offset
        /\ disable_session(S).remote_rcv_raw_offset = S.remote_rcv_raw_offset
    BY <1>2, DisableSound
  <2>. QED
    BY <2>1, ReconnectedFacts, CountFacts
<1>4. ReconnectAck(S) = << m >> /\ m \in Message /\ m.kind = "ack" /\ m.offset = S.rcv_raw_offset
  <2>1. ReconnectAck(S) = << m >>
    BY <1>2, ReconnectSound DEF ReconnectAck
  <2>. QED
    BY <1>2, <2>1 DEF AckPacket, Message, Packet
<1>5. /\ sess'["server"] = T /\ sess'["client"] = C
      /\ wire'["client"] = << >>
      /\ wire'["server"] = << RECONN_HANDSHAKE_2 >> \o << m >>
      /\ handshake_succ'["client"] = handshake_succ["client"]
      /\ ~handshake_succ'["server"]
  <2>1. Waits("server")
    BY DEF Waits
  <2>. QED
    BY <1>1, <1>4, <2>1 DEF ServerReconnects, IInv, TypeOK
<1>6. ~C.enable /\ ~handshake_succ["client"]
  <2>1. 1 \in 1 .. Len(wire["client"]) /\ wire["client"][1] = RECONN_HANDSHAKE_1
    BY DEF ServerReconnects
  <2>. QED
    BY <2>1 DEF IInv, HandshakeShape, RECONN_HANDSHAKE_1
<1>. HIDE DEF T, m
<1>7. << RECONN_HANDSHAKE_2 >> \o << m >> = << RECONN_HANDSHAKE_2, m >>
  <2>1. RECONN_HANDSHAKE_2 \in Message
    BY DEF Message
  <2>. DEFINE x == RECONN_HANDSHAKE_2
              u == << x >> \o << m >>
              v == << x, m >>
  <2>. HIDE DEF x
  <2>2. /\ u \in Seq(Message) /\ v \in Seq(Message)
        /\ Len(u) = 2 /\ Len(v) = 2
        /\ u[1] = x /\ u[2] = m /\ v[1] = x /\ v[2] = m
    BY <1>4, <2>1 DEF x
  <2>3. \A i \in 1 .. 2 : u[i] = v[i]
    BY <2>2
  <2>. HIDE DEF u, v
  <2>4. u = v
    BY <2>2, <2>3, SeqEqual
  <2>. QED
    BY <2>4 DEF u, v, x
<1>8. AckEnd("client")'
  <2>1. Flow("client")' = C.snd_buf
    <3>1. Flow("client")' = << >> \o C.snd_buf
      BY <1>5 DEF Flow
    <3>. QED
      BY <1>2, <3>1, ConcatEmptySeq
  <2>2. Rising(Flow("client"), S.remote_rcv_raw_offset)
    BY <1>1 DEF AckInv, AckEnd
  <2>3. Rising(Flow("client")', S.remote_rcv_raw_offset)
    BY <1>2, <2>1, <2>2, RisingParts DEF Flow
  <2>. QED
    BY <1>1, <1>3, <1>5, <1>6, <2>3 DEF AckInv, AckEnd, OpenTells, WaitTells
<1>9. AckEnd("server")'
  <2>1. Flow("server")' = << RECONN_HANDSHAKE_2, m >> \o << >>
    BY <1>3, <1>5, <1>7 DEF Flow
  <2>2. Flow("server")' = << RECONN_HANDSHAKE_2, m >>
    BY <1>4, <2>1 DEF Message
  <2>3. Rising(Flow("server")', C.remote_rcv_raw_offset)
    BY <1>2, <1>4, <2>2 DEF Rising, RECONN_HANDSHAKE_2
  <2>4. Told(wire'["server"], C.remote_rcv_raw_offset, S.rcv_raw_offset)
    <3>. DEFINE w == << RECONN_HANDSHAKE_2, m >>
    <3>1. 2 \in 1 .. Len(w) /\ w[2] = m
      OBVIOUS
    <3>2. wire'["server"] = w
      BY <1>5, <1>7
    <3>. HIDE DEF w
    <3>. QED
      BY <1>2, <1>4, <3>1, <3>2 DEF Told
  <2>. QED
    BY <1>1, <1>3, <1>5, <1>6, <2>3, <2>4 DEF AckEnd, OpenTells, WaitTells
<1>10. HandshakeAck'
  BY <1>4, <1>5, <1>7 DEF HandshakeAck
<1>. QED
  BY <1>1, <1>8, <1>9, <1>10 DEF AckInv

\* The client's ack is the first packet after the handshake and gives its true
\* offset.
LEMMA ClientTells ==
  ASSUME IInv, ServerWaits, AckInv, ClientReconnects
  PROVE  AckInv'
<1>. DEFINE C == sess["client"]
            S == sess["server"]
            T == Reconnected(C)
            m == AckPacket(C.rcv_raw_offset)
<1>1. /\ "client" \in Ends /\ "server" \in Ends /\ Peer("client") = "server"
      /\ Peer("server") = "client" /\ \A d \in Ends : d = "client" \/ d = "server"
  BY DEF Ends, Peer
<1>2. /\ Sound(C) /\ C.rcv_raw_offset \in Nat
      /\ C.remote_rcv_raw_offset \in Nat /\ S.remote_rcv_raw_offset \in Nat
      /\ S.rcv_raw_offset \in Nat /\ S.auto_ack_count \in Nat
      /\ S.remote_rcv_raw_offset <= C.rcv_raw_offset
      /\ AcksUpTo(Flow("client"), C.rcv_raw_offset)
      /\ wire["client"] \in Seq(Message) /\ C.snd_buf \in Seq(Message)
      /\ wire["server"] \in Seq(Message)
  BY <1>1, EndFacts, WaitingFacts
<1>3. /\ T.rcv_raw_offset = C.rcv_raw_offset
      /\ T.remote_rcv_raw_offset = C.remote_rcv_raw_offset
      /\ T.snd_buf = << >>
      /\ T.auto_ack_count = 0
  BY <1>2, ReconnectedFacts, CountFacts
<1>4. ReconnectAck(C) = << m >> /\ m \in Message /\ m.kind = "ack" /\ m.offset = C.rcv_raw_offset
  <2>1. ReconnectAck(C) = << m >>
    BY <1>2, ReconnectSound DEF ReconnectAck
  <2>. QED
    BY <1>2, <2>1 DEF AckPacket, Message, Packet
<1>5. wire["client"] \o << m >> = Append(wire["client"], m)
  BY <1>2
<1>6. /\ sess'["client"] = T /\ sess'["server"] = S
      /\ wire'["client"] = Append(wire["client"], m)
      /\ wire["server"] # << >> /\ wire'["server"] = Tail(wire["server"])
      /\ Head(wire["server"]).kind = "RECONN_HANDSHAKE_2"
      /\ handshake_succ' = handshake_succ /\ linked' = linked
  BY <1>1, <1>4, <1>5 DEF ClientReconnects, Arrives, Consume, IInv, TypeOK
<1>7. Head(wire["server"]) = wire["server"][1] /\ 1 \in 1 .. Len(wire["server"])
  BY <1>2, <1>6
<1>8. ~C.enable /\ ~handshake_succ["client"] /\ NoData(wire["client"])
  <2>1. ~C.enable /\ ~handshake_succ["client"]
    BY <1>6, <1>7 DEF IInv, HandshakeShape
  <2>. QED
    BY <1>1, <2>1, WaitingFacts DEF StreamInv, WaitInv
<1>. HIDE DEF T, m
<1>9. AckEnd("client")'
  <2>1. Flow("client")' = Append(wire["client"], m)
    <3>1. Flow("client")' = Append(wire["client"], m) \o << >>
      BY <1>3, <1>6 DEF Flow
    <3>2. Append(wire["client"], m) \in Seq(Message)
      BY <1>2, <1>4
    <3>. QED
      BY <3>1, <3>2, ConcatEmptySeq
  <2>2. Rising(Flow("client")', S.remote_rcv_raw_offset)
    <3>1. Rising(Flow("client"), S.remote_rcv_raw_offset)
      BY <1>1 DEF AckInv, AckEnd
    <3>2. Rising(wire["client"], S.remote_rcv_raw_offset)
      BY <1>2, <3>1, RisingParts DEF Flow
    <3>3. AcksUpTo(wire["client"], C.rcv_raw_offset)
      BY <1>1 DEF IInv, EndInv, AcksTrue
    <3>. QED
      BY <1>2, <1>4, <2>1, <3>2, <3>3, RisingAppend
  <2>3. Told(wire'["client"], S.remote_rcv_raw_offset, C.rcv_raw_offset)
    BY <1>2, <1>4, <1>6, ToldAppend
  <2>4. AckFirst(wire'["server"])
    <3>1. Len(wire["server"]) > 1 /\ wire["server"][2].kind = "ack"
      BY <1>6, <1>7 DEF AckInv, HandshakeAck
    <3>2. /\ Tail(wire["server"])[1] = wire["server"][2]
          /\ 1 \in 1 .. Len(Tail(wire["server"])) /\ \A j \in 1 .. 1 : j = 1
      BY <1>2, <3>1
    <3>. QED
      BY <1>6, <3>1, <3>2 DEF AckFirst
  <2>. QED
    BY <1>1, <1>3, <1>6, <1>8, <2>2, <2>3, <2>4 DEF AckEnd, OpenTells, WaitTells
<1>10. AckEnd("server")'
  <2>1. /\ Rising(Flow("server")', C.remote_rcv_raw_offset)
        /\ \A n \in Int :
             /\ Told(Flow("server"), C.remote_rcv_raw_offset, n)
                  => Told(Flow("server")', C.remote_rcv_raw_offset, n)
             /\ Told(wire["server"], C.remote_rcv_raw_offset, n)
                  => Told(wire'["server"], C.remote_rcv_raw_offset, n)
    <3>1. /\ sess'["server"].snd_buf = S.snd_buf
          /\ C.remote_rcv_raw_offset <= C.remote_rcv_raw_offset
          /\ Head(wire["server"]).kind # "ack"
      BY <1>2, <1>6
    <3>. QED
      BY <1>1, <1>2, <1>6, <3>1, ReadTells
  <2>2. OpenTells("server")'
    <3>1. S.rcv_raw_offset - S.auto_ack_count \in Int
      BY <1>2
    <3>. QED
      BY <1>1, <1>3, <1>6, <2>1, <3>1 DEF AckInv, AckEnd, OpenTells
  <2>3. WaitTells("server")'
    <3>1. AckFirst(wire'["client"])
      BY <1>2, <1>4, <1>6, <1>8, AckFirstMore
    <3>2. WaitTells("server")
      BY <1>1 DEF AckInv, AckEnd
    <3>3. Told(wire["server"], C.remote_rcv_raw_offset, S.rcv_raw_offset)
            => Told(wire'["server"], C.remote_rcv_raw_offset, S.rcv_raw_offset)
      BY <1>2, <2>1
    <3>. QED
      BY <1>1, <1>3, <1>6, <3>1, <3>2, <3>3 DEF WaitTells
  <2>. QED
    BY <1>1, <1>3, <1>6, <2>1, <2>2, <2>3 DEF AckInv, AckEnd
<1>. QED
  BY <1>1, <1>6, <1>9, <1>10, HandshakeAckKeeps DEF AckInv

-----------------------------------------------------------------------------
(* The theorems *)

\* Nothing has been received or told.
LEMMA InitTells ==
  ASSUME Init PROVE AckInv
<1>1. \A e \in Ends : /\ sess[e] = rdts_create /\ handshake_succ[e]
                       /\ wire[e] = << >> /\ Peer(e) \in Ends
  BY DEF Init, Ends, Peer
<1>2. /\ rdts_create.rcv_raw_offset = 0 /\ rdts_create.remote_rcv_raw_offset = 0
      /\ rdts_create.auto_ack_count = 0 /\ rdts_create.snd_buf = << >>
  BY DEF rdts_create
<1>3. HandshakeAck
  BY <1>1 DEF HandshakeAck, Ends
<1>4. ASSUME NEW e \in Ends PROVE AckEnd(e)
  <2>1. Flow(e) = << >>
    BY <1>1, <1>2 DEF Flow
  <2>2. Rising(<< >>, 0)
    BY DEF Rising
  <2>3. Told(Flow(e), 0, 0 - 0)
    BY DEF Told
  <2>. QED
    BY <1>1, <1>2, <2>1, <2>2, <2>3 DEF AckEnd, OpenTells, WaitTells
<1>. QED
  BY <1>3, <1>4 DEF AckInv

\* AckInv holds in every state: acks under way are in order, and what a side has
\* received and not counted it has told.
LEMMA AcksHold ==
  ASSUME ServerWaits PROVE Spec => []AckInv
<1>1. Init => AckInv
  BY InitTells
<1>2. AckInv /\ IInv /\ [Next]_vars => AckInv'
  <2>. SUFFICES ASSUME AckInv, IInv, [Next]_vars PROVE AckInv'
    OBVIOUS
  <2>1. ASSUME NEW e \in Ends, Exchange(e) PROVE AckInv'
    BY <2>1, SendTells, AckTells, PollTells, InputAckTells, InputDataTells,
       ReconnectAssumption DEF Exchange
  <2>2. CASE LoseConnection
    BY <2>2, LoseTells
  <2>3. CASE StartReconnect
    BY <2>3, StartTells
  <2>4. CASE ServerReconnects
    BY <2>4, ServerTells
  <2>5. CASE ClientReconnects
    BY <2>5, ClientTells
  <2>6. CASE UNCHANGED vars
    <3>1. sess' = sess /\ handshake_succ' = handshake_succ /\ linked' = linked /\ wire' = wire
      BY <2>6 DEF vars
    <3>. QED
      BY <3>1 DEF AckInv, HandshakeAck, AckEnd, OpenTells, WaitTells, Flow
  <2>. QED
    BY <2>1, <2>2, <2>3, <2>4, <2>5, <2>6 DEF Next
<1>. QED
  BY <1>1, <1>2, Invariance, PTL DEF Spec

\* If both applications wait, no ack is ever refused: rdts_on_rcv_ack's two
\* branches for a bad ack are never taken.
THEOREM AcksNeverRefused ==
  ASSUME ServerWaits PROVE Spec => []AcksInRange
<1>1. ASSUME IInv, AckInv PROVE AcksInRange
  <2>. SUFFICES ASSUME NEW e \in Ends, NEW i \in DOMAIN wire[Peer(e)],
                       wire[Peer(e)][i].kind = "ack"
                PROVE  wire[Peer(e)][i].offset
                         \in sess[e].remote_rcv_raw_offset .. sess[e].sent
    BY DEF AcksInRange
  <2>. DEFINE p == Peer(e)
              m == wire[p][i]
  <2>1. /\ p \in Ends /\ Peer(p) = e
        /\ wire[p] \in Seq(Message) /\ sess[p].snd_buf \in Seq(Message)
        /\ sess[e].remote_rcv_raw_offset \in Nat /\ sess[e].sent \in Nat
        /\ sess[p].rcv_raw_offset \in Nat
    BY PeerFacts, EndFacts, <1>1
  <2>2. i \in 1 .. Len(wire[p]) /\ m \in Message
    BY <2>1
  <2>3. m.offset \in Nat
    BY <2>2 DEF Message, Packet, RECONN_HANDSHAKE_1, RECONN_HANDSHAKE_2
  <2>4. Rising(wire[p], sess[e].remote_rcv_raw_offset)
    BY <1>1, <2>1, RisingParts DEF AckInv, AckEnd, Flow
  <2>5. m.offset <= sess[p].rcv_raw_offset
    BY <1>1, <2>1, <2>2 DEF IInv, EndInv, AcksTrue, AcksUpTo
  <2>6. sess[p].rcv_raw_offset <= sess[e].sent
    BY <1>1, <2>1, WaitingFacts
  <2>. QED
    BY <2>1, <2>2, <2>3, <2>4, <2>5, <2>6 DEF Rising
<1>. QED
  BY <1>1, Invariance, AcksHold, PTL

\* If both applications wait: when everything has been read, each side has the
\* other's whole stream, and has told of all but less than auto_ack_limit.
THEOREM OffsetsAgreeAtRest ==
  ASSUME ServerWaits PROVE Spec => []QuietOffsetsAgree
<1>1. ASSUME IInv, AckInv PROVE QuietOffsetsAgree
  <2>. SUFFICES ASSUME Quiet, NEW e \in Ends
                PROVE  /\ sess[Peer(e)].rcv_raw_offset = sess[e].sent
                       /\ sess[e].raw_snd_size > 0 => sess[e].raw_snd_size < auto_ack_limit
    BY DEF QuietOffsetsAgree
  <2>. DEFINE p == Peer(e)
  <2>1. /\ p \in Ends /\ Peer(p) = e
        /\ sess[e].remote_rcv_raw_offset \in Nat /\ sess[e].sent \in Nat
        /\ sess[e].raw_snd_size \in Nat
        /\ sess[p].rcv_raw_offset \in Nat /\ sess[p].auto_ack_count \in Nat
        /\ sess[e].remote_rcv_raw_offset + sess[e].raw_snd_size = sess[e].sent
    BY <1>1, PeerFacts, EndFacts, WaitingFacts, SessionFields DEF Sound
  <2>2. /\ Flow(e) = << >> /\ Flow(p) = << >>
        /\ linked[e] /\ handshake_succ[e] /\ linked[p] /\ handshake_succ[p]
    BY <2>1 DEF Quiet, Flow
  <2>3. sess[p].rcv_raw_offset = sess[e].sent
    <3>1. Chain(<< >>, sess[p].rcv_raw_offset, sess[e].sent)
      BY <1>1, <2>2, WaitingFacts DEF StreamInv, OpenInv
    <3>. QED
      BY <3>1 DEF Chain, Follows
  <2>4. sess[p].rcv_raw_offset - sess[p].auto_ack_count <= sess[e].remote_rcv_raw_offset
    <3>1. Told(<< >>, sess[e].remote_rcv_raw_offset,
               sess[p].rcv_raw_offset - sess[p].auto_ack_count)
      BY <1>1, <2>1, <2>2 DEF AckInv, AckEnd, OpenTells
    <3>. QED
      BY <3>1 DEF Told
  <2>5. sess[p].auto_ack_count = 0 \/ sess[p].auto_ack_count < auto_ack_limit
    BY <1>1, <2>1 DEF AckInv, AckEnd
  <2>. QED
    BY <2>1, <2>3, <2>4, <2>5, SessionAssumption
<1>. QED
  BY <1>1, Invariance, AcksHold, PTL

-----------------------------------------------------------------------------
(* The messages of a specification of the sessions *)

\* rdt_send and rdt_poll do nothing to the sessions that RdtReconnect has not.
LEMMA StepOfSessions ==
  ASSUME [MessageNext]_messageVars, MessagesAssumption
  PROVE  [Next]_vars
<1>1. ASSUME NEW e \in Senders, NEW n \in Bodies, lsend(e, n) PROVE Send(e) /\ e \in Ends
  BY <1>1 DEF MessagesAssumption, lsend, Send, new_message
<1>2. ASSUME NEW e \in Ends, lpoll(e) PROVE Poll(e) \/ UNCHANGED vars
  BY <1>2 DEF lpoll, pollin
<1>3. ASSUME NEW e \in Ends, lrecv(e) \/ lrdt_ack(e) PROVE Exchange(e)
  BY <1>3 DEF lrecv, lrdt_ack, Exchange
<1>4. CASE Connections
  BY <1>4 DEF Connections, Next
<1>5. CASE UNCHANGED messageVars
  BY <1>5 DEF messageVars
<1>. QED
  BY <1>1, <1>2, <1>3, <1>4, <1>5 DEF MessageNext, Next, Exchange

\* What holds of every behavior of the sessions holds of them under messages.
LEMMA MessagesImplementSessions == MessageSpec => Spec
<1>1. MessageInit => Init
  BY DEF MessageInit
<1>. QED
  BY <1>1, StepOfSessions, MessagesAssumption, PTL DEF MessageSpec, Spec

-----------------------------------------------------------------------------
(* Offsets in sequences of packets *)

\* One more packet with an offset in X.
LEMMA OffsetsAppend ==
  ASSUME NEW q \in Seq(Message), NEW m \in Message, NEW X
  PROVE  /\ AcksOf(q) \subseteq X /\ (m.kind = "ack" => m.offset \in X)
              => AcksOf(Append(q, m)) \subseteq X
         /\ EndsOf(q) \subseteq X /\ (m.kind = "data" => m.lo + m.len \in X)
              => EndsOf(Append(q, m)) \subseteq X
<1>1. /\ Len(Append(q, m)) = Len(q) + 1
      /\ \A i \in 1 .. Len(q) + 1 :
           IF i <= Len(q) THEN Append(q, m)[i] = q[i] /\ i \in 1 .. Len(q)
                          ELSE Append(q, m)[i] = m
  OBVIOUS
<1>. QED
  BY <1>1 DEF AcksOf, EndsOf

\* The packets of two sequences with offsets in X.
LEMMA OffsetsConcat ==
  ASSUME NEW q \in Seq(Message), NEW r \in Seq(Message), NEW X
  PROVE  /\ AcksOf(q) \subseteq X /\ AcksOf(r) \subseteq X => AcksOf(q \o r) \subseteq X
         /\ EndsOf(q) \subseteq X /\ EndsOf(r) \subseteq X => EndsOf(q \o r) \subseteq X
<1>1. /\ Len(q \o r) = Len(q) + Len(r)
      /\ \A i \in 1 .. Len(q) + Len(r) :
           IF i <= Len(q) THEN (q \o r)[i] = q[i] /\ i \in 1 .. Len(q)
                          ELSE (q \o r)[i] = r[i - Len(q)] /\ i - Len(q) \in 1 .. Len(r)
  OBVIOUS
<1>. QED
  BY <1>1 DEF AcksOf, EndsOf

\* Reading a packet leaves fewer offsets, and the packet's own was one of them.
LEMMA OffsetsRead ==
  ASSUME NEW q \in Seq(Message), q # << >>
  PROVE  /\ AcksOf(Tail(q)) \subseteq AcksOf(q) /\ EndsOf(Tail(q)) \subseteq EndsOf(q)
         /\ Head(q).kind = "ack" => Head(q).offset \in AcksOf(q)
         /\ Head(q).kind = "data" => Head(q).lo + Head(q).len \in EndsOf(q)
<1>1. /\ Head(q) = q[1] /\ 1 \in 1 .. Len(q)
      /\ \A i \in 1 .. Len(Tail(q)) : Tail(q)[i] = q[i + 1] /\ i + 1 \in 1 .. Len(q)
  OBVIOUS
<1>. QED
  BY <1>1 DEF AcksOf, EndsOf

\* No packets, no offsets.
LEMMA OffsetsOfNone == AcksOf(<< >>) = {} /\ EndsOf(<< >>) = {}
BY DEF AcksOf, EndsOf

\* A single packet's offset.
LEMMA OffsetsOfOne ==
  ASSUME NEW m, NEW X
  PROVE  /\ (m.kind = "ack" => m.offset \in X) => AcksOf(<< m >>) \subseteq X
         /\ (m.kind = "data" => m.lo + m.len \in X) => EndsOf(<< m >>) \subseteq X
BY DEF AcksOf, EndsOf

-----------------------------------------------------------------------------
(* The sessions keep to whatever offsets the applications give them *)

\* What is aligned to X still is with more in X.
LEMMA AlignedToMore ==
  ASSUME NEW e, NEW X, NEW Y, X \subseteq Y, AlignedTo(e, X)
  PROVE  AlignedTo(e, Y)
BY DEF AlignedTo

\* rdts_send: the packet ends where the stream does afterwards.
LEMMA SendAligned ==
  ASSUME IInv, NEW e \in Ends, NEW len \in Nat \ {0},
         sess' = [sess EXCEPT ![e] = rdts_send(@, len)], wire' = wire,
         NEW d \in Ends, NEW X, AlignedTo(d, X), sess'[d].sent \in X
  PROVE  AlignedTo(d, X)'
<1>. DEFINE S == sess[e]
            T == rdts_send(S, len)
            m == DataPacket(S.sent, len)
<1>1. Peer(d) \in Ends /\ sess \in [Ends -> Session]
  BY PeerFacts DEF IInv, TypeOK
<1>2. Sound(S) /\ S.sent \in Nat /\ S.snd_buf \in Seq(Message)
  BY EndFacts
<1>3. /\ T.rcv_raw_offset = S.rcv_raw_offset
      /\ T.remote_rcv_raw_offset = S.remote_rcv_raw_offset
      /\ T.snd_buf = S.snd_buf
         \/ (T.sent = S.sent + len /\ T.snd_buf = Append(S.snd_buf, m))
  BY <1>2, SendSound
<1>4. m \in Message /\ m.kind = "data" /\ m.lo + m.len = S.sent + len
  BY <1>2 DEF DataPacket, Message, Packet
<1>5. sess'[e] = T /\ \A c \in Ends : c # e => sess'[c] = sess[c]
  BY <1>1
<1>. HIDE DEF T, m
<1>6. \A Y : AcksOf(S.snd_buf) \subseteq Y => AcksOf(T.snd_buf) \subseteq Y
  BY <1>2, <1>3, <1>4, OffsetsAppend
<1>7. ASSUME EndsOf(S.snd_buf) \subseteq X, T.sent \in X PROVE EndsOf(T.snd_buf) \subseteq X
  <2>1. CASE T.snd_buf = S.snd_buf
    BY <1>7, <2>1
  <2>2. CASE T.sent = S.sent + len /\ T.snd_buf = Append(S.snd_buf, m)
    <3>1. m.lo + m.len \in X
      BY <1>4, <1>7, <2>2
    <3>. QED
      BY <1>2, <1>4, <1>7, <2>2, <3>1, OffsetsAppend
  <2>. QED
    BY <1>3, <2>1, <2>2
<1>. QED
  BY <1>1, <1>3, <1>5, <1>6, <1>7, PeerFacts DEF AlignedTo

\* rdt_ack tells rcv_raw_offset, which is aligned already.
LEMMA AckAligned ==
  ASSUME IInv, NEW e \in Ends, Ack(e), NEW d \in Ends, NEW X, AlignedTo(d, X)
  PROVE  AlignedTo(d, X)'
<1>. DEFINE S == sess[e]
            T == rdts_send_ack(S)
            m == AckPacket(S.rcv_raw_offset)
<1>1. Sound(S) /\ S.rcv_raw_offset \in Nat /\ S.snd_buf \in Seq(Message)
  BY EndFacts
<1>2. /\ T.rcv_raw_offset = S.rcv_raw_offset
      /\ T.remote_rcv_raw_offset = S.remote_rcv_raw_offset
      /\ T.snd_buf = Append(S.snd_buf, m)
  BY <1>1, SendAckSound
<1>3. m \in Message /\ m.kind = "ack" /\ m.offset = S.rcv_raw_offset
  BY <1>1 DEF AckPacket, Message, Packet
<1>4. /\ sess'[e] = T /\ \A c \in Ends : c # e => sess'[c] = sess[c]
      /\ wire' = wire
  BY DEF Ack, IInv, TypeOK
<1>. HIDE DEF T, m
<1>5. \A Y : EndsOf(S.snd_buf) \subseteq Y => EndsOf(T.snd_buf) \subseteq Y
  BY <1>1, <1>2, <1>3, OffsetsAppend
<1>6. AcksOf(S.snd_buf) \subseteq X /\ S.rcv_raw_offset \in X => AcksOf(T.snd_buf) \subseteq X
  BY <1>1, <1>2, <1>3, OffsetsAppend
<1>. QED
  BY <1>2, <1>4, <1>5, <1>6, PeerFacts DEF AlignedTo

\* rdt_poll moves packets and changes none.
LEMMA PollAligned ==
  ASSUME IInv, NEW e \in Ends, Poll(e), NEW d \in Ends, NEW X, AlignedTo(d, X)
  PROVE  AlignedTo(d, X)'
<1>. DEFINE S == sess[e]
            T == pollout(S)
<1>1. Sound(S) /\ S.snd_buf \in Seq(Message) /\ wire[e] \in Seq(Message)
  BY EndFacts
<1>2. /\ T.rcv_raw_offset = S.rcv_raw_offset
      /\ T.remote_rcv_raw_offset = S.remote_rcv_raw_offset
      /\ T.snd_buf = << >>
  BY <1>1, PolloutSound
<1>3. /\ sess'[e] = T
      /\ \A c \in Ends : c # e => sess'[c] = sess[c] /\ wire'[c] = wire[c]
      /\ wire'[e] = wire[e] \o S.snd_buf \/ wire'[e] = wire[e]
  BY DEF Poll, IInv, TypeOK
<1>. HIDE DEF T
<1>4. /\ AcksOf(wire[e]) \subseteq X /\ AcksOf(S.snd_buf) \subseteq X
           => AcksOf(wire'[e]) \subseteq X
      /\ EndsOf(wire[e]) \subseteq X /\ EndsOf(S.snd_buf) \subseteq X
           => EndsOf(wire'[e]) \subseteq X
  BY <1>1, <1>3, OffsetsConcat
<1>. QED
  BY <1>2, <1>3, <1>4, OffsetsOfNone, PeerFacts DEF AlignedTo

\* rdts_on_rcv_ack: the offset is one the peer has told, and what on_ack resends
\* ends where the stream does.
LEMMA InputAckAligned ==
  ASSUME IInv, NEW e \in Ends, InputAck(e),
         NEW d \in Ends, NEW X, AlignedTo(d, X), sess[d].sent \in X
  PROVE  AlignedTo(d, X)'
<1>. DEFINE p == Peer(e)
            S == sess[e]
            offset == Head(wire[p]).offset
            T == rdts_on_rcv_ack(S, offset)
            m == DataPacket(offset, S.sent - offset)
<1>1. /\ wire[p] # << >> /\ Head(wire[p]).kind = "ack"
      /\ sess' = [sess EXCEPT ![e] = T]
      /\ wire' = [wire EXCEPT ![p] = Tail(@)]
  BY DEF InputAck, Arrives, Consume
<1>2. /\ p \in Ends /\ p # e /\ Peer(p) = e /\ (d = e \/ d = p)
      /\ wire[p] \in Seq(Message) /\ Sound(S) /\ S.sent \in Nat
  BY PeerFacts, EndFacts
<1>3. Head(wire[p]) \in Message
  BY <1>1, <1>2
<1>4. offset \in Nat
  BY <1>1, <1>3 DEF Message, Packet, RECONN_HANDSHAKE_1, RECONN_HANDSHAKE_2
<1>5. /\ T.rcv_raw_offset = S.rcv_raw_offset
      /\ T.remote_rcv_raw_offset \in {S.remote_rcv_raw_offset, offset}
      /\ T.snd_buf = S.snd_buf \/ (offset < S.sent /\ T.snd_buf = << m >>)
  BY <1>2, <1>4, OnRcvAckSound
<1>6. offset < S.sent => m.kind = "data" /\ m.lo + m.len = S.sent
  BY <1>2, <1>4 DEF DataPacket
<1>7. /\ sess'[e] = T /\ sess'[p] = sess[p]
      /\ wire'[p] = Tail(wire[p]) /\ wire'[e] = wire[e]
  BY <1>1, <1>2 DEF IInv, TypeOK
<1>8. /\ AcksOf(wire'[p]) \subseteq AcksOf(wire[p]) /\ EndsOf(wire'[p]) \subseteq EndsOf(wire[p])
      /\ offset \in AcksOf(wire[p])
  BY <1>1, <1>2, <1>7, OffsetsRead
<1>. HIDE DEF T, m, offset
<1>9. /\ AcksOf(T.snd_buf) \subseteq AcksOf(S.snd_buf)
      /\ EndsOf(S.snd_buf) \subseteq X /\ S.sent \in X => EndsOf(T.snd_buf) \subseteq X
  <2>1. CASE T.snd_buf = S.snd_buf
    BY <2>1
  <2>2. CASE offset < S.sent /\ T.snd_buf = << m >>
    BY <1>6, <2>2, OffsetsOfOne
  <2>. QED
    BY <1>5, <2>1, <2>2
<1>10. CASE d = e
  BY <1>2, <1>5, <1>7, <1>8, <1>9, <1>10 DEF AlignedTo
<1>11. CASE d = p
  BY <1>2, <1>5, <1>7, <1>8, <1>9, <1>11 DEF AlignedTo
<1>. QED
  BY <1>2, <1>10, <1>11

\* rdts_on_rcv_data: the receiver gets to where the packet ends, and an automatic
\* ack says so.
LEMMA InputDataAligned ==
  ASSUME IInv, NEW e \in Ends, InputData(e),
         NEW d \in Ends, Waits(d), NEW X, AlignedTo(d, X)
  PROVE  AlignedTo(d, X)'
<1>. DEFINE p == Peer(e)
            S == sess[e]
            lo == Head(wire[p]).lo
            len == Head(wire[p]).len
            T == rdts_on_rcv_data(S, lo, len)
            m == AckPacket(S.rcv_raw_offset + len)
<1>1. /\ linked[e] /\ wire[p] # << >> /\ Head(wire[p]).kind = "data"
      /\ sess' = [sess EXCEPT ![e] = T]
      /\ wire' = [wire EXCEPT ![p] = Tail(@)]
  BY DEF InputData, Arrives, Consume
<1>2. /\ p \in Ends /\ p # e /\ Peer(p) = e /\ (d = e \/ d = p)
      /\ wire[p] \in Seq(Message) /\ Sound(S)
      /\ S.rcv_raw_offset \in Nat /\ S.snd_buf \in Seq(Message)
  BY PeerFacts, EndFacts
<1>3. /\ lo \in Nat /\ len \in Nat \ {0}
      /\ d = p => lo = S.rcv_raw_offset
  <2>1. Head(wire[p]) \in Message
    BY <1>1, <1>2
  <2>2. lo \in Nat /\ len \in Nat \ {0}
    BY <1>1, <2>1 DEF Message, Packet, RECONN_HANDSHAKE_1, RECONN_HANDSHAKE_2
  <2>. QED
    BY <1>1, <2>2, DataIsNext
<1>4. /\ sess'[e] = T /\ sess'[p] = sess[p]
      /\ wire'[p] = Tail(wire[p]) /\ wire'[e] = wire[e]
  BY <1>1, <1>2 DEF IInv, TypeOK
<1>5. /\ AcksOf(wire'[p]) \subseteq AcksOf(wire[p]) /\ EndsOf(wire'[p]) \subseteq EndsOf(wire[p])
      /\ lo + len \in EndsOf(wire[p])
  BY <1>1, <1>2, <1>4, OffsetsRead
<1>. HIDE DEF lo, len
<1>6. /\ T.rcv_raw_offset = S.rcv_raw_offset + len
      /\ T.remote_rcv_raw_offset = S.remote_rcv_raw_offset
      /\ T.snd_buf = S.snd_buf \/ T.snd_buf = Append(S.snd_buf, m)
  BY <1>2, <1>3, OnRcvDataSound
<1>7. m \in Message /\ m.kind = "ack" /\ m.offset = S.rcv_raw_offset + len
  BY <1>2, <1>3 DEF AckPacket, Message, Packet
<1>. HIDE DEF T, m
<1>8. \A Y : EndsOf(S.snd_buf) \subseteq Y => EndsOf(T.snd_buf) \subseteq Y
  BY <1>2, <1>6, <1>7, OffsetsAppend
<1>9. ASSUME AcksOf(S.snd_buf) \subseteq X, lo + len \in X, d = p
      PROVE  AcksOf(T.snd_buf) \subseteq X
  <2>1. CASE T.snd_buf = S.snd_buf
    BY <1>9, <2>1
  <2>2. CASE T.snd_buf = Append(S.snd_buf, m)
    <3>1. m.offset \in X
      BY <1>3, <1>7, <1>9
    <3>. QED
      BY <1>2, <1>7, <1>9, <2>2, <3>1, OffsetsAppend
  <2>. QED
    BY <1>6, <2>1, <2>2
<1>10. CASE d = e
  BY <1>2, <1>4, <1>5, <1>6, <1>8, <1>10 DEF AlignedTo
<1>11. CASE d = p
  BY <1>2, <1>3, <1>4, <1>5, <1>6, <1>9, <1>11 DEF AlignedTo
<1>. QED
  BY <1>2, <1>10, <1>11

\* A lost connection drops packets; a reconnect adds an ack of rcv_raw_offset.
LEMMA ConnectionsAligned ==
  ASSUME IInv, LoseConnection \/ StartReconnect \/ ServerReconnects \/ ClientReconnects,
         NEW d \in Ends, NEW X, AlignedTo(d, X)
  PROVE  AlignedTo(d, X)'
<1>. DEFINE C == sess["client"]
            S == sess["server"]
<1>1. /\ "client" \in Ends /\ "server" \in Ends /\ Peer("client") = "server"
      /\ Peer("server") = "client" /\ (d = "client" \/ d = "server")
  BY DEF Ends, Peer
<1>2. /\ Sound(C) /\ Sound(S)
      /\ wire["client"] \in Seq(Message) /\ wire["server"] \in Seq(Message)
      /\ C.rcv_raw_offset \in Nat /\ S.rcv_raw_offset \in Nat
  BY <1>1, EndFacts
<1>3. /\ AcksOf(<< RECONN_HANDSHAKE_1 >>) = {} /\ EndsOf(<< RECONN_HANDSHAKE_1 >>) = {}
      /\ AcksOf(<< RECONN_HANDSHAKE_2 >>) = {} /\ EndsOf(<< RECONN_HANDSHAKE_2 >>) = {}
  <2>1. /\ RECONN_HANDSHAKE_1.kind = "RECONN_HANDSHAKE_1"
        /\ RECONN_HANDSHAKE_2.kind = "RECONN_HANDSHAKE_2"
    BY DEF RECONN_HANDSHAKE_1, RECONN_HANDSHAKE_2
  <2>2. ASSUME NEW r, r.kind # "ack", r.kind # "data"
        PROVE  AcksOf(<< r >>) \subseteq {} /\ EndsOf(<< r >>) \subseteq {}
    BY <2>2, OffsetsOfOne
  <2>. QED
    BY <2>1, <2>2
<1>4. ASSUME NEW R, Sound(R)
      PROVE  /\ Reconnected(R).rcv_raw_offset = R.rcv_raw_offset
             /\ Reconnected(R).remote_rcv_raw_offset = R.remote_rcv_raw_offset
             /\ Reconnected(R).snd_buf = << >>
             /\ ReconnectAck(R) \in Seq(Message)
             /\ EndsOf(ReconnectAck(R)) = {}
             /\ \A Y : R.rcv_raw_offset \in Y => AcksOf(ReconnectAck(R)) \subseteq Y
  <2>. DEFINE m == AckPacket(R.rcv_raw_offset)
  <2>1. ReconnectAck(R) = << m >>
    BY <1>4, ReconnectSound DEF ReconnectAck
  <2>2. m \in Message /\ m.kind = "ack" /\ m.offset = R.rcv_raw_offset
    BY <1>4, SessionFields DEF Sound, AckPacket, Message, Packet
  <2>. HIDE DEF m
  <2>3. << m >> \in Seq(Message)
    BY <2>2
  <2>4. EndsOf(<< m >>) \subseteq {}
    <3>1. m.kind # "data"
      BY <2>2
    <3>. QED
      BY <3>1, OffsetsOfOne
  <2>5. ASSUME NEW Y, R.rcv_raw_offset \in Y PROVE AcksOf(<< m >>) \subseteq Y
    <3>1. m.offset \in Y
      BY <2>2, <2>5
    <3>. QED
      BY <3>1, OffsetsOfOne
  <2>6. /\ Reconnected(R).rcv_raw_offset = R.rcv_raw_offset
        /\ Reconnected(R).remote_rcv_raw_offset = R.remote_rcv_raw_offset
        /\ Reconnected(R).snd_buf = << >>
    BY <1>4, ReconnectedFacts
  <2>. QED
    BY <2>1, <2>3, <2>4, <2>5, <2>6
<1>5. CASE LoseConnection
  BY <1>1, <1>5, OffsetsOfNone DEF LoseConnection, AlignedTo
<1>6. CASE StartReconnect
  <2>. DEFINE T == disable_session(C)
  <2>1. /\ T.rcv_raw_offset = C.rcv_raw_offset
        /\ T.remote_rcv_raw_offset = C.remote_rcv_raw_offset
        /\ T.snd_buf = C.snd_buf
    BY <1>2, DisableSound
  <2>2. /\ sess'["client"] = T /\ sess'["server"] = S
        /\ wire'["client"] = << RECONN_HANDSHAKE_1 >> /\ wire'["server"] = << >>
    BY <1>1, <1>6 DEF StartReconnect, IInv, TypeOK
  <2>. HIDE DEF T
  <2>. QED
    BY <1>1, <1>3, <2>1, <2>2, OffsetsOfNone DEF AlignedTo
<1>7. CASE ServerReconnects
  <2>. DEFINE D == disable_session(S)
              T == Reconnected(D)
  <2>1. /\ Sound(D) /\ D.rcv_raw_offset = S.rcv_raw_offset
        /\ D.remote_rcv_raw_offset = S.remote_rcv_raw_offset
    BY <1>2, DisableSound
  <2>2. /\ sess'["server"] = T /\ sess'["client"] = C
        /\ wire'["client"] = << >>
        /\ wire'["server"] = << RECONN_HANDSHAKE_2 >> \o ReconnectAck(S)
    BY <1>1, <1>7 DEF ServerReconnects, IInv, TypeOK
  <2>. HIDE DEF D
  <2>3. /\ T.rcv_raw_offset = S.rcv_raw_offset
        /\ T.remote_rcv_raw_offset = S.remote_rcv_raw_offset
        /\ T.snd_buf = << >>
    BY <1>4, <2>1
  <2>. HIDE DEF T
  <2>4. << RECONN_HANDSHAKE_2 >> \in Seq(Message)
    <3>1. RECONN_HANDSHAKE_2 \in Message
      BY DEF Message
    <3>. QED
      BY <3>1
  <2>5. /\ EndsOf(wire'["server"]) \subseteq {}
        /\ S.rcv_raw_offset \in X => AcksOf(wire'["server"]) \subseteq X
    <3>. DEFINE h == << RECONN_HANDSHAKE_2 >>
                a == ReconnectAck(S)
    <3>1. /\ h \in Seq(Message) /\ AcksOf(h) = {} /\ EndsOf(h) = {}
          /\ a \in Seq(Message) /\ EndsOf(a) = {}
          /\ S.rcv_raw_offset \in X => AcksOf(a) \subseteq X
          /\ wire'["server"] = h \o a
      BY <1>2, <1>3, <1>4, <2>2, <2>4
    <3>. HIDE DEF h, a
    <3>2. EndsOf(h \o a) \subseteq {}
      BY <3>1, OffsetsConcat
    <3>3. AcksOf(a) \subseteq X => AcksOf(h \o a) \subseteq X
      BY <3>1, OffsetsConcat
    <3>. QED
      BY <3>1, <3>2, <3>3
  <2>. QED
    BY <1>1, <2>2, <2>3, <2>5, OffsetsOfNone DEF AlignedTo
<1>8. CASE ClientReconnects
  <2>. DEFINE T == Reconnected(C)
  <2>1. /\ T.rcv_raw_offset = C.rcv_raw_offset
        /\ T.remote_rcv_raw_offset = C.remote_rcv_raw_offset
        /\ T.snd_buf = << >>
    BY <1>2, <1>4
  <2>2. /\ sess'["client"] = T /\ sess'["server"] = S
        /\ wire["server"] # << >> /\ wire'["server"] = Tail(wire["server"])
        /\ wire'["client"] = wire["client"] \o ReconnectAck(C)
    BY <1>1, <1>8 DEF ClientReconnects, Arrives, IInv, TypeOK
  <2>. HIDE DEF T
  <2>3. /\ AcksOf(wire'["server"]) \subseteq AcksOf(wire["server"])
        /\ EndsOf(wire'["server"]) \subseteq EndsOf(wire["server"])
    BY <1>2, <2>2, OffsetsRead
  <2>4. /\ EndsOf(wire["client"]) \subseteq X => EndsOf(wire'["client"]) \subseteq X
        /\ C.rcv_raw_offset \in X /\ AcksOf(wire["client"]) \subseteq X
             => AcksOf(wire'["client"]) \subseteq X
    <3>. DEFINE w == wire["client"]
                a == ReconnectAck(C)
    <3>1. /\ w \in Seq(Message) /\ a \in Seq(Message) /\ EndsOf(a) = {}
          /\ C.rcv_raw_offset \in X => AcksOf(a) \subseteq X
          /\ wire'["client"] = w \o a
      BY <1>2, <1>4, <2>2
    <3>. HIDE DEF w, a
    <3>2. EndsOf(w) \subseteq X => EndsOf(w \o a) \subseteq X
      BY <3>1, OffsetsConcat
    <3>3. AcksOf(w) \subseteq X /\ AcksOf(a) \subseteq X => AcksOf(w \o a) \subseteq X
      BY <3>1, OffsetsConcat
    <3>. QED
      BY <3>1, <3>2, <3>3 DEF w
  <2>. QED
    BY <1>1, <2>1, <2>2, <2>3, <2>4, OffsetsOfNone DEF AlignedTo
<1>. QED
  BY <1>5, <1>6, <1>7, <1>8

-----------------------------------------------------------------------------
(* Messages in a stream *)

\* Ends of messages are offsets.
LEMMA StopType ==
  ASSUME MessagesAssumption, NEW q \in Seq(Message_t), NEW k \in 0 .. Len(q)
  PROVE  Stop(q, k) \in Nat
<1>1. CASE k = 0
  BY <1>1 DEF Stop
<1>2. CASE k # 0
  <2>1. q[k] \in Message_t
    BY <1>2
  <2>2. q[k].lo \in Nat /\ q[k].len \in Nat
    BY <2>1 DEF Message_t
  <2>. QED
    BY <1>2, <2>2, MessagesAssumption DEF Stop
<1>. QED
  BY <1>1, <1>2

\* What MessageInv says of the messages of one stream, in plain terms.
LEMMA StreamFacts ==
  ASSUME MessageInv, IInv, MessagesAssumption, NEW e \in Ends, Waits(Peer(e))
  PROVE  LET p == Peer(e)
             q == accepted[p]
             h == Len(handed[e])
             rcv == sess[e].rcv_raw_offset
         IN  /\ q \in Seq(Message_t) /\ h \in Nat /\ h <= Len(q)
             /\ taken[e] = Stop(q, h) /\ taken[e] \in Nat
             /\ \A k \in 0 .. Len(q) : Stop(q, k) \in Nat
             /\ \A j, k \in 0 .. Len(q) : j < k => Stop(q, j) < Stop(q, k)
             /\ \A k \in 1 .. Len(q) : q[k].lo = Stop(q, k - 1)
             /\ \E k \in 0 .. Len(q) : rcv = Stop(q, k)
             /\ rcv \in Nat /\ sess[e].received = Bytes(0, rcv)
<1>. DEFINE p == Peer(e)
            q == accepted[p]
<1>1. p \in Ends /\ Peer(p) = e
  BY PeerFacts
<1>2. q \in Seq(Message_t) /\ handed[e] \in Seq(Seq(Nat)) /\ taken[e] \in Nat
  BY <1>1 DEF MessageInv, MessageTypeOK
<1>3. /\ Framed(p) /\ TakenIsHanded(e) /\ AlignedTo(p, Stops(p))
      /\ Len(handed[e]) <= Len(q)
  BY <1>1, PeerFacts DEF MessageInv, MessagesWhole
<1>4. \A k \in 0 .. Len(q) : Stop(q, k) \in Nat
  BY <1>2, StopType
<1>5. sess[e].received = Bytes(0, sess[e].rcv_raw_offset) /\ sess[e].rcv_raw_offset \in Nat
  BY <1>1, EndFacts DEF IInv, StreamInv, Intact
<1>6. \E k \in 0 .. Len(q) : sess[e].rcv_raw_offset = Stop(q, k)
  BY <1>1, <1>3 DEF AlignedTo, Stops
<1>7. /\ \A j, k \in 0 .. Len(q) : j < k => Stop(q, j) < Stop(q, k)
      /\ \A k \in 1 .. Len(q) : q[k].lo = Stop(q, k - 1)
      /\ taken[e] = Stop(q, Len(handed[e]))
  BY <1>3 DEF Framed, TakenIsHanded
<1>. QED
  BY <1>2, <1>3, <1>4, <1>5, <1>6, <1>7

\* pollin finds the header of the first message not yet handed out, and of no
\* other: an earlier or a later one begins elsewhere.
LEMMA NextIsNext ==
  ASSUME MessageInv, IInv, MessagesAssumption, NEW e \in Ends, Waits(Peer(e)),
         NEW k \in DOMAIN accepted[Peer(e)], Whole(e, accepted[Peer(e)][k])
  PROVE  k = Len(handed[e]) + 1 /\ accepted[Peer(e)][k].lo = taken[e]
<1>. DEFINE q == accepted[Peer(e)]
            h == Len(handed[e])
            rcv == sess[e].rcv_raw_offset
<1>1. /\ q \in Seq(Message_t) /\ h \in Nat /\ h <= Len(q)
      /\ taken[e] = Stop(q, h) /\ taken[e] \in Nat
      /\ \A i, j \in 0 .. Len(q) : i < j => Stop(q, i) < Stop(q, j)
      /\ \A j \in 0 .. Len(q) : Stop(q, j) \in Nat
      /\ \A j \in 1 .. Len(q) : q[j].lo = Stop(q, j - 1)
      /\ rcv \in Nat /\ sess[e].received = Bytes(0, rcv)
  BY StreamFacts
<1>2. k \in 1 .. Len(q) /\ HeaderLen \in Nat \ {0}
  BY <1>1, MessagesAssumption
<1>3. rcv - taken[e] > HeaderLen /\ sess[e].received[taken[e] + 1] = q[k].lo + 1
  BY <1>2 DEF Whole, RawLength, IsNext
<1>4. sess[e].received[taken[e] + 1] = taken[e] + 1
  BY <1>1, <1>2, <1>3 DEF Bytes
<1>5. q[k].lo = taken[e] /\ q[k].lo \in Nat /\ k - 1 \in 0 .. Len(q)
  <2>1. q[k].lo = Stop(q, k - 1) /\ k - 1 \in 0 .. Len(q)
    BY <1>1, <1>2
  <2>2. q[k].lo \in Nat
    BY <1>1, <2>1
  <2>. QED
    BY <1>1, <1>3, <1>4, <2>1, <2>2
<1>6. Stop(q, k - 1) = Stop(q, h) /\ h \in 0 .. Len(q)
  BY <1>1, <1>2, <1>5
<1>. HIDE DEF q, h
<1>7. ~(k - 1 < h) /\ ~(h < k - 1)
  BY <1>1, <1>5, <1>6
<1>. QED
  BY <1>1, <1>2, <1>5, <1>7 DEF q, h

\* Bytes of a stream, cut out of what has been received of it.
LEMMA BytesCut ==
  ASSUME NEW n \in Nat, NEW from \in Nat, NEW len \in Nat, from + len <= n
  PROVE  SubSeq(Bytes(0, n), from + 1, from + len) = Bytes(from, len)
<1>. DEFINE b == Bytes(0, n)
            c == SubSeq(b, from + 1, from + len)
<1>1. b \in Seq(Nat) /\ Len(b) = n /\ \A i \in 1 .. n : b[i] = i
  BY DEF Bytes
<1>2. Bytes(from, len) \in Seq(Nat) /\ Len(Bytes(from, len)) = len
  BY DEF Bytes
<1>. HIDE DEF b
<1>3. /\ c \in Seq(Nat) /\ Len(c) = len
      /\ \A i \in 1 .. len : c[i] = b[from + i]
  BY <1>1
<1>. HIDE DEF c
<1>4. \A i \in 1 .. len : c[i] = Bytes(from, len)[i]
  BY <1>1, <1>3 DEF Bytes
<1>5. c = Bytes(from, len)
  BY <1>2, <1>3, <1>4
<1>. QED
  BY <1>5 DEF b, c

-----------------------------------------------------------------------------
(* The invariant is inductive *)

\* Nothing accepted, received or handed out.
LEMMA InitMessageInv ==
  ASSUME MessageInit, IInv
  PROVE  MessageInv
<1>1. /\ \A e \in Ends : /\ sess[e] = rdts_create /\ wire[e] = << >>
                        /\ accepted[e] = << >> /\ taken[e] = 0 /\ handed[e] = << >>
      /\ \A e \in Ends : Peer(e) \in Ends
  BY PeerFacts DEF MessageInit, Init
<1>2. /\ rdts_create.sent = 0 /\ rdts_create.rcv_raw_offset = 0
      /\ rdts_create.remote_rcv_raw_offset = 0 /\ rdts_create.snd_buf = << >>
  BY DEF rdts_create
<1>3. MessageTypeOK
  <2>1. << >> \in Seq(Message_t) /\ << >> \in Seq(Seq(Nat))
    OBVIOUS
  <2>. QED
    BY <2>1 DEF MessageTypeOK, MessageInit, IInv
<1>4. MessagesWhole
  BY <1>1 DEF MessagesWhole
<1>5. ASSUME NEW e \in Ends PROVE Framed(e) /\ Counted(e) /\ TakenIsHanded(e)
  <2>1. Len(rdts_create.received) = 0
    BY DEF rdts_create
  <2>. QED
    BY <1>1, <1>2, <2>1 DEF Framed, Counted, TakenIsHanded, Stop
<1>6. ASSUME NEW e \in Ends PROVE AlignedTo(e, Stops(e))
  <2>1. 0 \in Stops(e)
    <3>1. 0 \in 0 .. Len(accepted[e]) /\ Stop(accepted[e], 0) = 0
      BY <1>1 DEF Stop
    <3>. QED
      BY <3>1 DEF Stops
  <2>. QED
    BY <1>1, <1>2, <2>1, OffsetsOfNone DEF AlignedTo
<1>. QED
  BY <1>1, <1>3, <1>4, <1>5, <1>6 DEF MessageInv

\* What is put into raw_rcv_buf is counted.
LEMMA CountedKeeps ==
  ASSUME IInv, \A e \in Ends : Counted(e), [Next]_vars, ReconnectAssumption
  PROVE  (\A e \in Ends : Counted(e))'
<1>1. sess \in [Ends -> Session] /\ \A e \in Ends : Sound(sess[e]) /\ Peer(e) \in Ends
  BY EndFacts, PeerFacts DEF IInv, TypeOK
<1>2. ASSUME NEW e \in Ends, NEW T, sess' = [sess EXCEPT ![e] = T],
             Len(T.received) = T.rcv_raw_offset
      PROVE  (\A d \in Ends : Counted(d))'
  BY <1>1, <1>2 DEF Counted
<1>3. ASSUME NEW e \in Ends, NEW T, sess' = [sess EXCEPT ![e] = T],
             T.received = sess[e].received, T.rcv_raw_offset = sess[e].rcv_raw_offset
      PROVE  (\A d \in Ends : Counted(d))'
  BY <1>2, <1>3 DEF Counted
<1>4. ASSUME NEW e \in Ends, Exchange(e) PROVE (\A d \in Ends : Counted(d))'
  <2>. DEFINE S == sess[e]
              pkt == Head(wire[Peer(e)])
  <2>1. CASE Send(e)
    <3>1. PICK len \in MsgSizes : sess' = [sess EXCEPT ![e] = rdts_send(S, len)]
      BY <2>1 DEF Send
    <3>2. len \in Nat \ {0}
      BY DEF ReconnectAssumption
    <3>. QED
      BY <1>1, <1>3, <3>1, <3>2, SendSound
  <2>2. CASE Ack(e)
    BY <1>1, <1>3, <2>2, SendAckSound DEF Ack
  <2>3. CASE Poll(e)
    BY <1>1, <1>3, <2>3, PolloutSound DEF Poll
  <2>4. ASSUME InputAck(e) \/ InputData(e) PROVE pkt \in Message
    BY <1>1, <2>4, EndFacts DEF InputAck, InputData, Arrives
  <2>5. CASE InputAck(e)
    <3>1. sess' = [sess EXCEPT ![e] = rdts_on_rcv_ack(S, pkt.offset)] /\ pkt.kind = "ack"
      BY <2>5 DEF InputAck, Arrives
    <3>2. pkt.offset \in Nat
      BY <2>4, <2>5, <3>1 DEF Message, Packet, RECONN_HANDSHAKE_1, RECONN_HANDSHAKE_2
    <3>. QED
      BY <1>1, <1>3, <3>1, <3>2, OnRcvAckSound
  <2>6. CASE InputData(e)
    <3>. DEFINE lo == pkt.lo
                len == pkt.len
                T == rdts_on_rcv_data(S, lo, len)
    <3>1. sess' = [sess EXCEPT ![e] = T] /\ pkt.kind = "data"
      BY <2>6 DEF InputData, Arrives
    <3>2. lo \in Nat /\ len \in Nat \ {0}
      BY <2>4, <2>6, <3>1 DEF Message, Packet, RECONN_HANDSHAKE_1, RECONN_HANDSHAKE_2
    <3>. HIDE DEF lo, len
    <3>3. /\ T.rcv_raw_offset = S.rcv_raw_offset + len
          /\ T.received = S.received \o Bytes(lo, len)
      BY <1>1, <3>2, OnRcvDataSound
    <3>4. S.received \in Seq(Nat) /\ Len(S.received) = S.rcv_raw_offset
      BY <1>1, SessionFields DEF Counted
    <3>5. Bytes(lo, len) \in Seq(Nat) /\ Len(Bytes(lo, len)) = len
      BY <3>2 DEF Bytes
    <3>. HIDE DEF T
    <3>6. Len(T.received) = T.rcv_raw_offset
      <4>1. \A a, b \in Seq(Nat) : Len(a \o b) = Len(a) + Len(b)
        OBVIOUS
      <4>. QED
        BY <3>3, <3>4, <3>5, <4>1
    <3>. QED
      BY <1>2, <3>1, <3>6
  <2>. QED
    BY <1>4, <2>1, <2>2, <2>3, <2>5, <2>6 DEF Exchange
<1>. DEFINE C == sess["client"]
            S == sess["server"]
<1>5. "client" \in Ends /\ "server" \in Ends
  BY DEF Ends
<1>6. CASE LoseConnection \/ UNCHANGED vars
  BY <1>6 DEF LoseConnection, vars, Counted
<1>7. CASE StartReconnect
  BY <1>1, <1>3, <1>5, <1>7, DisableSound DEF StartReconnect
<1>8. CASE ServerReconnects
  <2>1. /\ sess' = [sess EXCEPT !["server"] = Reconnected(disable_session(S))]
        /\ Sound(disable_session(S)) /\ disable_session(S).received = S.received
        /\ disable_session(S).rcv_raw_offset = S.rcv_raw_offset
    BY <1>1, <1>5, <1>8, DisableSound DEF ServerReconnects
  <2>2. /\ Reconnected(disable_session(S)).received = S.received
        /\ Reconnected(disable_session(S)).rcv_raw_offset = S.rcv_raw_offset
    BY <2>1, ReconnectedFacts
  <2>. QED
    BY <1>3, <1>5, <2>1, <2>2
<1>9. CASE ClientReconnects
  <2>1. sess' = [sess EXCEPT !["client"] = Reconnected(C)]
    BY <1>9 DEF ClientReconnects
  <2>2. /\ Reconnected(C).received = C.received
        /\ Reconnected(C).rcv_raw_offset = C.rcv_raw_offset
    BY <1>1, <1>5, ReconnectedFacts
  <2>. QED
    BY <1>3, <1>5, <2>1, <2>2
<1>. QED
  BY <1>4, <1>6, <1>7, <1>8, <1>9 DEF Next

\* A step that neither accepts nor hands out a message, and keeps the sessions to
\* the offsets they were given.
LEMMA SessionStepKeeps ==
  ASSUME MessageInv, IInv', (\A d \in Ends : Counted(d))', SentBy' = SentBy,
         UNCHANGED << accepted, taken, handed >>,
         \A d \in Ends : Waits(d) => \A X :
           AlignedTo(d, X) /\ sess[d].sent \in X => AlignedTo(d, X)'
  PROVE  MessageInv'
<1>1. MessageTypeOK' /\ MessagesWhole'
  BY DEF MessageInv, MessageTypeOK, MessagesWhole, Body, IInv
<1>2. ASSUME NEW e \in Ends PROVE Framed(e)' /\ sess'[e].sent = sess[e].sent
  <2>1. sess'[e].sent = sess[e].sent
    BY DEF SentBy
  <2>. QED
    BY <2>1 DEF MessageInv, Framed
<1>3. ASSUME NEW e \in Ends, Waits(e)
      PROVE  TakenIsHanded(Peer(e))' /\ AlignedTo(e, Stops(e))'
  <2>1. Framed(e) /\ TakenIsHanded(Peer(e)) /\ AlignedTo(e, Stops(e))
    BY <1>3 DEF MessageInv
  <2>3. TakenIsHanded(Peer(e))'
    BY <2>1 DEF TakenIsHanded
  <2>4. PICK X : X = Stops(e)
    OBVIOUS
  <2>5. sess[e].sent \in X
    <3>1. Len(accepted[e]) \in Nat
      BY DEF MessageInv, MessageTypeOK
    <3>. QED
      BY <2>1, <2>4, <3>1 DEF Framed, Stops
  <2>6. AlignedTo(e, X)'
    BY <1>3, <2>1, <2>4, <2>5
  <2>7. X = Stops(e)'
    BY <2>4 DEF Stops
  <2>. QED
    BY <2>3, <2>6, <2>7 DEF AlignedTo
<1>. QED
  BY <1>1, <1>2, <1>3 DEF MessageInv

\* rdt_poll and rdt_input when they hand out no message, and rdt_ack.
LEMMA ExchangeKeepsMessages ==
  ASSUME MessageInv, IInv, IInv', (\A d \in Ends : Counted(d))', NEW e \in Ends,
         Ack(e) \/ Poll(e) \/ InputAck(e) \/ InputData(e),
         UNCHANGED << accepted, taken, handed >>
  PROVE  MessageInv'
<1>1. SentBy' = SentBy
  <2>1. CASE InputData(e)
    <3>. DEFINE S == sess[e]
                pkt == Head(wire[Peer(e)])
                T == rdts_on_rcv_data(S, pkt.lo, pkt.len)
    <3>1. /\ sess' = [sess EXCEPT ![e] = T] /\ sess \in [Ends -> Session]
          /\ pkt.kind = "data" /\ wire[Peer(e)] # << >> /\ Sound(S)
      BY <2>1, EndFacts DEF InputData, Arrives, IInv, TypeOK
    <3>2. pkt \in Message
      BY <3>1, PeerFacts, EndFacts
    <3>3. pkt.lo \in Nat /\ pkt.len \in Nat \ {0}
      BY <3>1, <3>2 DEF Message, Packet, RECONN_HANDSHAKE_1, RECONN_HANDSHAKE_2
    <3>4. T.sent = S.sent
      BY <3>1, <3>3, OnRcvDataSound
    <3>. QED
      BY <3>1, <3>4 DEF SentBy
  <2>. QED
    BY <2>1, OthersQuiet
<1>2. ASSUME NEW d \in Ends, Waits(d), NEW X, AlignedTo(d, X), sess[d].sent \in X
      PROVE  AlignedTo(d, X)'
  BY <1>2, AckAligned, PollAligned, InputAckAligned, InputDataAligned
<1>. QED
  BY <1>1, <1>2, SessionStepKeeps

\* The loss of a connection and the handshake.
LEMMA ConnectionsKeepMessages ==
  ASSUME MessageInv, IInv, IInv', (\A d \in Ends : Counted(d))', Connections
  PROVE  MessageInv'
<1>1. ASSUME NEW d \in Ends, NEW X, AlignedTo(d, X), sess[d].sent \in X
      PROVE  AlignedTo(d, X)'
  BY <1>1, ConnectionsAligned DEF Connections
<1>2. SentBy' = SentBy
  BY ConnectionsQuiet DEF Connections
<1>. QED
  BY <1>1, <1>2, SessionStepKeeps DEF Connections

\* rdt_poll hands out the next message of a peer that waits and no other.
LEMMA PollinNext ==
  ASSUME MessageInv, IInv, MessagesAssumption, NEW e \in Ends, Waits(Peer(e)), pollin(e)
  PROVE  LET q == accepted[Peer(e)]
             h == Len(handed[e])
         IN  /\ h + 1 \in 1 .. Len(q)
             /\ handed' = [handed EXCEPT ![e] = Append(@, Body(q[h + 1]))]
             /\ taken'[e] = Stop(q, h + 1)
<1>. DEFINE q == accepted[Peer(e)]
            h == Len(handed[e])
            rcv == sess[e].rcv_raw_offset
            m == q[h + 1]
            from == taken[e] + HeaderLen
<1>1. PICK k \in DOMAIN q :
        /\ Whole(e, q[k])
        /\ handed' = [handed EXCEPT
             ![e] = Append(@, SubSeq(sess[e].received, from + 1, from + q[k].len))]
        /\ taken' = [taken EXCEPT ![e] = @ + Drained(q[k])]
  BY DEF pollin
<1>2. k = h + 1 /\ m.lo = taken[e]
  BY <1>1, NextIsNext
<1>3. /\ q \in Seq(Message_t) /\ h \in Nat /\ h <= Len(q)
      /\ taken[e] = Stop(q, h) /\ taken[e] \in Nat
      /\ rcv \in Nat /\ sess[e].received = Bytes(0, rcv)
  BY StreamFacts
<1>4. h + 1 \in 1 .. Len(q) /\ m \in Message_t /\ HeaderLen \in Nat
  BY <1>1, <1>2, <1>3, MessagesAssumption
<1>5. m.len \in Nat
  BY <1>4 DEF Message_t
<1>6. handed' = [handed EXCEPT ![e] = Append(@, Body(m))]
  <2>1. rcv - taken[e] >= HeaderLen + m.len
    BY <1>1, <1>2 DEF Whole, RawLength
  <2>2. from \in Nat /\ from + m.len <= rcv /\ from = m.lo + HeaderLen
    <3>1. from \in Nat /\ from = m.lo + HeaderLen
      BY <1>2, <1>3, <1>4
    <3>. HIDE DEF m
    <3>2. from + m.len <= rcv
      BY <1>3, <1>4, <1>5, <2>1
    <3>. QED
      BY <3>1, <3>2
  <2>3. SubSeq(sess[e].received, from + 1, from + m.len) = Bytes(from, m.len)
    <3>. HIDE DEF from, m
    <3>1. SubSeq(Bytes(0, rcv), from + 1, from + m.len) = Bytes(from, m.len)
      BY <1>3, <1>5, <2>2, BytesCut
    <3>. QED
      BY <1>3, <3>1
  <2>. QED
    BY <1>1, <1>2, <2>2, <2>3 DEF Body
<1>7. taken'[e] = Stop(q, h + 1)
  <2>1. taken \in [Ends -> Nat]
    BY DEF MessageInv, MessageTypeOK
  <2>2. taken'[e] = taken[e] + HeaderLen + m.len
    BY <1>1, <1>2, <1>3, <1>4, <1>5, <2>1 DEF Drained
  <2>3. Stop(q, h + 1) = m.lo + HeaderLen + m.len
    BY <1>3 DEF Stop
  <2>. QED
    BY <1>2, <2>2, <2>3
<1>. QED
  BY <1>4, <1>6, <1>7

\* What rdt_poll hands out, of whatever peer, are bytes that were received.
LEMMA PollinTypes ==
  ASSUME MessageInv, MessagesAssumption, NEW e \in Ends, pollin(e)
  PROVE  /\ MessageTypeOK' /\ UNCHANGED << vars, accepted >>
         /\ Len(handed'[e]) = Len(handed[e]) + 1
         /\ \A i \in 1 .. Len(handed[e]) : handed'[e][i] = handed[e][i]
         /\ \A d \in Ends : d # e => handed'[d] = handed[d] /\ taken'[d] = taken[d]
<1>. DEFINE q == accepted[Peer(e)]
            received == sess[e].received
            from == taken[e] + HeaderLen
<1>1. PICK k \in DOMAIN q :
        /\ Whole(e, q[k])
        /\ handed' = [handed EXCEPT
             ![e] = Append(@, SubSeq(received, from + 1, from + q[k].len))]
        /\ taken' = [taken EXCEPT ![e] = @ + Drained(q[k])]
  BY DEF pollin
<1>2. /\ handed \in [Ends -> Seq(Seq(Nat))] /\ taken \in [Ends -> Nat]
      /\ accepted \in [Ends -> Seq(Message_t)] /\ TypeOK /\ Peer(e) \in Ends
      /\ UNCHANGED << vars, accepted >> /\ HeaderLen \in Nat
  BY PeerFacts DEF MessageInv, MessageTypeOK, pollin, MessagesAssumption
<1>3. q[k].len \in Nat
  <2>1. q[k] \in Message_t
    BY <1>2
  <2>. QED
    BY <2>1 DEF Message_t
<1>. DEFINE len == q[k].len
            body == SubSeq(received, from + 1, from + len)
<1>4. received \in Seq(Nat) /\ from \in Nat /\ from + len <= Len(received)
  <2>1. sess[e] \in Session
    BY <1>2 DEF TypeOK
  <2>2. received \in Seq(Nat)
    BY <2>1, SessionFields
  <2>3. Len(received) - taken[e] >= HeaderLen + len
    BY <1>1 DEF MessageInv, Counted, Whole, RawLength
  <2>4. taken[e] \in Nat /\ len \in Nat
    BY <1>2, <1>3
  <2>. HIDE DEF len, received
  <2>5. Len(received) \in Nat
    BY <2>2
  <2>6. HeaderLen \in Nat
    BY <1>2
  <2>. QED
    BY <2>2, <2>3, <2>4, <2>5, <2>6
<1>5. body \in Seq(Nat)
  <2>. HIDE DEF from, received, len
  <2>1. \A i \in from + 1 .. from + len : received[i] \in Nat
    BY <1>3, <1>4 DEF len
  <2>. QED
    BY <1>3, <1>4, <2>1 DEF len
<1>6. Drained(q[k]) \in Nat
  BY <1>2, <1>3 DEF Drained
<1>. HIDE DEF body
<1>7. /\ handed'[e] = Append(handed[e], body)
      /\ \A d \in Ends : d # e => handed'[d] = handed[d] /\ taken'[d] = taken[d]
  BY <1>1, <1>2 DEF body
<1>8. handed'[e] \in Seq(Seq(Nat)) /\ Len(handed'[e]) = Len(handed[e]) + 1
      /\ \A i \in 1 .. Len(handed[e]) : handed'[e][i] = handed[e][i]
  <2>1. ASSUME NEW r \in Seq(Seq(Nat)), NEW b \in Seq(Nat)
        PROVE  /\ Append(r, b) \in Seq(Seq(Nat)) /\ Len(Append(r, b)) = Len(r) + 1
               /\ \A i \in 1 .. Len(r) : Append(r, b)[i] = r[i]
    OBVIOUS
  <2>. QED
    BY <1>2, <1>5, <1>7, <2>1
<1>9. handed' \in [Ends -> Seq(Seq(Nat))]
  BY <1>1, <1>2, <1>7, <1>8
<1>10. taken' \in [Ends -> Nat]
  BY <1>1, <1>2, <1>6
<1>11. TypeOK'
  BY <1>2 DEF TypeOK, vars
<1>. QED
  BY <1>2, <1>7, <1>8, <1>9, <1>10, <1>11 DEF MessageTypeOK

\* rdt_poll when it hands out a message.
LEMMA PollinKeepsMessages ==
  ASSUME MessageInv, IInv, MessagesAssumption, NEW e \in Ends, pollin(e)
  PROVE  MessageInv'
<1>. DEFINE h == Len(handed[e])
<1>1. /\ MessageTypeOK' /\ UNCHANGED << vars, accepted >> /\ h \in Nat
      /\ Len(handed'[e]) = h + 1 /\ \A i \in 1 .. h : handed'[e][i] = handed[e][i]
      /\ \A d \in Ends : d # e => handed'[d] = handed[d] /\ taken'[d] = taken[d]
  BY PollinTypes DEF MessageInv, MessageTypeOK
<1>2. Waits(Peer(e)) =>
        LET q == accepted[Peer(e)]
        IN  /\ h + 1 \in 1 .. Len(q) /\ handed'[e][h + 1] = Body(q[h + 1])
            /\ taken'[e] = Stop(q, h + 1)
  <2>1. ASSUME NEW r \in Seq(Seq(Nat)), NEW b PROVE Append(r, b)[Len(r) + 1] = b
    OBVIOUS
  <2>2. handed \in [Ends -> Seq(Seq(Nat))]
    BY DEF MessageInv, MessageTypeOK
  <2>. QED
    BY <2>1, <2>2, PollinNext
<1>3. MessagesWhole'
  <2>1. ASSUME NEW d \in Ends, Waits(Peer(d))
        PROVE  /\ Len(handed'[d]) <= Len(accepted[Peer(d)])
               /\ \A i \in DOMAIN handed'[d] : handed'[d][i] = Body(accepted[Peer(d)][i])
    <3>. DEFINE q == accepted[Peer(d)]
    <3>1. /\ Len(handed[d]) <= Len(q)
          /\ \A i \in DOMAIN handed[d] : handed[d][i] = Body(q[i])
      BY <2>1 DEF MessageInv, MessagesWhole
    <3>2. CASE d # e
      BY <1>1, <3>1, <3>2
    <3>3. CASE d = e
      <4>1. DOMAIN handed'[e] = 1 .. h + 1 /\ DOMAIN handed[e] = 1 .. h
        BY <1>1 DEF MessageInv, MessageTypeOK
      <4>2. Len(handed'[e]) <= Len(q)
        BY <1>1, <1>2, <2>1, <3>3
      <4>3. ASSUME NEW i \in 1 .. h + 1 PROVE handed'[e][i] = Body(q[i])
        <5>1. CASE i \in 1 .. h
          BY <1>1, <3>1, <3>3, <4>1, <5>1
        <5>2. CASE i = h + 1
          BY <1>2, <2>1, <3>3, <5>2
        <5>. QED
          BY <1>1, <5>1, <5>2
      <4>. QED
        BY <3>3, <4>1, <4>2, <4>3
    <3>. QED
      BY <3>2, <3>3
  <2>. QED
    BY <1>1, <2>1 DEF MessagesWhole, Body
<1>4. ASSUME NEW d \in Ends PROVE Framed(d)' /\ Counted(d)'
  BY <1>1 DEF MessageInv, Framed, Counted, vars
<1>5. ASSUME NEW d \in Ends, Waits(d)
      PROVE  TakenIsHanded(Peer(d))' /\ AlignedTo(d, Stops(d))'
  <2>1. TakenIsHanded(Peer(d)) /\ AlignedTo(d, Stops(d))
        /\ Peer(d) \in Ends /\ Peer(Peer(d)) = d
    BY <1>5, PeerFacts DEF MessageInv
  <2>2. AlignedTo(d, Stops(d))'
    BY <1>1, <2>1 DEF AlignedTo, Stops, vars
  <2>3. TakenIsHanded(Peer(d))'
    BY <1>1, <1>2, <1>5, <2>1 DEF TakenIsHanded
  <2>. QED
    BY <2>2, <2>3
<1>. QED
  BY <1>1, <1>3, <1>4, <1>5 DEF MessageInv

\* rdt_send of a message that rdts_send takes: one more message in the sender's
\* stream, where the stream ended.
LEMMA AcceptKeepsMessages ==
  ASSUME MessageInv, IInv, IInv', (\A d \in Ends : Counted(d))', MessagesAssumption,
         NEW e \in Ends, NEW n \in Bodies,
         lsend(e, n), ~Overflows(sess[e], new_message(n))
  PROVE  MessageInv'
<1>. DEFINE S == sess[e]
            q == accepted[e]
            r == [lo |-> S.sent, len |-> n]
            r1 == Append(q, r)
            L == Len(q)
            end == S.sent + new_message(n)
<1>1. /\ accepted \in [Ends -> Seq(Message_t)] /\ TypeOK'
      /\ S.sent \in Nat /\ n \in Nat \ {0} /\ HeaderLen \in Nat \ {0}
      /\ sess \in [Ends -> Session]
  BY EndFacts DEF MessageInv, MessageTypeOK, MessagesAssumption, IInv, TypeOK
<1>2. /\ sess' = [sess EXCEPT ![e] = rdts_send(@, new_message(n))]
      /\ accepted' = [accepted EXCEPT ![e] = r1]
      /\ wire' = wire /\ taken' = taken /\ handed' = handed
  BY DEF lsend
<1>3. /\ accepted'[e] = r1 /\ \A d \in Ends : d # e => accepted'[d] = accepted[d]
      /\ sess'[e].sent = end /\ \A d \in Ends : d # e => sess'[d] = sess[d]
  <2>1. rdts_send(S, new_message(n)).sent = end
    BY <1>1 DEF rdts_send, Session
  <2>. QED
    BY <1>1, <1>2, <2>1
<1>4. end \in Nat /\ S.sent < end /\ new_message(n) \in Nat \ {0}
  BY <1>1 DEF new_message
<1>5. /\ r \in Message_t /\ L \in Nat /\ r1 \in Seq(Message_t) /\ Len(r1) = L + 1
      /\ r1[L + 1] = r /\ \A k \in 1 .. L : r1[k] = q[k]
  BY <1>1 DEF Message_t
<1>6. /\ Stop(q, L) = S.sent
      /\ \A k \in 1 .. L : q[k].lo = Stop(q, k - 1)
      /\ \A j, k \in 0 .. L : j < k => Stop(q, j) < Stop(q, k)
      /\ \A k \in 0 .. L : Stop(q, k) \in Nat
  <2>1. \A k \in 0 .. L : Stop(q, k) \in Nat
    BY <1>1, StopType
  <2>. QED
    BY <2>1 DEF MessageInv, Framed
<1>7. /\ Stop(r1, L + 1) = end
      /\ \A k \in 0 .. L : Stop(r1, k) = Stop(q, k)
  <2>1. r.lo = S.sent /\ r.len = n
    OBVIOUS
  <2>2. Stop(r1, L + 1) = end
    BY <1>1, <1>5, <2>1 DEF Stop, new_message
  <2>. HIDE DEF r1
  <2>3. \A k \in 0 .. L : Stop(r1, k) = Stop(q, k)
    BY <1>5 DEF Stop
  <2>. QED
    BY <2>2, <2>3
<1>8. r.lo = Stop(q, L)
  BY <1>6
<1>. HIDE DEF r, r1, end
<1>9. Framed(e)'
  <2>1. \A k \in 1 .. L + 1 : r1[k].lo = Stop(r1, k - 1)
    <3>1. ASSUME NEW k \in 1 .. L PROVE r1[k].lo = Stop(r1, k - 1)
      <4>1. k - 1 \in 0 .. L
        BY <1>5
      <4>. QED
        BY <1>5, <1>6, <1>7, <4>1
    <3>2. r1[L + 1].lo = Stop(r1, L + 1 - 1)
      BY <1>5, <1>7, <1>8
    <3>3. ASSUME NEW k \in 1 .. L + 1 PROVE r1[k].lo = Stop(r1, k - 1)
      <4>1. k \in 1 .. L \/ k = L + 1
        BY <1>5
      <4>2. CASE k = L + 1
        BY <3>2, <4>2
      <4>. QED
        BY <3>1, <4>1, <4>2
    <3>. QED
      BY <3>3
  <2>2. ASSUME NEW j \in 0 .. L + 1, NEW k \in 0 .. L + 1, j < k
        PROVE  Stop(r1, j) < Stop(r1, k)
    <3>1. CASE k \in 0 .. L
      BY <1>5, <1>6, <1>7, <2>2, <3>1
    <3>2. CASE k = L + 1 /\ j = L
      <4>1. L \in 0 .. L
        BY <1>5
      <4>2. Stop(r1, j) = S.sent /\ Stop(r1, k) = end
        BY <1>6, <1>7, <3>2, <4>1
      <4>. QED
        BY <1>4, <4>2
    <3>3. CASE k = L + 1 /\ j \in 0 .. L - 1
      <4>1. j \in 0 .. L /\ L \in 0 .. L /\ j < L
        BY <1>5, <3>3
      <4>2. Stop(q, j) < S.sent /\ Stop(q, j) \in Nat
        BY <1>6, <4>1
      <4>3. Stop(r1, j) = Stop(q, j) /\ Stop(r1, k) = end
        BY <1>7, <3>3, <4>1
      <4>. QED
        BY <1>1, <1>4, <4>2, <4>3
    <3>. QED
      BY <1>5, <2>2, <3>1, <3>2, <3>3
  <2>. QED
    BY <1>3, <1>5, <1>7, <2>1, <2>2 DEF Framed
<1>10. Stops(e) \subseteq Stops(e)' /\ sess'[e].sent \in Stops(e)'
  <2>1. Stops(e) = {Stop(q, k) : k \in 0 .. L}
    BY DEF Stops
  <2>2. Stops(e)' = {Stop(r1, k) : k \in 0 .. L + 1}
    BY <1>3, <1>5 DEF Stops
  <2>3. 0 .. L \subseteq 0 .. L + 1 /\ L + 1 \in 0 .. L + 1
    BY <1>5
  <2>. QED
    BY <1>3, <1>7, <2>1, <2>2, <2>3
<1>11. ASSUME NEW d \in Ends, Waits(d) PROVE AlignedTo(d, Stops(d))'
  <2>1. PICK X : X = Stops(d)'
    OBVIOUS
  <2>2. AlignedTo(d, Stops(d)) /\ Stops(d) \subseteq X /\ sess'[d].sent \in X
    <3>1. CASE d = e
      BY <1>10, <1>11, <2>1, <3>1 DEF MessageInv
    <3>2. CASE d # e
      <4>1. Stops(d)' = Stops(d) /\ sess'[d].sent = sess[d].sent
        BY <1>3, <3>2 DEF Stops
      <4>2. Stop(accepted[d], Len(accepted[d])) = sess[d].sent /\ Len(accepted[d]) \in Nat
        BY <1>1 DEF MessageInv, Framed
      <4>3. sess[d].sent \in Stops(d)
        BY <4>2 DEF Stops
      <4>. QED
        BY <1>11, <2>1, <4>1, <4>3 DEF MessageInv
    <3>. QED
      BY <3>1, <3>2
  <2>3. AlignedTo(d, X)
    BY <2>2, AlignedToMore
  <2>4. AlignedTo(d, X)'
    BY <1>2, <1>4, <2>2, <2>3, SendAligned
  <2>. QED
    BY <2>1, <2>4 DEF AlignedTo
<1>12. ASSUME NEW d \in Ends PROVE Framed(d)'
  <2>1. CASE d = e
    BY <1>9, <2>1
  <2>2. CASE d # e
    BY <1>3, <2>2 DEF MessageInv, Framed
  <2>. QED
    BY <2>1, <2>2
<1>13. ASSUME NEW d \in Ends, Waits(Peer(d))
       PROVE  LET h == Len(handed[d])
              IN  /\ Peer(d) \in Ends /\ h \in Nat /\ h <= Len(accepted[Peer(d)])
                  /\ h <= Len(accepted'[Peer(d)])
                  /\ \A k \in 1 .. h : accepted'[Peer(d)][k] = accepted[Peer(d)][k]
                  /\ Stop(accepted'[Peer(d)], h) = Stop(accepted[Peer(d)], h)
  <2>1. /\ Peer(d) \in Ends /\ Len(handed[d]) \in Nat
        /\ Len(handed[d]) <= Len(accepted[Peer(d)])
    BY <1>13, PeerFacts DEF MessageInv, MessageTypeOK, MessagesWhole
  <2>2. CASE Peer(d) = e
    BY <1>3, <1>5, <1>7, <2>1, <2>2
  <2>3. CASE Peer(d) # e
    BY <1>3, <2>1, <2>3
  <2>. QED
    BY <2>1, <2>2, <2>3
<1>14. ASSUME NEW d \in Ends, Waits(d) PROVE TakenIsHanded(Peer(d))'
  <2>1. TakenIsHanded(Peer(d)) /\ Peer(d) \in Ends /\ Peer(Peer(d)) = d
    BY <1>14, PeerFacts DEF MessageInv
  <2>. QED
    BY <1>2, <1>13, <1>14, <2>1 DEF TakenIsHanded
<1>15. MessagesWhole'
  <2>1. ASSUME NEW d \in Ends, Waits(Peer(d))
        PROVE  /\ Len(handed[d]) <= Len(accepted'[Peer(d)])
               /\ \A k \in DOMAIN handed[d] : handed[d][k] = Body(accepted'[Peer(d)][k])
    <3>1. \A k \in DOMAIN handed[d] : handed[d][k] = Body(accepted[Peer(d)][k])
      BY <2>1 DEF MessageInv, MessagesWhole
    <3>2. handed[d] \in Seq(Seq(Nat))
      BY DEF MessageInv, MessageTypeOK
    <3>3. DOMAIN handed[d] = 1 .. Len(handed[d])
      BY <3>2
    <3>. QED
      BY <1>13, <2>1, <3>1, <3>3
  <2>. QED
    BY <1>2, <2>1 DEF MessagesWhole, Body
<1>16. MessageTypeOK'
  <2>1. accepted' \in [Ends -> Seq(Message_t)]
    BY <1>1, <1>2, <1>5
  <2>. QED
    BY <1>1, <1>2, <2>1 DEF MessageInv, MessageTypeOK
<1>. QED
  BY <1>11, <1>12, <1>14, <1>15, <1>16 DEF MessageInv

\* rdt_send: a message that rdts_send refuses leaves everything as it was.
LEMMA SendKeepsMessages ==
  ASSUME MessageInv, IInv, IInv', (\A d \in Ends : Counted(d))', MessagesAssumption,
         NEW e \in Ends, NEW n \in Bodies,
         lsend(e, n)
  PROVE  MessageInv'
<1>1. CASE Overflows(sess[e], new_message(n))
  <2>1. sess' = [sess EXCEPT ![e] = sess[e]]
    BY <1>1 DEF lsend, rdts_send
  <2>2. sess' = sess
    BY <2>1 DEF IInv, TypeOK
  <2>3. /\ wire' = wire /\ UNCHANGED << accepted, taken, handed >>
    BY <1>1 DEF lsend
  <2>4. SentBy' = SentBy
    BY <2>2 DEF SentBy
  <2>5. ASSUME NEW d \in Ends, NEW X, AlignedTo(d, X), sess[d].sent \in X
        PROVE  AlignedTo(d, X)'
    BY <2>2, <2>3, <2>5 DEF AlignedTo
  <2>. QED
    BY <2>3, <2>4, <2>5, SessionStepKeeps
<1>2. CASE ~Overflows(sess[e], new_message(n))
  BY <1>2, AcceptKeepsMessages
<1>. QED
  BY <1>1, <1>2

\* Every step of the applications, the sessions and the connections.
LEMMA NextMessageInv ==
  ASSUME MessageInv, IInv, [MessageNext]_messageVars,
         MessagesAssumption, ReconnectAssumption
  PROVE  MessageInv'
<1>1. IInv' /\ (\A d \in Ends : Counted(d))'
  BY StepOfSessions, NextIInv, CountedKeeps DEF MessageInv
<1>2. ASSUME NEW e \in Senders, NEW n \in Bodies, lsend(e, n) PROVE MessageInv'
  BY <1>1, <1>2, SendKeepsMessages DEF MessagesAssumption
<1>3. ASSUME NEW e \in Ends, lpoll(e) \/ lrecv(e) \/ lrdt_ack(e) PROVE MessageInv'
  BY <1>1, <1>3, PollinKeepsMessages, ExchangeKeepsMessages DEF lpoll, lrecv, lrdt_ack
<1>4. CASE Connections
  BY <1>1, <1>4, ConnectionsKeepMessages
<1>5. CASE UNCHANGED messageVars
  <2>1. SentBy' = SentBy /\ UNCHANGED << accepted, taken, handed >>
    BY <1>5 DEF messageVars, vars, SentBy
  <2>2. ASSUME NEW d \in Ends, NEW X, AlignedTo(d, X), sess[d].sent \in X
        PROVE  AlignedTo(d, X)'
    BY <1>5, <2>2 DEF messageVars, vars, AlignedTo
  <2>. QED
    BY <1>1, <2>1, <2>2, SessionStepKeeps
<1>. QED
  BY <1>2, <1>3, <1>4, <1>5 DEF MessageNext

\* The two invariants together.
LEMMA MessagesHold == MessageSpec => [](IInv /\ MessageInv)
<1>1. MessageInit /\ IInv => MessageInv
  BY InitMessageInv
<1>2. MessageInv /\ IInv /\ [MessageNext]_messageVars => MessageInv'
  BY NextMessageInv, MessagesAssumption, ReconnectAssumption
<1>. QED
  BY <1>1, <1>2, MessagesImplementSessions, Invariance, PTL DEF MessageSpec

-----------------------------------------------------------------------------
(* The theorems *)

\* The states are well typed, whoever waits.
THEOREM MessageTypeCorrect == MessageSpec => []MessageTypeOK
<1>1. MessageInv => MessageTypeOK
  BY DEF MessageInv
<1>. QED
  BY <1>1, MessagesHold, PTL

\* The messages of an application that waits are handed to its peer's whole, once
\* and in the order they were accepted, over any number of lost connections, and
\* whatever the peer's application sends and when.
THEOREM MessagesOfWaitingWhole == MessageSpec => []MessagesWhole
<1>1. MessageInv => MessagesWhole
  BY DEF MessageInv
<1>. QED
  BY <1>1, MessagesHold, PTL

\* pollin never leaves a part of a message of an application that waits in
\* raw_rcv_buf, to be completed by bytes that may never come.
THEOREM NothingOfWaitingHeldBack == MessageSpec => []NothingHeldBack
<1>1. ASSUME MessageInv, IInv, NEW e \in Ends, Waits(Peer(e)), RawLength(e) > 0
      PROVE  \E k \in DOMAIN accepted[Peer(e)] : Whole(e, accepted[Peer(e)][k])
  <2>. DEFINE q == accepted[Peer(e)]
              h == Len(handed[e])
              rcv == sess[e].rcv_raw_offset
              m == q[h + 1]
  <2>1. /\ q \in Seq(Message_t) /\ h \in Nat /\ h <= Len(q)
        /\ taken[e] = Stop(q, h) /\ taken[e] \in Nat
        /\ \A k \in 0 .. Len(q) : Stop(q, k) \in Nat
        /\ \A j, k \in 0 .. Len(q) : j < k => Stop(q, j) < Stop(q, k)
        /\ \A k \in 1 .. Len(q) : q[k].lo = Stop(q, k - 1)
        /\ \E k \in 0 .. Len(q) : rcv = Stop(q, k)
        /\ rcv \in Nat /\ sess[e].received = Bytes(0, rcv)
    BY <1>1, StreamFacts, MessagesAssumption
  <2>2. PICK j \in 0 .. Len(q) : rcv = Stop(q, j)
    BY <2>1
  <2>3. HeaderLen \in Nat \ {0} /\ taken[e] < rcv
    BY <1>1, <2>1, MessagesAssumption DEF RawLength
  <2>4. h < j /\ h + 1 \in 1 .. Len(q)
    <3>1. h # j /\ ~(j < h)
      BY <2>1, <2>2, <2>3
    <3>. QED
      BY <2>1, <2>2, <3>1
  <2>5. m \in Message_t
    BY <2>1, <2>4
  <2>6. m.len \in Nat \ {0} /\ m.lo = taken[e]
    <3>1. m.lo = Stop(q, h + 1 - 1) /\ h + 1 - 1 = h
      BY <2>1, <2>4
    <3>. QED
      BY <2>1, <2>5, <3>1 DEF Message_t
  <2>7. Stop(q, h + 1) = taken[e] + HeaderLen + m.len
    BY <2>1, <2>6 DEF Stop
  <2>8. Stop(q, h + 1) <= rcv
    <3>1. h + 1 \in 0 .. Len(q) /\ (h + 1 = j \/ h + 1 < j)
      BY <2>1, <2>2, <2>4
    <3>. QED
      BY <2>1, <2>2, <3>1
  <2>. HIDE DEF m
  <2>9. rcv - taken[e] > HeaderLen /\ rcv - taken[e] >= HeaderLen + m.len
    BY <2>1, <2>3, <2>6, <2>7, <2>8
  <2>10. IsNext(e, m)
    <3>1. ASSUME NEW i \in 1 .. HeaderLen
          PROVE  sess[e].received[taken[e] + i] = m.lo + i
      <4>1. taken[e] + i \in 1 .. rcv
        BY <2>1, <2>3, <2>9
      <4>. QED
        BY <2>1, <2>6, <4>1 DEF Bytes
    <3>. QED
      BY <3>1 DEF IsNext
  <2>11. Whole(e, m)
    BY <2>9, <2>10 DEF Whole, RawLength
  <2>12. h + 1 \in DOMAIN q
    BY <2>1, <2>4
  <2>. QED
    BY <2>11, <2>12 DEF m
<1>2. IInv /\ MessageInv => NothingHeldBack
  BY <1>1 DEF NothingHeldBack
<1>. QED
  BY <1>2, MessagesHold, PTL
=============================================================================
