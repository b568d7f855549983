-------------------------- MODULE RdtSessionProofs --------------------------
(***************************************************************************)
(* What the operators of RdtSession preserve, for every session: the facts *)
(* that the proofs about connected sessions rest on.                       *)
(***************************************************************************)
EXTENDS RdtSession, SequenceTheorems, TLAPS

\* A session whose retransmission buffer accounts for all that was sent.
Sound(S) ==
    /\ S \in Session
    /\ S.remote_rcv_raw_offset + S.raw_snd_size = S.sent

\* The fields of a session.
LEMMA SessionFields ==
  ASSUME NEW S \in Session
  PROVE  /\ S.enable \in BOOLEAN
         /\ S.need_ack \in BOOLEAN
         /\ S.rcv_raw_offset \in Nat
         /\ S.remote_rcv_raw_offset \in Nat
         /\ S.auto_ack_count \in Nat
         /\ S.raw_snd_size \in Nat
         /\ S.snd_buf \in Seq(Packet)
         /\ S.sent \in Nat
         /\ S.received \in Seq(Nat)
  BY DEF Session

\* A new session is sound.
LEMMA CreateSound == Sound(rdts_create)
<1>1. << >> \in Seq(Packet) /\ << >> \in Seq(Nat)
  OBVIOUS
<1>. QED
  BY <1>1 DEF Sound, Session, rdts_create

\* rdts_send either refuses or appends one packet, which continues the stream.
LEMMA SendSound ==
  ASSUME NEW S, Sound(S), NEW len \in Nat \ {0}
  PROVE  /\ Sound(rdts_send(S, len))
         /\ rdts_send(S, len).enable = S.enable
         /\ rdts_send(S, len).need_ack = S.need_ack
         /\ rdts_send(S, len).rcv_raw_offset = S.rcv_raw_offset
         /\ rdts_send(S, len).remote_rcv_raw_offset = S.remote_rcv_raw_offset
         /\ rdts_send(S, len).received = S.received
         /\ \/ rdts_send(S, len) = S
            \/ /\ rdts_send(S, len).sent = S.sent + len
               /\ rdts_send(S, len).snd_buf = Append(S.snd_buf, DataPacket(S.sent, len))
<1>1. CASE Overflows(S, len)
  BY <1>1 DEF rdts_send
<1>2. CASE ~Overflows(S, len)
  <2>. DEFINE T == [S EXCEPT !.snd_buf      = Append(@, DataPacket(S.sent, len)),
                             !.raw_snd_size = @ + len,
                             !.sent         = @ + len]
  <2>1. /\ S.sent + len \in Nat
        /\ S.raw_snd_size + len \in Nat
        /\ DataPacket(S.sent, len) \in Packet
    BY SessionFields DEF Sound, Packet, DataPacket
  <2>2. Append(S.snd_buf, DataPacket(S.sent, len)) \in Seq(Packet)
    BY <2>1, SessionFields DEF Sound
  <2>3. T \in Session
    BY <2>1, <2>2 DEF Sound, Session
  <2>4. /\ T.enable = S.enable
        /\ T.need_ack = S.need_ack
        /\ T.rcv_raw_offset = S.rcv_raw_offset
        /\ T.remote_rcv_raw_offset = S.remote_rcv_raw_offset
        /\ T.received = S.received
        /\ T.sent = S.sent + len
        /\ T.raw_snd_size = S.raw_snd_size + len
        /\ T.snd_buf = Append(S.snd_buf, DataPacket(S.sent, len))
    BY DEF Sound, Session
  <2>5. Sound(T)
    BY <2>3, <2>4, SessionFields DEF Sound
  <2>6. T = rdts_send(S, len)
    BY <1>2 DEF rdts_send
  <2>. QED
    BY <2>4, <2>5, <2>6
<1>. QED
  BY <1>1, <1>2

\* rdts_send_ack appends one packet, an ack of rcv_raw_offset.
LEMMA SendAckSound ==
  ASSUME NEW S, Sound(S)
  PROVE  /\ Sound(rdts_send_ack(S))
         /\ AckPacket(S.rcv_raw_offset) \in Packet
         /\ rdts_send_ack(S).enable = S.enable
         /\ rdts_send_ack(S).need_ack = S.need_ack
         /\ rdts_send_ack(S).rcv_raw_offset = S.rcv_raw_offset
         /\ rdts_send_ack(S).remote_rcv_raw_offset = S.remote_rcv_raw_offset
         /\ rdts_send_ack(S).received = S.received
         /\ rdts_send_ack(S).sent = S.sent
         /\ rdts_send_ack(S).snd_buf = Append(S.snd_buf, AckPacket(S.rcv_raw_offset))
<1>1. AckPacket(S.rcv_raw_offset) \in Packet
  BY SessionFields DEF Sound, Packet, AckPacket
<1>2. Append(S.snd_buf, AckPacket(S.rcv_raw_offset)) \in Seq(Packet)
  BY <1>1, SessionFields DEF Sound
<1>3. rdts_send_ack(S) \in Session
  BY <1>2 DEF rdts_send_ack, Sound, Session
<1>. QED
  BY <1>1, <1>3 DEF rdts_send_ack, Sound, Session

\* pollout empties snd_buf and touches nothing else.
LEMMA PolloutSound ==
  ASSUME NEW S, Sound(S)
  PROVE  /\ Sound(pollout(S))
         /\ pollout(S).enable = S.enable
         /\ pollout(S).need_ack = S.need_ack
         /\ pollout(S).rcv_raw_offset = S.rcv_raw_offset
         /\ pollout(S).remote_rcv_raw_offset = S.remote_rcv_raw_offset
         /\ pollout(S).received = S.received
         /\ pollout(S).sent = S.sent
         /\ pollout(S).snd_buf = << >>
<1>1. << >> \in Seq(Packet)
  OBVIOUS
<1>2. pollout(S) \in Session
  BY <1>1 DEF pollout, Sound, Session
<1>. QED
  BY <1>2 DEF pollout, Sound, Session

\* An accepted ack moves remote_rcv_raw_offset forward and drains as much.
LEMMA DrainSound ==
  ASSUME NEW S, Sound(S), NEW offset \in Nat, AcceptsAck(S, offset)
  PROVE  /\ Sound(DrainAcked(S, offset))
         /\ DrainAcked(S, offset).enable = S.enable
         /\ DrainAcked(S, offset).need_ack = S.need_ack
         /\ DrainAcked(S, offset).rcv_raw_offset = S.rcv_raw_offset
         /\ DrainAcked(S, offset).remote_rcv_raw_offset = offset
         /\ DrainAcked(S, offset).received = S.received
         /\ DrainAcked(S, offset).sent = S.sent
         /\ DrainAcked(S, offset).snd_buf = S.snd_buf
<1>. DEFINE T == DrainAcked(S, offset)
            n == S.raw_snd_size - (offset - S.remote_rcv_raw_offset)
<1>1. n \in Nat
  BY SessionFields DEF Sound, AcceptsAck
<1>2. T = [S EXCEPT !.raw_snd_size = n, !.remote_rcv_raw_offset = offset]
  BY DEF DrainAcked
<1>. HIDE DEF n
<1>3. T \in Session
  BY <1>1, <1>2 DEF Sound, Session
<1>4. /\ T.enable = S.enable
      /\ T.need_ack = S.need_ack
      /\ T.rcv_raw_offset = S.rcv_raw_offset
      /\ T.remote_rcv_raw_offset = offset
      /\ T.raw_snd_size = n
      /\ T.received = S.received
      /\ T.sent = S.sent
      /\ T.snd_buf = S.snd_buf
  BY <1>2 DEF Sound, Session
<1>5. offset + n = S.sent
  BY SessionFields DEF n, Sound
<1>. QED
  BY <1>3, <1>4, <1>5 DEF Sound

\* on_ack clears need_ack and leaves in snd_buf exactly the part of the stream
\* that raw_snd_buf holds, or what was there if raw_snd_buf is empty.
LEMMA OnAckSound ==
  ASSUME NEW S, Sound(S)
  PROVE  /\ Sound(session_on_ack(S))
         /\ session_on_ack(S).enable = S.enable
         /\ session_on_ack(S).need_ack = FALSE
         /\ session_on_ack(S).rcv_raw_offset = S.rcv_raw_offset
         /\ session_on_ack(S).remote_rcv_raw_offset = S.remote_rcv_raw_offset
         /\ session_on_ack(S).received = S.received
         /\ session_on_ack(S).sent = S.sent
         /\ \/ /\ S.remote_rcv_raw_offset = S.sent
               /\ session_on_ack(S).snd_buf = S.snd_buf
            \/ /\ S.remote_rcv_raw_offset < S.sent
               /\ session_on_ack(S).snd_buf =
                    << DataPacket(S.remote_rcv_raw_offset,
                                  S.sent - S.remote_rcv_raw_offset) >>
<1>. DEFINE U == [S EXCEPT !.need_ack = FALSE]
<1>1. /\ U \in Session
      /\ U.enable = S.enable
      /\ U.need_ack = FALSE
      /\ U.rcv_raw_offset = S.rcv_raw_offset
      /\ U.remote_rcv_raw_offset = S.remote_rcv_raw_offset
      /\ U.raw_snd_size = S.raw_snd_size
      /\ U.received = S.received
      /\ U.sent = S.sent
      /\ U.snd_buf = S.snd_buf
  BY DEF Sound, Session
<1>2. session_on_ack(S) = rdts_push_raw(U)
  BY DEF session_on_ack
<1>. HIDE DEF U
<1>3. CASE S.raw_snd_size = 0
  <2>1. session_on_ack(S) = U
    BY <1>1, <1>2, <1>3 DEF rdts_push_raw
  <2>2. S.remote_rcv_raw_offset = S.sent
    BY <1>3, SessionFields DEF Sound
  <2>. QED
    BY <1>1, <2>1, <2>2 DEF Sound
<1>4. CASE S.raw_snd_size # 0
  <2>1. S.sent - S.raw_snd_size = S.remote_rcv_raw_offset
    BY SessionFields DEF Sound
  <2>2. /\ S.raw_snd_size = S.sent - S.remote_rcv_raw_offset
        /\ S.remote_rcv_raw_offset < S.sent
    BY <1>4, SessionFields DEF Sound
  <2>3. RawPacket(U) = DataPacket(S.remote_rcv_raw_offset, S.raw_snd_size)
    BY <1>1, <2>1 DEF RawPacket
  <2>4. RawPacket(U) \in Packet
    BY <1>4, <2>3, SessionFields DEF Sound, Packet, DataPacket
  <2>5. << RawPacket(U) >> \in Seq(Packet)
    BY <2>4
  <2>6. session_on_ack(S) = [U EXCEPT !.snd_buf = << RawPacket(U) >>]
    BY <1>1, <1>2, <1>4 DEF rdts_push_raw
  <2>7. session_on_ack(S) \in Session
    BY <1>1, <2>5, <2>6 DEF Session
  <2>8. /\ session_on_ack(S).enable = S.enable
        /\ session_on_ack(S).need_ack = FALSE
        /\ session_on_ack(S).rcv_raw_offset = S.rcv_raw_offset
        /\ session_on_ack(S).remote_rcv_raw_offset = S.remote_rcv_raw_offset
        /\ session_on_ack(S).raw_snd_size = S.raw_snd_size
        /\ session_on_ack(S).received = S.received
        /\ session_on_ack(S).sent = S.sent
        /\ session_on_ack(S).snd_buf = << RawPacket(U) >>
    BY <1>1, <2>6 DEF Session
  <2>. QED
    BY <2>2, <2>3, <2>7, <2>8 DEF Sound
<1>. QED
  BY <1>3, <1>4

\* An ack either is refused, or moves the offset, or also calls on_ack.
LEMMA OnRcvAckSound ==
  ASSUME NEW S, Sound(S), NEW offset \in Nat
  PROVE  LET T == rdts_on_rcv_ack(S, offset)
         IN  /\ Sound(T)
             /\ T.enable = S.enable
             /\ T.rcv_raw_offset = S.rcv_raw_offset
             /\ T.received = S.received
             /\ T.sent = S.sent
             /\ \/ /\ ~CallsOnAck(S, offset)
                   /\ T.need_ack = S.need_ack
                   /\ T.snd_buf = S.snd_buf
                   /\ T.remote_rcv_raw_offset \in {S.remote_rcv_raw_offset, offset}
                \/ /\ CallsOnAck(S, offset)
                   /\ T.need_ack = FALSE
                   /\ T.remote_rcv_raw_offset = offset
                   /\ \/ /\ offset = S.sent
                         /\ T.snd_buf = S.snd_buf
                      \/ /\ offset < S.sent
                         /\ T.snd_buf = << DataPacket(offset, S.sent - offset) >>
<1>. DEFINE T == rdts_on_rcv_ack(S, offset)
            D == DrainAcked(S, offset)
<1>1. CASE CallsOnAck(S, offset)
  <2>1. AcceptsAck(S, offset)
    BY <1>1 DEF CallsOnAck
  <2>2. T = session_on_ack(D)
    BY <1>1 DEF rdts_on_rcv_ack, CallsOnAck
  <2>3. /\ Sound(D)
        /\ D.enable = S.enable
        /\ D.rcv_raw_offset = S.rcv_raw_offset
        /\ D.remote_rcv_raw_offset = offset
        /\ D.received = S.received
        /\ D.sent = S.sent
        /\ D.snd_buf = S.snd_buf
    BY <2>1, DrainSound
  <2>. HIDE DEF D, T
  <2>. QED
    BY <1>1, <2>2, <2>3, OnAckSound DEF T
<1>2. CASE AcceptsAck(S, offset) /\ ~S.need_ack
  <2>1. ~CallsOnAck(S, offset)
    BY <1>2 DEF CallsOnAck
  <2>2. T = D
    BY <1>2, <2>1 DEF rdts_on_rcv_ack
  <2>. QED
    BY <1>2, <2>1, <2>2, DrainSound
<1>3. CASE ~CallsOnAck(S, offset) /\ ~(AcceptsAck(S, offset) /\ ~S.need_ack)
  BY <1>3 DEF rdts_on_rcv_ack
<1>. QED
  BY <1>1, <1>2, <1>3 DEF CallsOnAck

\* A data packet lengthens what was received by its bytes, and may make the
\* session queue an ack of all of it.
LEMMA OnRcvDataSound ==
  ASSUME NEW S, Sound(S), NEW lo \in Nat, NEW len \in Nat \ {0}
  PROVE  LET T == rdts_on_rcv_data(S, lo, len)
         IN  /\ Sound(T)
             /\ T.enable = S.enable
             /\ T.need_ack = S.need_ack
             /\ T.rcv_raw_offset = S.rcv_raw_offset + len
             /\ T.remote_rcv_raw_offset = S.remote_rcv_raw_offset
             /\ T.received = S.received \o Bytes(lo, len)
             /\ T.sent = S.sent
             /\ \/ T.snd_buf = S.snd_buf
                \/ T.snd_buf = Append(S.snd_buf, AckPacket(S.rcv_raw_offset + len))
<1>. DEFINE U == StoreData(S, lo, len)
            r == S.received \o Bytes(lo, len)
            n == S.rcv_raw_offset + len
            m == S.auto_ack_count + len
<1>1. Bytes(lo, len) \in Seq(Nat)
  BY DEF Bytes
<1>2. r \in Seq(Nat) /\ n \in Nat /\ m \in Nat
  BY <1>1, SessionFields DEF Sound
<1>3. U = [S EXCEPT !.received = r, !.rcv_raw_offset = n, !.auto_ack_count = m]
  BY DEF StoreData
<1>. HIDE DEF r, n, m, U
<1>4. U \in Session
  BY <1>2, <1>3 DEF Sound, Session
<1>5. /\ U.enable = S.enable
      /\ U.need_ack = S.need_ack
      /\ U.rcv_raw_offset = n
      /\ U.remote_rcv_raw_offset = S.remote_rcv_raw_offset
      /\ U.raw_snd_size = S.raw_snd_size
      /\ U.received = r
      /\ U.sent = S.sent
      /\ U.snd_buf = S.snd_buf
  BY <1>3 DEF Sound, Session
<1>6. Sound(U)
  BY <1>4, <1>5 DEF Sound
<1>7. rdts_on_rcv_data(S, lo, len) \in {U, rdts_send_ack(U)}
  BY DEF rdts_on_rcv_data, U
<1>. QED
  BY <1>5, <1>6, <1>7, SendAckSound DEF r, n

\* disable_session clears enable and touches nothing else.
LEMMA DisableSound ==
  ASSUME NEW S, Sound(S)
  PROVE  /\ Sound(disable_session(S))
         /\ disable_session(S).enable = FALSE
         /\ disable_session(S).need_ack = S.need_ack
         /\ disable_session(S).rcv_raw_offset = S.rcv_raw_offset
         /\ disable_session(S).remote_rcv_raw_offset = S.remote_rcv_raw_offset
         /\ disable_session(S).received = S.received
         /\ disable_session(S).sent = S.sent
         /\ disable_session(S).snd_buf = S.snd_buf
  BY DEF disable_session, Sound, Session

\* reconnect_session leaves one packet in snd_buf, an ack of rcv_raw_offset,
\* and asks for on_ack.
LEMMA ReconnectSound ==
  ASSUME NEW S, Sound(S)
  PROVE  LET T == reconnect_session(S)
         IN  /\ Sound(T)
             /\ T.enable = TRUE
             /\ T.need_ack = TRUE
             /\ T.rcv_raw_offset = S.rcv_raw_offset
             /\ T.remote_rcv_raw_offset = S.remote_rcv_raw_offset
             /\ T.received = S.received
             /\ T.sent = S.sent
             /\ T.snd_buf = << AckPacket(S.rcv_raw_offset) >>
<1>. DEFINE U == [S EXCEPT !.enable = TRUE, !.need_ack = TRUE, !.snd_buf = << >>]
<1>1. << >> \in Seq(Packet)
  OBVIOUS
<1>2. U \in Session
  BY <1>1 DEF Sound, Session
<1>3. /\ U.enable = TRUE
      /\ U.need_ack = TRUE
      /\ U.rcv_raw_offset = S.rcv_raw_offset
      /\ U.remote_rcv_raw_offset = S.remote_rcv_raw_offset
      /\ U.raw_snd_size = S.raw_snd_size
      /\ U.received = S.received
      /\ U.sent = S.sent
      /\ U.snd_buf = << >>
  BY DEF Sound, Session
<1>4. reconnect_session(S) = rdts_send_ack(U)
  BY DEF reconnect_session
<1>. HIDE DEF U
<1>5. Sound(U)
  BY <1>2, <1>3 DEF Sound
<1>6. Append(<< >>, AckPacket(S.rcv_raw_offset)) = << AckPacket(S.rcv_raw_offset) >>
  OBVIOUS
<1>. QED
  BY <1>3, <1>4, <1>5, <1>6, SendAckSound

\* Consecutive stretches of a stream join.
LEMMA BytesJoin ==
  ASSUME NEW a \in Nat, NEW n \in Nat
  PROVE  Bytes(0, a) \o Bytes(a, n) = Bytes(0, a + n)
<1>. DEFINE s == Bytes(0, a) \o Bytes(a, n)
            t == Bytes(0, a + n)
<1>1. /\ Bytes(0, a) \in Seq(Nat) /\ Len(Bytes(0, a)) = a
      /\ Bytes(a, n) \in Seq(Nat) /\ Len(Bytes(a, n)) = n
      /\ t \in Seq(Nat) /\ Len(t) = a + n
  BY DEF Bytes
<1>2. s \in Seq(Nat) /\ Len(s) = a + n
  BY <1>1
<1>3. ASSUME NEW i \in 1 .. a + n PROVE s[i] = t[i]
  BY <1>1 DEF Bytes
<1>. HIDE DEF s, t
<1>4. s = t
  BY <1>1, <1>2, <1>3, SeqEqual
<1>. QED
  BY <1>4 DEF s, t
=============================================================================
