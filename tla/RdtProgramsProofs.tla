-------------------------- MODULE RdtProgramsProofs --------------------------
(***************************************************************************)
(* The two programs, for any number of connections and messages and all    *)
(* sizes.  ProgramInv holds whatever the connections do: types, and a      *)
(* program that looks for its session has it.  FirstInv is about the       *)
(* first handshake; with it, what can end a program.  OrderlyInv is the    *)
(* phases of a connection and StreamsInv where the stream is, as long as   *)
(* connections do not overlap: from these, no frame is taken for a         *)
(* command, a reconnected session is served, and the client's stream is    *)
(* whole.                                                                  *)
(***************************************************************************)
EXTENDS RdtPrograms, RdtSessionProofs, FoldLemmas

-----------------------------------------------------------------------------
(* The inductive invariants *)

\* What a connection carries: a command, or a frame of session packets.
Frames == Commands \cup [kind : {"rdt"}, cmd : {""}, pkts : Seq(Packet)]

\* The commands the client writes on a connection, and those it may be answered.
UpCommands(c) ==
    IF c = 1 THEN {Command("LOGIN"), Command("HANDSHAKE_2")}
             ELSE {Command("RECONN_HANDSHAKE_1")}
DownCommands(c) ==
    IF c = 1 THEN {Command("HANDSHAKE_1")} ELSE {Command("RECONN_HANDSHAKE_2")}

\* Whatever connections overlap.  The programs' variables: a program that looks
\* for its session has it.
Clients == [so : Conns, enable : BOOLEAN, handshake_succ : BOOLEAN,
            need_reconn : {False} \cup 0 .. ReconnAfter]

Servers == [accepted : 0 .. MaxConns, closed : SUBSET Conns, fd2rdt : SUBSET Conns,
            enable : BOOLEAN, overlap : BOOLEAN]

ClientOK ==
    /\ client \in Clients
    /\ client.so # 1 => client.need_reconn # False
    /\ client.need_reconn # False => created["client"] /\ created["server"]
    /\ client.enable => created["client"] /\ sess["client"].enable
    /\ client.handshake_succ => client.enable /\ client.need_reconn # False
    /\ client.need_reconn > 0 => client.handshake_succ

\* The server serves connections it accepted and has not closed.
ServerOK ==
    /\ server \in Servers
    /\ server.accepted <= client.so
    /\ server.closed \subseteq 1 .. server.accepted
    /\ server.fd2rdt \subseteq (1 .. server.accepted) \ server.closed
    /\ server.enable => created["server"]
    /\ sess["server"].enable /\ sess["server"].snd_buf = << >>

\* The sessions account for what they sent.
SessionsOK ==
    /\ sess \in [Ends -> Session]
    /\ Sound(sess["client"]) /\ Sound(sess["server"])
    /\ created \in [Ends -> BOOLEAN] /\ failed \in [Ends -> Errors \cup {""}]

\* Commands travel on their own connections, the server's first on each, and
\* frames come from sessions.
UpOK ==
    /\ up \in [Conns -> Seq(Frames)]
    /\ \A c \in Conns : \A x \in Range(up[c]) : x.kind = "command" => x \in UpCommands(c)

\* What the server has written, D: only the last connection, while the server serves
\* it, carries anything, first the answer the client waits for.
DownFits(D, fds, serverCreated) ==
    /\ D \in [Conns -> Seq(Frames)]
    /\ \A c \in Conns : c # client.so => D[c] = << >>
    /\ client.so \notin fds => D[client.so] = << >>
    /\ client.so \in fds /\ ~client.enable =>
          D[client.so] # << >> /\ D[client.so][1].kind = "command"
    /\ \A c \in Conns : \A x \in Range(D[c]) :
          /\ x.kind = "command" => x \in DownCommands(c)
          /\ x.kind = "rdt" => serverCreated

\* The client keeps one connection open, its last.
DownOK ==
    /\ open = [c \in Conns |-> c = client.so]
    /\ DownFits(down, server.fd2rdt, created["server"])

\* A step that ends a program.
Raises == \E e \in Ends, why \in Errors : Fail(e, why)

\* Holds whatever the connections do.
ProgramInv == ClientOK /\ ServerOK /\ SessionsOK /\ UpOK /\ DownOK

\* No command is left in q.
Rdts(q) == \A x \in Range(q) : x.kind = "rdt"

\* Which sessions the server serves, and where.
Serves(C, on) == server.fd2rdt = C /\ server.enable = on

\* The server has not accepted the client's connection yet, and may still read
\* what is left of the last one.
Arriving ==
    LET so == client.so
    IN  /\ server.accepted = so - 1
        /\ ~client.enable
        /\ up[so] = << Command(IF so = 1 THEN "LOGIN" ELSE "RECONN_HANDSHAKE_1") >>
        /\ down[so] = << >>
        /\ \/ Serves({}, FALSE) /\ (so # 1 => so - 1 \in server.closed)
           \/ Serves({so - 1}, TRUE) /\ so # 1 /\ Rdts(up[so - 1])

\* It has, but has not read its command.
Asked ==
    LET so == client.so
    IN  /\ server.accepted = so
        /\ ~client.enable
        /\ up[so] = << Command(IF so = 1 THEN "LOGIN" ELSE "RECONN_HANDSHAKE_1") >>
        /\ down[so] = << >>
        /\ Serves({}, FALSE)

\* The first handshake.
Told ==
    /\ client.so = 1 /\ server.accepted = 1
    /\ ~client.enable
    /\ up[1] = << >>
    /\ down[1] = << Command("HANDSHAKE_1") >>
    /\ Serves({1}, FALSE)

\* The client has its session and has said so.
Confirmed ==
    /\ client.so = 1 /\ server.accepted = 1
    /\ client.enable
    /\ up[1] = << Command("HANDSHAKE_2") >>
    /\ down[1] = << >>
    /\ Serves({1}, FALSE)

\* A reconnect the client has not heard of.
Resumed ==
    LET so == client.so
    IN  /\ so # 1 /\ server.accepted = so
        /\ ~client.enable
        /\ up[so] = << >>
        /\ down[so] # << >> /\ down[so][1] = Command("RECONN_HANDSHAKE_2")
        /\ Rdts(Tail(down[so]))
        /\ Serves({so}, TRUE)

\* Both have their session, and only frames are under way.
Both ==
    LET so == client.so
    IN  /\ server.accepted = so
        /\ client.enable
        /\ Rdts(up[so]) /\ Rdts(down[so])
        /\ Serves({so}, TRUE)

\* One connection after the other.
Orderly ==
    /\ \A c \in 1 .. server.accepted - 1 : c \in server.closed
    /\ Arriving \/ Asked \/ Told \/ Confirmed \/ Resumed \/ Both
    /\ client.handshake_succ => Both
    /\ client.need_reconn > 0 => client.handshake_succ

\* Once two connections have overlapped the phases no longer hold.
OrderlyInv == ~server.overlap => Orderly

\* The first handshake overlaps nothing, and its commands are read before the server
\* has its session.
FirstInv ==
    /\ server.overlap => client.so # 1
    /\ \A x \in Range(up[1]) \cup Range(down[1]) : x.kind = "command" => ~created["server"]

-----------------------------------------------------------------------------

\* A quiet frame says nothing of the stream; q is quiet when its frames are.
NoData(pkts) == \A i \in 1 .. Len(pkts) : pkts[i].kind # "data"

\* The data packets of pkts take a receiver from byte a to byte b, one step of f each.
Follows(f, pkts, a, b) ==
    /\ f[0] = a /\ f[Len(pkts)] = b
    /\ \A i \in 1 .. Len(pkts) :
          IF pkts[i].kind = "data"
          THEN pkts[i].lo = f[i - 1] /\ f[i] = f[i - 1] + pkts[i].len
          ELSE f[i] = f[i - 1]

\* The data packets of pkts take a stream from a to b without a gap or a repeat.
Chain(pkts, a, b) == \E f \in [0 .. Len(pkts) -> a .. b] : Follows(f, pkts, a, b)

\* So do the frames of q.
FramesFollow(f, q, a, b) ==
    /\ f[0] = a /\ f[Len(q)] = b
    /\ \A i, j \in 0 .. Len(q) : i <= j => f[i] <= f[j]
    /\ \A i \in 1 .. Len(q) : Chain(q[i].pkts, f[i - 1], f[i])

\* So do the frames of q, one after another.
FrameChain(q, a, b) == \E f \in [0 .. Len(q) -> a .. b] : FramesFollow(f, q, a, b)

\* What the peer has said it has is no more than n, or just n.
AcksUpTo(pkts, n) == \A i \in 1 .. Len(pkts) : pkts[i].kind = "ack" => pkts[i].offset <= n
AcksAt(pkts, n)   == \A i \in 1 .. Len(pkts) : pkts[i].kind = "ack" => pkts[i].offset = n

\* No data packet holds the first byte of the stream, which is HANDSHAKE_3.
NotFirst(pkts) == \A i \in 1 .. Len(pkts) : pkts[i].kind = "data" => pkts[i].lo > 0

\* No frame of q holds data.
Quiet(q) == \A x \in Range(q) : NoData(x.pkts)

\* What is under way between the programs, and what they know of each other.
\* The server has the client's stream as far as it goes, and the client knows of
\* no more than that.
Whole ==
    /\ sess["server"].received = Bytes(0, sess["server"].rcv_raw_offset)
    /\ sess["client"].snd_buf = << >> /\ sess["server"].snd_buf = << >>
    /\ sess["client"].remote_rcv_raw_offset <= sess["server"].rcv_raw_offset
    /\ sess["server"].rcv_raw_offset <= sess["client"].sent

\* Before the first handshake is done nothing has been sent.
Starting ==
    client.so = 1 /\ ~client.handshake_succ =>
       /\ sess["client"].sent = 0 /\ ~sess["client"].need_ack
       /\ Quiet(up[1])
       /\ \A x \in Range(down[1]) : AcksUpTo(x.pkts, 0)

\* When it is, the data under way takes the server to the end of the stream.
Running ==
    client.handshake_succ =>
       /\ ~sess["client"].need_ack
       /\ FrameChain(up[client.so], sess["server"].rcv_raw_offset, sess["client"].sent)
       /\ \A x \in Range(down[client.so]) : AcksUpTo(x.pkts, sess["server"].rcv_raw_offset)

\* While the client waits for its session, nothing of it is under way on the new
\* connection, and what it is told is what the server has.
Waiting ==
    client.so # 1 /\ ~client.handshake_succ /\ server.accepted = client.so =>
       /\ client.enable => sess["client"].need_ack
       /\ Quiet(up[client.so])
       /\ \A x \in Range(down[client.so]) :
             AcksAt(x.pkts, sess["server"].rcv_raw_offset) /\ NotFirst(x.pkts)

\* The rest of the last connection, while a server that runs may read it, takes it
\* to the end of the stream.
Leaving ==
    server.accepted = client.so - 1 /\ server.fd2rdt # {} /\ Runs("server") =>
       FrameChain(up[client.so - 1], sess["server"].rcv_raw_offset, sess["client"].sent)

\* What is under way between the programs, part by part.
Streams == Whole /\ Starting /\ Running /\ Waiting /\ Leaving

\* It may be lost when connections overlap.
StreamsInv == ~server.overlap => Streams

-----------------------------------------------------------------------------
(* rdts_input, packet by packet *)

\* What rdts_input does with one packet.
OnPacket(T, p) ==
    IF p.kind = "ack" THEN rdts_on_rcv_ack(T, p.offset)
    ELSE rdts_on_rcv_data(T, p.lo, p.len)

\* The fold that rdts_input is, on the packets whose places are in a subset of P.
IsInput(f, S, pkts, P) ==
    f = [s \in SUBSET P |->
           IF s = {} THEN S ELSE OnPacket(f[s \ {Max(s)}], pkts[Max(s)])]

\* r gives the session after each packet.
IsRun(r, S, pkts) ==
    /\ r[0] = S
    /\ \A i \in 1 .. Len(pkts) : r[i] = OnPacket(r[i - 1], pkts[i])

\* The greatest element of a set below n + 1 that holds n.
LEMMA MaxOfRange ==
  ASSUME NEW n \in Nat \ {0}, NEW s \in SUBSET (1 .. n), n \in s
  PROVE  Max(s) = n
<1>1. \A y \in s : n >= y
  OBVIOUS
<1>2. Max(s) \in s /\ \A y \in s : Max(s) >= y
  BY <1>1 DEF Max
<1>3. Max(s) \in 1 .. n
  BY <1>2
<1>4. Max(s) >= n /\ Max(s) <= n
  BY <1>2, <1>3
<1>. QED
  BY <1>3, <1>4

\* The fold exists: it is built one packet at a time.
LEMMA InputExists ==
  ASSUME NEW S, NEW pkts, NEW n \in Nat
  PROVE  \E f : IsInput(f, S, pkts, 1 .. n)
<1>. DEFINE N == {k \in Nat : \E f : IsInput(f, S, pkts, 1 .. k)}
<1>1. 0 \in N
  <2>1. 1 .. 0 = {} /\ SUBSET (1 .. 0) = {{}}
    OBVIOUS
  <2>2. IsInput([s \in {{}} |-> S], S, pkts, 1 .. 0)
    BY <2>1 DEF IsInput
  <2>. QED
    BY <2>2
<1>2. ASSUME NEW k \in Nat, k \in N PROVE k + 1 \in N
  <2>1. PICK f : IsInput(f, S, pkts, 1 .. k)
    BY <1>2
  <2>. DEFINE P == 1 .. k + 1
              g == [s \in SUBSET P |->
                      IF k + 1 \in s THEN OnPacket(f[s \ {k + 1}], pkts[k + 1]) ELSE f[s]]
  <2>2. ASSUME NEW s \in SUBSET P
        PROVE  g[s] = IF s = {} THEN S ELSE OnPacket(g[s \ {Max(s)}], pkts[Max(s)])
    <3>1. CASE k + 1 \in s
      <4>1. Max(s) = k + 1
        BY <3>1, MaxOfRange
      <4>2. s \ {k + 1} \in SUBSET P /\ k + 1 \notin s \ {k + 1}
        OBVIOUS
      <4>. QED
        BY <3>1, <4>1, <4>2
    <3>2. CASE k + 1 \notin s
      <4>1. s \in SUBSET (1 .. k)
        BY <3>2
      <4>2. f[s] = IF s = {} THEN S ELSE OnPacket(f[s \ {Max(s)}], pkts[Max(s)])
        BY <2>1, <4>1 DEF IsInput
      <4>3. s \ {Max(s)} \in SUBSET P /\ k + 1 \notin s \ {Max(s)}
        BY <3>2
      <4>. QED
        BY <3>2, <4>2, <4>3
    <3>. QED
      BY <3>1, <3>2
  <2>3. IsInput(g, S, pkts, P)
    <3>. HIDE DEF P
    <3>. QED
      BY <2>2 DEF IsInput
  <2>. QED
    BY <2>3
<1>3. 0 .. n \subseteq N
  <2>1. \A i \in 1 .. n : i - 1 \in N => i \in N
    <3>. HIDE DEF N
    <3>. TAKE i \in 1 .. n
    <3>1. i - 1 \in Nat /\ (i - 1) + 1 = i
      OBVIOUS
    <3>. QED
      BY <1>2, <3>1
  <2>. HIDE DEF N
  <2>. QED
    BY <1>1, <2>1, UpTo
<1>. QED
  BY <1>3

\* rdts_input is that fold, applied to all places.
LEMMA InputIsFold ==
  ASSUME NEW S, NEW pkts \in Seq(Packet)
  PROVE  \E f : /\ IsInput(f, S, pkts, 1 .. Len(pkts))
                /\ rdts_input(S, pkts) = f[1 .. Len(pkts)]
<1>. DEFINE f == CHOOSE g : IsInput(g, S, pkts, 1 .. Len(pkts))
<1>1. IsInput(f, S, pkts, 1 .. Len(pkts))
  <2>1. Len(pkts) \in Nat
    OBVIOUS
  <2>2. \E g : IsInput(g, S, pkts, 1 .. Len(pkts))
    BY <2>1, InputExists
  <2>. QED
    BY <2>2, Zenon
<1>2. rdts_input(S, pkts) = f[1 .. Len(pkts)]
  <2>1. DOMAIN pkts = 1 .. Len(pkts)
    OBVIOUS
  <2>. QED
    BY <2>1, Zenon DEF rdts_input, FoldLeft, MapThenFoldSet, IsInput, OnPacket
<1>. QED
  BY <1>1, <1>2

\* rdts_input takes the packets one after the other.
LEMMA InputRuns ==
  ASSUME NEW S, NEW pkts \in Seq(Packet)
  PROVE  \E r : IsRun(r, S, pkts) /\ rdts_input(S, pkts) = r[Len(pkts)]
<1>1. PICK f : /\ IsInput(f, S, pkts, 1 .. Len(pkts))
               /\ rdts_input(S, pkts) = f[1 .. Len(pkts)]
  BY InputIsFold
<1>. DEFINE r == [i \in 0 .. Len(pkts) |-> f[1 .. i]]
<1>2. r[0] = S
  <2>1. 1 .. 0 = {}
    OBVIOUS
  <2>2. {} \in SUBSET (1 .. Len(pkts)) /\ 0 \in 0 .. Len(pkts)
    OBVIOUS
  <2>. QED
    BY <1>1, <2>1, <2>2 DEF IsInput
<1>3. ASSUME NEW i \in 1 .. Len(pkts) PROVE r[i] = OnPacket(r[i - 1], pkts[i])
  <2>1. 1 .. i \in SUBSET (1 .. Len(pkts)) /\ 1 .. i # {} /\ i \in 1 .. i
    OBVIOUS
  <2>2. Max(1 .. i) = i
    BY <2>1, MaxOfRange
  <2>3. (1 .. i) \ {i} = 1 .. i - 1
    OBVIOUS
  <2>4. f[1 .. i] = OnPacket(f[1 .. i - 1], pkts[i])
    <3>. HIDE DEF r
    <3>. QED
      BY <1>1, <2>1, <2>2, <2>3 DEF IsInput
  <2>5. i \in 0 .. Len(pkts) /\ i - 1 \in 0 .. Len(pkts)
    OBVIOUS
  <2>. QED
    BY <2>4, <2>5
<1>4. r[Len(pkts)] = f[1 .. Len(pkts)]
  OBVIOUS
<1>. HIDE DEF r
<1>. QED
  BY <1>1, <1>2, <1>3, <1>4 DEF IsRun

\* T is what packet p makes of session S: an ack moves remote_rcv_raw_offset or
\* calls on_ack, data lengthens what was received and may be acknowledged.
TakesAck(S, offset, T) ==
    /\ T.rcv_raw_offset = S.rcv_raw_offset
    /\ T.received = S.received
    /\ \/ /\ ~CallsOnAck(S, offset)
          /\ T.need_ack = S.need_ack
          /\ T.snd_buf = S.snd_buf
          /\ T.remote_rcv_raw_offset \in {S.remote_rcv_raw_offset, offset}
       \/ /\ CallsOnAck(S, offset)
          /\ S.need_ack /\ T.need_ack = FALSE
          /\ T.remote_rcv_raw_offset = offset
          /\ \/ /\ offset = S.sent
                /\ T.snd_buf = S.snd_buf
             \/ /\ offset < S.sent
                /\ T.snd_buf = << DataPacket(offset, S.sent - offset) >>

\* T is S after a data packet it accepts.
TakesData(S, lo, len, T) ==
    /\ T.rcv_raw_offset = S.rcv_raw_offset + len
    /\ T.received = S.received \o Bytes(lo, len)
    /\ T.need_ack = S.need_ack
    /\ T.remote_rcv_raw_offset = S.remote_rcv_raw_offset
    /\ \/ T.snd_buf = S.snd_buf
       \/ T.snd_buf = Append(S.snd_buf, AckPacket(T.rcv_raw_offset))

\* T is S after packet p, with nothing returned or raised.
Takes(S, p, T) ==
    /\ Sound(S) /\ Sound(T)
    /\ T.enable = S.enable /\ T.sent = S.sent
    /\ \/ p.kind = "data" /\ p.lo \in Nat /\ p.len \in Nat \ {0} /\ TakesData(S, p.lo, p.len, T)
       \/ p.kind = "ack" /\ p.offset \in Nat /\ TakesAck(S, p.offset, T)

\* One packet does one of the two.
LEMMA OnPacketSound ==
  ASSUME NEW S, Sound(S), NEW p \in Packet, NEW T, T = OnPacket(S, p)
  PROVE  Takes(S, p, T)
<1>. DEFINE lo     == p.lo
            len    == p.len
            offset == p.offset
<1>1. CASE p.kind = "data"
  <2>1. lo \in Nat /\ len \in Nat \ {0}
    BY <1>1 DEF Packet
  <2>2. T = rdts_on_rcv_data(S, lo, len)
    BY <1>1 DEF OnPacket
  <2>3. /\ Sound(T)
        /\ T.enable = S.enable
        /\ T.sent = S.sent
        /\ T.need_ack = S.need_ack
        /\ T.rcv_raw_offset = S.rcv_raw_offset + len
        /\ T.remote_rcv_raw_offset = S.remote_rcv_raw_offset
        /\ T.received = S.received \o Bytes(lo, len)
        /\ \/ T.snd_buf = S.snd_buf
           \/ T.snd_buf = Append(S.snd_buf, AckPacket(S.rcv_raw_offset + len))
    <3>. HIDE DEF lo, len
    <3>. QED
      BY <2>1, <2>2, OnRcvDataSound
  <2>. QED
    BY <1>1, <2>1, <2>3 DEF Takes, TakesData
<1>2. CASE p.kind # "data"
  <2>1. p.kind = "ack" /\ offset \in Nat
    BY <1>2 DEF Packet
  <2>. DEFINE U == rdts_on_rcv_ack(S, offset)
  <2>2. T = U
    BY <2>1 DEF OnPacket
  <2>3. /\ Sound(U)
        /\ U.enable = S.enable
        /\ U.rcv_raw_offset = S.rcv_raw_offset
        /\ U.received = S.received
        /\ U.sent = S.sent
        /\ \/ /\ ~CallsOnAck(S, offset)
              /\ U.need_ack = S.need_ack
              /\ U.snd_buf = S.snd_buf
              /\ U.remote_rcv_raw_offset \in {S.remote_rcv_raw_offset, offset}
           \/ /\ CallsOnAck(S, offset)
              /\ U.need_ack = FALSE
              /\ U.remote_rcv_raw_offset = offset
              /\ \/ /\ offset = S.sent
                    /\ U.snd_buf = S.snd_buf
                 \/ /\ offset < S.sent
                    /\ U.snd_buf = << DataPacket(offset, S.sent - offset) >>
    BY <2>1, OnRcvAckSound
  <2>4. CallsOnAck(S, offset) => S.need_ack
    BY DEF CallsOnAck
  <2>. HIDE DEF U
  <2>. QED
    BY <2>1, <2>2, <2>3, <2>4 DEF Takes, TakesAck
<1>. QED
  BY <1>1, <1>2

\* Every session of a run is sound, and the next one takes its packet.
LEMMA RunTakes ==
  ASSUME NEW S, Sound(S), NEW pkts \in Seq(Packet), NEW r, IsRun(r, S, pkts)
  PROVE  /\ \A i \in 0 .. Len(pkts) : Sound(r[i])
         /\ \A i \in 1 .. Len(pkts) : Takes(r[i - 1], pkts[i], r[i])
<1>. DEFINE N == {i \in 0 .. Len(pkts) : Sound(r[i])}
<1>1. 0 \in N
  BY DEF IsRun
<1>2. ASSUME NEW i \in 1 .. Len(pkts), Sound(r[i - 1])
      PROVE  Takes(r[i - 1], pkts[i], r[i])
  <2>1. pkts[i] \in Packet /\ r[i] = OnPacket(r[i - 1], pkts[i])
    BY DEF IsRun
  <2>. QED
    BY <1>2, <2>1, OnPacketSound
<1>3. ASSUME NEW i \in 1 .. Len(pkts), i - 1 \in N PROVE i \in N
  BY <1>2, <1>3 DEF Takes
<1>4. 0 .. Len(pkts) \subseteq N
  <2>1. Len(pkts) \in Nat
    OBVIOUS
  <2>. HIDE DEF N
  <2>. QED
    BY <1>1, <1>3, <2>1, UpTo
<1>. QED
  BY <1>2, <1>4

\* Both sessions of a step have the fields of a session.
LEMMA TakesFields ==
  ASSUME NEW Q, NEW p, NEW R, Takes(Q, p, R)
  PROVE  /\ Q.snd_buf \in Seq(Packet) /\ Q.need_ack \in BOOLEAN /\ Q.received \in Seq(Nat)
         /\ Q.sent \in Nat /\ Q.rcv_raw_offset \in Nat /\ Q.remote_rcv_raw_offset \in Nat
         /\ R.snd_buf \in Seq(Packet) /\ R.need_ack \in BOOLEAN /\ R.received \in Seq(Nat)
         /\ R.sent = Q.sent /\ R.rcv_raw_offset \in Nat
<1>1. Q \in Session /\ R \in Session /\ R.sent = Q.sent
  BY DEF Takes, Sound
<1>. QED
  BY <1>1, SessionFields

\* The session that rdts_input leaves is sound, and has sent nothing new.
LEMMA InputSound ==
  ASSUME NEW S, Sound(S), NEW pkts \in Seq(Packet), NEW T, T = rdts_input(S, pkts)
  PROVE  /\ Sound(T)
         /\ T.enable = S.enable
         /\ T.sent = S.sent
<1>1. PICK r : IsRun(r, S, pkts) /\ T = r[Len(pkts)]
  BY InputRuns
<1>2. /\ \A i \in 0 .. Len(pkts) : Sound(r[i])
      /\ \A i \in 1 .. Len(pkts) : Takes(r[i - 1], pkts[i], r[i])
  BY <1>1, RunTakes
<1>. DEFINE N == {i \in 0 .. Len(pkts) : r[i].enable = S.enable /\ r[i].sent = S.sent}
<1>3. 0 \in N
  BY <1>1 DEF IsRun
<1>4. ASSUME NEW i \in 1 .. Len(pkts), i - 1 \in N PROVE i \in N
  BY <1>2, <1>4 DEF Takes
<1>5. Len(pkts) \in Nat
  OBVIOUS
<1>6. 0 .. Len(pkts) \subseteq N
  <2>. HIDE DEF N
  <2>. QED
    BY <1>3, <1>4, <1>5, UpTo
<1>. QED
  BY <1>1, <1>2, <1>5, <1>6

\* An empty frame leaves the session alone.
LEMMA InputNothing ==
  ASSUME NEW S
  PROVE  rdts_input(S, << >>) = S
<1>1. << >> \in Seq(Packet) /\ Len(<< >>) = 0
  OBVIOUS
<1>2. PICK r : IsRun(r, S, << >>) /\ rdts_input(S, << >>) = r[Len(<< >>)]
  BY <1>1, InputRuns
<1>. QED
  BY <1>1, <1>2 DEF IsRun

-----------------------------------------------------------------------------
(* Chains of packets and of frames *)

\* Packets without data are a chain that leads nowhere.
LEMMA ChainQuiet ==
  ASSUME NEW pkts \in Seq(Packet), NEW a \in Nat, NoData(pkts)
  PROVE  Chain(pkts, a, a)
<1>. DEFINE f == [i \in 0 .. Len(pkts) |-> a]
<1>1. Len(pkts) \in Nat
  OBVIOUS
<1>2. f \in [0 .. Len(pkts) -> a .. a]
  OBVIOUS
<1>3. Follows(f, pkts, a, a)
  BY <1>1 DEF Follows, NoData
<1>. QED
  BY <1>2, <1>3 DEF Chain

\* One more packet, with data from where the chain ends or without data.
LEMMA ChainAppend ==
  ASSUME NEW pkts \in Seq(Packet), NEW a \in Nat, NEW b \in Nat, Chain(pkts, a, b),
         NEW p \in Packet, NEW c \in Nat,
         \/ p.kind # "data" /\ c = b
         \/ p.kind = "data" /\ p.lo = b /\ c = b + p.len /\ p.len \in Nat
  PROVE  Chain(Append(pkts, p), a, c)
<1>1. PICK f \in [0 .. Len(pkts) -> a .. b] : Follows(f, pkts, a, b)
  BY DEF Chain
<1>. DEFINE n == Len(pkts)
            q == Append(pkts, p)
            g == [i \in 0 .. n + 1 |-> IF i = n + 1 THEN c ELSE f[i]]
<1>2. /\ n \in Nat /\ Len(q) = n + 1 /\ q[n + 1] = p
      /\ \A i \in 1 .. n : q[i] = pkts[i]
  OBVIOUS
<1>3. b <= c
  OBVIOUS
<1>4. ASSUME NEW i \in 0 .. n + 1 PROVE g[i] \in a .. c
  <2>1. CASE i = n + 1
    <3>1. f[n] \in a .. b
      BY <1>2
    <3>. QED
      BY <2>1, <3>1, <1>3
  <2>2. CASE i # n + 1
    <3>1. i \in 0 .. n
      BY <1>2, <2>2
    <3>. QED
      BY <2>2, <3>1, <1>3
  <2>. QED
    BY <2>1, <2>2
<1>5. g \in [0 .. Len(q) -> a .. c]
  BY <1>2, <1>4
<1>6. g[0] = a /\ g[n + 1] = c
  BY <1>1, <1>2 DEF Follows
<1>7. ASSUME NEW i \in 1 .. n + 1
      PROVE  IF q[i].kind = "data" THEN q[i].lo = g[i - 1] /\ g[i] = g[i - 1] + q[i].len
             ELSE g[i] = g[i - 1]
  <2>1. CASE i = n + 1
    <3>1. g[n + 1] = c /\ g[n] = b
      BY <1>1, <1>2 DEF Follows
    <3>. QED
      BY <2>1, <3>1, <1>2
  <2>2. CASE i # n + 1
    <3>1. i \in 1 .. n /\ i \in 0 .. n /\ i - 1 \in 0 .. n
      BY <1>2, <2>2
    <3>2. g[i] = f[i] /\ g[i - 1] = f[i - 1] /\ q[i] = pkts[i]
      BY <1>2, <2>2, <3>1
    <3>. QED
      BY <1>1, <3>1, <3>2 DEF Follows
  <2>. QED
    BY <2>1, <2>2
<1>. HIDE DEF g, q
<1>8. Follows(g, q, a, c)
  BY <1>2, <1>6, <1>7 DEF Follows
<1>. QED
  BY <1>5, <1>8 DEF Chain, q

\* A frame is a command, which holds no packets, or holds the packets of a poll.
LEMMA FrameFields ==
  ASSUME NEW x \in Frames
  PROVE  /\ x.kind \in {"command", "rdt"}
         /\ x.pkts \in Seq(Packet)
         /\ x.kind = "command" => x \in Commands /\ x.pkts = << >>
         /\ x.kind = "rdt" => x.cmd = ""
         /\ IsFrame(x)
<1>1. CASE x \in Commands
  <2>1. x.kind = "command" /\ x.pkts = << >>
    BY <1>1 DEF Commands, Command
  <2>2. << >> \in Seq(Packet)
    OBVIOUS
  <2>. QED
    BY <1>1, <2>1, <2>2 DEF IsFrame
<1>2. CASE x \in [kind : {"rdt"}, cmd : {""}, pkts : Seq(Packet)]
  BY <1>2 DEF IsFrame
<1>. QED
  BY <1>1, <1>2 DEF Frames

\* What rdt_poll writes are frames.
LEMMA FrameOfPackets ==
  ASSUME NEW pkts \in Seq(Packet)
  PROVE  /\ Frame(pkts) \in Frames
         /\ Frame(pkts).kind = "rdt" /\ Frame(pkts).pkts = pkts
  BY DEF Frame, Frames

\* The frames of a queue, of its tail, and of two queues in a row.
LEMMA FramesIn ==
  /\ Range(<< >>) = {} /\ << >> \in Seq(Frames)
  /\ \A x : Range(<< x >>) = {x}
  /\ \A q \in Seq(Frames) :
        /\ Range(q) \subseteq Frames
        /\ q # << >> => q[1] \in Range(q) /\ Tail(q) \in Seq(Frames)
                          /\ Range(Tail(q)) \subseteq Range(q)
  /\ \A q, r \in Seq(Frames) :
        q \o r \in Seq(Frames) /\ Range(q \o r) = Range(q) \cup Range(r)
<1>1. /\ Range(<< >>) = {} /\ << >> \in Seq(Frames)
      /\ \A x : Range(<< x >>) = {x}
  BY DEF Range
<1>2. ASSUME NEW q \in Seq(Frames)
      PROVE  /\ Range(q) \subseteq Frames
             /\ q # << >> => q[1] \in Range(q) /\ Tail(q) \in Seq(Frames)
                               /\ Range(Tail(q)) \subseteq Range(q)
  <2>1. Range(q) = {q[i] : i \in 1 .. Len(q)}
    BY DEF Range
  <2>2. ASSUME q # << >>
        PROVE  q[1] \in Range(q) /\ Tail(q) \in Seq(Frames) /\ Range(Tail(q)) \subseteq Range(q)
    <3>1. 1 \in 1 .. Len(q) /\ Tail(q) \in Seq(Frames) /\ Len(Tail(q)) = Len(q) - 1
      BY <2>2
    <3>2. \A i \in 1 .. Len(q) - 1 : Tail(q)[i] = q[i + 1] /\ i + 1 \in 1 .. Len(q)
      BY <2>2
    <3>3. Range(Tail(q)) = {Tail(q)[i] : i \in 1 .. Len(q) - 1}
      <4>. DEFINE t == Tail(q)
      <4>1. t \in Seq(Frames) /\ Len(t) = Len(q) - 1
        BY <3>1
      <4>. HIDE DEF t
      <4>2. DOMAIN t = 1 .. Len(q) - 1
        BY <4>1
      <4>. QED
        BY <4>2 DEF Range, t
    <3>. QED
      BY <2>1, <3>1, <3>2, <3>3
  <2>. QED
    BY <2>1, <2>2
<1>3. ASSUME NEW q \in Seq(Frames), NEW r \in Seq(Frames)
      PROVE  q \o r \in Seq(Frames) /\ Range(q \o r) = Range(q) \cup Range(r)
  <2>. DEFINE s == q \o r
  <2>1. /\ s \in Seq(Frames) /\ Len(s) = Len(q) + Len(r) /\ Len(q) \in Nat /\ Len(r) \in Nat
        /\ \A i \in 1 .. Len(s) : s[i] = IF i <= Len(q) THEN q[i] ELSE r[i - Len(q)]
    OBVIOUS
  <2>2. /\ Range(q) = {q[i] : i \in 1 .. Len(q)} /\ Range(r) = {r[i] : i \in 1 .. Len(r)}
        /\ Range(s) = {s[i] : i \in 1 .. Len(s)}
    BY <2>1 DEF Range
  <2>. HIDE DEF s
  <2>3. Range(s) \subseteq Range(q) \cup Range(r)
    BY <2>1, <2>2
  <2>4. Range(q) \subseteq Range(s)
    BY <2>1, <2>2
  <2>5. Range(r) \subseteq Range(s)
    <3>1. ASSUME NEW i \in 1 .. Len(r) PROVE r[i] \in Range(s)
      <4>1. i + Len(q) \in 1 .. Len(s) /\ s[i + Len(q)] = r[i]
        BY <2>1
      <4>. QED
        BY <2>2, <4>1
    <3>. QED
      BY <2>2, <3>1
  <2>. QED
    BY <2>1, <2>3, <2>4, <2>5 DEF s
<1>. QED
  BY <1>1, <1>2, <1>3

\* Frames without data are a chain that leads nowhere.
LEMMA FramesQuiet ==
  ASSUME NEW q \in Seq(Frames), NEW a \in Nat, Quiet(q)
  PROVE  FrameChain(q, a, a)
<1>. DEFINE f == [i \in 0 .. Len(q) |-> a]
<1>1. Len(q) \in Nat
  OBVIOUS
<1>2. f \in [0 .. Len(q) -> a .. a]
  OBVIOUS
<1>3. ASSUME NEW i \in 1 .. Len(q) PROVE Chain(q[i].pkts, a, a)
  <2>1. q[i] \in Frames /\ q[i] \in Range(q)
    BY DEF Range
  <2>2. q[i].pkts \in Seq(Packet)
    BY <2>1, FrameFields
  <2>. QED
    BY <2>1, <2>2, ChainQuiet DEF Quiet
<1>4. FramesFollow(f, q, a, a)
  BY <1>1, <1>3 DEF FramesFollow
<1>. QED
  BY <1>2, <1>4 DEF FrameChain

\* One more frame, from where the chain ends.
LEMMA FramesAppend ==
  ASSUME NEW q \in Seq(Frames), NEW a \in Nat, NEW b \in Nat, FrameChain(q, a, b),
         NEW x \in Frames, NEW c \in Nat, b <= c, Chain(x.pkts, b, c)
  PROVE  FrameChain(Append(q, x), a, c)
<1>1. PICK f \in [0 .. Len(q) -> a .. b] : FramesFollow(f, q, a, b)
  BY DEF FrameChain
<1>. DEFINE n == Len(q)
            r == Append(q, x)
            g == [i \in 0 .. n + 1 |-> IF i = n + 1 THEN c ELSE f[i]]
<1>2. /\ n \in Nat /\ Len(r) = n + 1 /\ r[n + 1] = x
      /\ \A i \in 1 .. n : r[i] = q[i]
  OBVIOUS
<1>3. \A i \in 0 .. n : g[i] = f[i] /\ f[i] \in a .. b
  BY <1>2
<1>4. g[n + 1] = c /\ a <= b
  <2>1. f[n] \in a .. b
    BY <1>2
  <2>. QED
    BY <1>2, <2>1
<1>5. g \in [0 .. Len(r) -> a .. c]
  <2>1. ASSUME NEW i \in 0 .. n + 1 PROVE g[i] \in a .. c
    <3>1. i \in 0 .. n \/ i = n + 1
      BY <1>2
    <3>. HIDE DEF g
    <3>. QED
      BY <1>3, <1>4, <3>1
  <2>. QED
    BY <1>2, <2>1
<1>6. g[0] = a
  BY <1>1, <1>2, <1>3 DEF FramesFollow
<1>7. ASSUME NEW i \in 0 .. n + 1, NEW j \in 0 .. n + 1, i <= j PROVE g[i] <= g[j]
  <2>. HIDE DEF g
  <2>1. CASE j = n + 1
    <3>1. i \in 0 .. n \/ i = n + 1
      BY <1>2
    <3>. QED
      BY <1>3, <1>4, <2>1, <3>1
  <2>2. CASE j # n + 1
    <3>1. j \in 0 .. n /\ i \in 0 .. n
      BY <1>2, <1>7, <2>2
    <3>. QED
      BY <1>1, <1>3, <1>7, <3>1 DEF FramesFollow
  <2>. QED
    BY <2>1, <2>2
<1>8. ASSUME NEW i \in 1 .. n + 1 PROVE Chain(r[i].pkts, g[i - 1], g[i])
  <2>. HIDE DEF g, r
  <2>1. CASE i = n + 1
    <3>1. g[n] = b /\ (n + 1) - 1 = n
      BY <1>1, <1>2, <1>3 DEF FramesFollow
    <3>. QED
      BY <1>2, <1>4, <2>1, <3>1
  <2>2. CASE i # n + 1
    <3>1. i \in 1 .. n /\ i \in 0 .. n /\ i - 1 \in 0 .. n
      BY <1>2, <2>2
    <3>. QED
      BY <1>1, <1>2, <1>3, <3>1 DEF FramesFollow
  <2>. QED
    BY <2>1, <2>2
<1>. HIDE DEF g, r
<1>9. FramesFollow(g, r, a, c)
  BY <1>2, <1>4, <1>6, <1>7, <1>8 DEF FramesFollow
<1>. QED
  BY <1>5, <1>9 DEF FrameChain, r

\* The first frame of a chain is a chain, and the rest goes on from its end.
LEMMA FramesTail ==
  ASSUME NEW q \in Seq(Frames), q # << >>, NEW a \in Nat, NEW b \in Nat, FrameChain(q, a, b)
  PROVE  \E m \in a .. b : Chain(q[1].pkts, a, m) /\ FrameChain(Tail(q), m, b)
<1>1. PICK f \in [0 .. Len(q) -> a .. b] : FramesFollow(f, q, a, b)
  BY DEF FrameChain
<1>. DEFINE n == Len(q)
            r == Tail(q)
            g == [i \in 0 .. n - 1 |-> f[i + 1]]
<1>2. /\ n \in Nat \ {0} /\ Len(r) = n - 1
      /\ \A i \in 1 .. n - 1 : r[i] = q[i + 1]
  OBVIOUS
<1>3. f[1] \in a .. b /\ 1 \in 0 .. n /\ 1 \in 1 .. n /\ f[0] = a
  BY <1>1, <1>2 DEF FramesFollow
<1>4. Chain(q[1].pkts, a, f[1])
  <2>1. Chain(q[1].pkts, f[1 - 1], f[1])
    BY <1>1, <1>3 DEF FramesFollow
  <2>2. 1 - 1 = 0
    OBVIOUS
  <2>. QED
    BY <1>3, <2>1, <2>2
<1>5. ASSUME NEW i \in 0 .. n - 1 PROVE g[i] = f[i + 1] /\ i + 1 \in 0 .. n /\ g[i] \in f[1] .. b
  <2>1. i + 1 \in 0 .. n /\ 1 <= i + 1
    BY <1>2
  <2>2. f[1] <= f[i + 1] /\ f[i + 1] \in a .. b
    BY <1>1, <1>3, <2>1 DEF FramesFollow
  <2>. QED
    BY <1>3, <2>1, <2>2
<1>6. g \in [0 .. Len(r) -> f[1] .. b]
  BY <1>2, <1>5
<1>7. /\ g[0] = f[1] /\ g[n - 1] = b
      /\ \A i, j \in 0 .. n - 1 : i <= j => g[i] <= g[j]
  <2>1. 0 \in 0 .. n - 1 /\ n - 1 \in 0 .. n - 1 /\ 0 + 1 = 1 /\ (n - 1) + 1 = n
    BY <1>2
  <2>2. g[0] = f[0 + 1] /\ g[n - 1] = f[(n - 1) + 1]
    BY <1>5, <2>1
  <2>3. f[n] = b
    BY <1>1 DEF FramesFollow
  <2>4. ASSUME NEW i \in 0 .. n - 1, NEW j \in 0 .. n - 1, i <= j PROVE g[i] <= g[j]
    <3>1. i + 1 \in 0 .. n /\ j + 1 \in 0 .. n /\ i + 1 <= j + 1
      BY <1>2, <2>4
    <3>2. f[i + 1] <= f[j + 1]
      BY <1>1, <3>1 DEF FramesFollow
    <3>. QED
      BY <1>5, <3>2
  <2>. HIDE DEF g
  <2>. QED
    BY <2>1, <2>2, <2>3, <2>4
<1>8. ASSUME NEW i \in 1 .. n - 1 PROVE Chain(r[i].pkts, g[i - 1], g[i])
  <2>1. /\ i \in 0 .. n - 1 /\ i - 1 \in 0 .. n - 1 /\ i + 1 \in 1 .. n
        /\ (i - 1) + 1 = i /\ (i + 1) - 1 = i
    BY <1>2
  <2>2. g[i] = f[i + 1] /\ g[i - 1] = f[(i - 1) + 1]
    BY <1>5, <2>1
  <2>3. Chain(q[i + 1].pkts, f[(i + 1) - 1], f[i + 1])
    BY <1>1, <2>1 DEF FramesFollow
  <2>. HIDE DEF g, r
  <2>. QED
    BY <1>2, <2>1, <2>2, <2>3
<1>. HIDE DEF g
<1>9. FramesFollow(g, r, f[1], b)
  BY <1>2, <1>7, <1>8 DEF FramesFollow
<1>10. FrameChain(r, f[1], b)
  BY <1>6, <1>9 DEF FrameChain
<1>. QED
  BY <1>3, <1>4, <1>10

\* An empty chain leads nowhere, and no chain leads back.
LEMMA FramesBounds ==
  ASSUME NEW q \in Seq(Frames), NEW a \in Nat, NEW b \in Nat, FrameChain(q, a, b)
  PROVE  a <= b /\ (q = << >> => a = b)
<1>1. PICK f \in [0 .. Len(q) -> a .. b] : FramesFollow(f, q, a, b)
  BY DEF FrameChain
<1>2. Len(q) \in Nat /\ (q = << >> => Len(q) = 0)
  OBVIOUS
<1>3. f[0] \in a .. b /\ f[0] = a /\ f[Len(q)] = b
  BY <1>1, <1>2 DEF FramesFollow
<1>. QED
  BY <1>2, <1>3

-----------------------------------------------------------------------------
(* What rdts_input does with the packets of a frame *)

\* Nothing, or one data packet that does not begin the stream.
Resent(q) ==
    q = << >> \/ \E lo \in Nat \ {0}, len \in Nat : q = << DataPacket(lo, len) >>

\* Packets without data bring nothing; they may make the session resend.
LEMMA InputQuiet ==
  ASSUME NEW S, Sound(S), S.snd_buf = << >>, NEW pkts \in Seq(Packet), NoData(pkts),
         NEW T, T = rdts_input(S, pkts)
  PROVE  /\ T.received = S.received
         /\ T.rcv_raw_offset = S.rcv_raw_offset
         /\ Resent(T.snd_buf)
<1>1. PICK r : IsRun(r, S, pkts) /\ T = r[Len(pkts)]
  BY InputRuns
<1>2. \A i \in 1 .. Len(pkts) : Takes(r[i - 1], pkts[i], r[i])
  BY <1>1, RunTakes
<1>. DEFINE N == {i \in 0 .. Len(pkts) : /\ r[i].received = S.received
                                         /\ r[i].rcv_raw_offset = S.rcv_raw_offset
                                         /\ Resent(r[i].snd_buf)}
<1>3. 0 \in N
  BY <1>1 DEF IsRun, Resent
<1>4. ASSUME NEW i \in 1 .. Len(pkts), i - 1 \in N PROVE i \in N
  <2>. DEFINE Q == r[i - 1]
              o == pkts[i].offset
  <2>1. o \in Nat /\ Sound(Q) /\ TakesAck(Q, o, r[i])
    BY <1>2 DEF Takes, NoData
  <2>2. CASE r[i].snd_buf = Q.snd_buf
    BY <1>4, <2>1, <2>2 DEF TakesAck
  <2>3. CASE r[i].snd_buf # Q.snd_buf
    <3>1. /\ CallsOnAck(Q, o) /\ o < Q.sent
          /\ r[i].snd_buf = << DataPacket(o, Q.sent - o) >>
      BY <2>1, <2>3 DEF TakesAck
    <3>2. Q.remote_rcv_raw_offset \in Nat /\ Q.sent \in Nat
      BY <2>1, SessionFields DEF Sound
    <3>3. o > Q.remote_rcv_raw_offset
      BY <3>1 DEF CallsOnAck, AcceptsAck
    <3>. HIDE DEF Q, o
    <3>4. o \in Nat \ {0} /\ Q.sent - o \in Nat
      BY <2>1, <3>1, <3>2, <3>3
    <3>5. Resent(r[i].snd_buf)
      BY <3>1, <3>4 DEF Resent
    <3>6. r[i].received = Q.received /\ r[i].rcv_raw_offset = Q.rcv_raw_offset
      BY <2>1 DEF TakesAck
    <3>. QED
      BY <1>4, <3>5, <3>6 DEF Q
  <2>. QED
    BY <2>2, <2>3
<1>5. Len(pkts) \in Nat
  OBVIOUS
<1>6. 0 .. Len(pkts) \subseteq N
  <2>. HIDE DEF N
  <2>. QED
    BY <1>3, <1>4, <1>5, UpTo
<1>. QED
  BY <1>1, <1>5, <1>6

\* A chain from where the receiver is takes it to the chain's end, and its acks
\* go no further.
LEMMA InputChain ==
  ASSUME NEW S, Sound(S), S.snd_buf = << >>, S.received = Bytes(0, S.rcv_raw_offset),
         NEW pkts \in Seq(Packet), NEW b \in Nat, Chain(pkts, S.rcv_raw_offset, b),
         NEW T, T = rdts_input(S, pkts)
  PROVE  /\ T.rcv_raw_offset = b
         /\ T.received = Bytes(0, b)
         /\ AcksUpTo(T.snd_buf, b)
<1>1. PICK r : IsRun(r, S, pkts) /\ T = r[Len(pkts)]
  BY InputRuns
<1>2. /\ \A i \in 0 .. Len(pkts) : Sound(r[i])
      /\ \A i \in 1 .. Len(pkts) : Takes(r[i - 1], pkts[i], r[i])
  BY <1>1, RunTakes
<1>. DEFINE a == S.rcv_raw_offset
<1>3. a \in Nat /\ Len(pkts) \in Nat
  BY SessionFields DEF Sound
<1>4. PICK f \in [0 .. Len(pkts) -> a .. b] : Follows(f, pkts, a, b)
  BY DEF Chain
<1>5. \A i \in 0 .. Len(pkts) : f[i] \in Nat /\ f[i] <= b
  BY <1>3
<1>. DEFINE N == {i \in 0 .. Len(pkts) : /\ r[i].rcv_raw_offset = f[i]
                                         /\ r[i].received = Bytes(0, f[i])
                                         /\ AcksUpTo(r[i].snd_buf, b)}
<1>6. 0 \in N
  BY <1>1, <1>3, <1>4 DEF IsRun, Follows, AcksUpTo
<1>7. ASSUME NEW i \in 1 .. Len(pkts), i - 1 \in N PROVE i \in N
  <2>. DEFINE Q == r[i - 1]
              p == pkts[i]
              R == r[i]
  <2>1. /\ Takes(Q, p, R)
        /\ Q.rcv_raw_offset = f[i - 1] /\ Q.received = Bytes(0, f[i - 1])
        /\ AcksUpTo(Q.snd_buf, b)
        /\ f[i - 1] \in Nat /\ f[i] \in Nat /\ f[i] <= b
        /\ i \in 0 .. Len(pkts)
    BY <1>2, <1>5, <1>7
  <2>2. Sound(Q) /\ Q.snd_buf \in Seq(Packet)
    BY <2>1, SessionFields DEF Takes, Sound
  <2>3. CASE p.kind = "data"
    <3>1. p.lo = f[i - 1] /\ f[i] = f[i - 1] + p.len
      BY <1>4, <2>3 DEF Follows
    <3>2. p.lo \in Nat /\ p.len \in Nat \ {0} /\ TakesData(Q, p.lo, p.len, R)
      BY <2>1, <2>3 DEF Takes
    <3>3. R.rcv_raw_offset = f[i]
      BY <2>1, <3>1, <3>2 DEF TakesData
    <3>4. R.received = Bytes(0, f[i])
      <4>1. R.received = Bytes(0, f[i - 1]) \o Bytes(f[i - 1], p.len)
        BY <2>1, <3>1, <3>2 DEF TakesData
      <4>. DEFINE len == p.len
      <4>2. len \in Nat
        BY <3>2
      <4>. HIDE DEF len
      <4>3. Bytes(0, f[i - 1]) \o Bytes(f[i - 1], len) = Bytes(0, f[i - 1] + len)
        BY <2>1, <4>2, BytesJoin
      <4>. QED
        BY <3>1, <4>1, <4>3 DEF len
    <3>5. AcksUpTo(R.snd_buf, b)
      <4>1. CASE R.snd_buf = Q.snd_buf
        BY <2>1, <4>1
      <4>2. CASE R.snd_buf = Append(Q.snd_buf, AckPacket(f[i]))
        <5>1. AckPacket(f[i]).offset = f[i]
          BY DEF AckPacket
        <5>2. \A j \in 1 .. Len(R.snd_buf) :
                 \/ j \in 1 .. Len(Q.snd_buf) /\ R.snd_buf[j] = Q.snd_buf[j]
                 \/ R.snd_buf[j] = AckPacket(f[i])
          <6>. HIDE DEF R, Q
          <6>. QED
            BY <2>2, <4>2
        <5>. HIDE DEF R, Q
        <5>. QED
          BY <2>1, <5>1, <5>2 DEF AcksUpTo
      <4>. QED
        BY <3>2, <3>3, <4>1, <4>2 DEF TakesData
    <3>. QED
      BY <2>1, <3>3, <3>4, <3>5
  <2>4. CASE p.kind # "data"
    <3>1. f[i] = f[i - 1]
      BY <1>4, <2>4 DEF Follows
    <3>2. TakesAck(Q, p.offset, R)
      BY <2>1, <2>4 DEF Takes
    <3>3. R.rcv_raw_offset = f[i] /\ R.received = Bytes(0, f[i])
      BY <2>1, <3>1, <3>2 DEF TakesAck
    <3>4. AcksUpTo(R.snd_buf, b)
      <4>1. CASE R.snd_buf = Q.snd_buf
        BY <2>1, <4>1
      <4>2. CASE R.snd_buf = << DataPacket(p.offset, Q.sent - p.offset) >>
        BY <4>2 DEF AcksUpTo, DataPacket
      <4>. QED
        BY <3>2, <4>1, <4>2 DEF TakesAck
    <3>. QED
      BY <2>1, <3>3, <3>4
  <2>. QED
    BY <2>3, <2>4
<1>8. 0 .. Len(pkts) \subseteq N
  <2>. HIDE DEF N
  <2>. QED
    BY <1>3, <1>6, <1>7, UpTo
<1>. QED
  BY <1>1, <1>3, <1>4, <1>8 DEF Follows

\* No ack of a frame takes remote_rcv_raw_offset past the largest.
LEMMA InputAcked ==
  ASSUME NEW S, Sound(S), NEW n \in Nat, S.remote_rcv_raw_offset <= n,
         NEW pkts \in Seq(Packet), AcksUpTo(pkts, n),
         NEW T, T = rdts_input(S, pkts)
  PROVE  T.remote_rcv_raw_offset <= n
<1>1. PICK r : IsRun(r, S, pkts) /\ T = r[Len(pkts)]
  BY InputRuns
<1>2. \A i \in 1 .. Len(pkts) : Takes(r[i - 1], pkts[i], r[i])
  BY <1>1, RunTakes
<1>. DEFINE N == {i \in 0 .. Len(pkts) : r[i].remote_rcv_raw_offset <= n}
<1>3. 0 \in N
  BY <1>1 DEF IsRun
<1>4. ASSUME NEW i \in 1 .. Len(pkts), i - 1 \in N PROVE i \in N
  <2>1. \/ r[i].remote_rcv_raw_offset = r[i - 1].remote_rcv_raw_offset
        \/ r[i].remote_rcv_raw_offset = pkts[i].offset /\ pkts[i].kind = "ack"
    BY <1>2 DEF Takes, TakesAck, TakesData
  <2>. QED
    BY <1>4, <2>1 DEF AcksUpTo
<1>5. Len(pkts) \in Nat
  OBVIOUS
<1>6. 0 .. Len(pkts) \subseteq N
  <2>. HIDE DEF N
  <2>. QED
    BY <1>3, <1>4, <1>5, UpTo
<1>. QED
  BY <1>1, <1>5, <1>6

\* A queue of packets without data stays one when an ack is added.
LEMMA NoDataAppend ==
  ASSUME NEW q \in Seq(Packet), NoData(q), NEW n \in Nat
  PROVE  NoData(Append(q, AckPacket(n)))
<1>. DEFINE r == Append(q, AckPacket(n))
<1>1. \A j \in 1 .. Len(r) : (j \in 1 .. Len(q) /\ r[j] = q[j]) \/ r[j] = AckPacket(n)
  OBVIOUS
<1>. HIDE DEF r
<1>2. NoData(r)
  BY <1>1 DEF NoData, AckPacket
<1>. QED
  BY <1>2 DEF r

\* A session that does not wait for its peer queues nothing but acks.
LEMMA InputServed ==
  ASSUME NEW S, Sound(S), S.snd_buf = << >>, ~S.need_ack, NEW pkts \in Seq(Packet),
         NEW T, T = rdts_input(S, pkts)
  PROVE  ~T.need_ack /\ NoData(T.snd_buf)
<1>1. PICK r : IsRun(r, S, pkts) /\ T = r[Len(pkts)]
  BY InputRuns
<1>2. /\ \A i \in 0 .. Len(pkts) : Sound(r[i])
      /\ \A i \in 1 .. Len(pkts) : Takes(r[i - 1], pkts[i], r[i])
  BY <1>1, RunTakes
<1>. DEFINE N == {i \in 0 .. Len(pkts) : ~r[i].need_ack /\ NoData(r[i].snd_buf)}
<1>3. 0 \in N
  BY <1>1 DEF IsRun, NoData
<1>4. ASSUME NEW i \in 1 .. Len(pkts), i - 1 \in N PROVE i \in N
  <2>. DEFINE Q == r[i - 1]
              R == r[i]
  <2>1. /\ Takes(Q, pkts[i], R) /\ ~Q.need_ack /\ NoData(Q.snd_buf)
        /\ Q.snd_buf \in Seq(Packet) /\ R.rcv_raw_offset \in Nat
        /\ i \in 0 .. Len(pkts)
    BY <1>2, <1>4, TakesFields
  <2>2. ~R.need_ack
    BY <2>1 DEF Takes, TakesAck, TakesData
  <2>3. R.snd_buf = Q.snd_buf \/ R.snd_buf = Append(Q.snd_buf, AckPacket(R.rcv_raw_offset))
    BY <2>1 DEF Takes, TakesAck, TakesData
  <2>4. NoData(R.snd_buf)
    <3>. HIDE DEF Q, R
    <3>. QED
      BY <2>1, <2>3, NoDataAppend
  <2>. QED
    BY <2>1, <2>2, <2>4
<1>5. Len(pkts) \in Nat
  OBVIOUS
<1>6. 0 .. Len(pkts) \subseteq N
  <2>. HIDE DEF N
  <2>. QED
    BY <1>3, <1>4, <1>5, UpTo
<1>. QED
  BY <1>1, <1>5, <1>6

\* A session that waits for its peer, and is told n, waits on or has queued
\* the rest of its stream after n.
LEMMA InputAwaited ==
  ASSUME NEW S, Sound(S), S.snd_buf = << >>, NEW pkts \in Seq(Packet),
         NEW n \in Nat, AcksAt(pkts, n), S.need_ack,
         NEW T, T = rdts_input(S, pkts)
  PROVE  IF T.need_ack THEN NoData(T.snd_buf)
         ELSE n <= T.sent /\ Chain(T.snd_buf, n, T.sent)
<1>1. PICK r : IsRun(r, S, pkts) /\ T = r[Len(pkts)]
  BY InputRuns
<1>2. /\ \A i \in 0 .. Len(pkts) : Sound(r[i])
      /\ \A i \in 1 .. Len(pkts) : Takes(r[i - 1], pkts[i], r[i])
  BY <1>1, RunTakes
<1>. DEFINE Fine(R) == IF R.need_ack THEN NoData(R.snd_buf)
                       ELSE n <= R.sent /\ Chain(R.snd_buf, n, R.sent)
            N == {i \in 0 .. Len(pkts) : Fine(r[i])}
<1>3. 0 \in N
  BY <1>1 DEF IsRun, NoData
<1>4. ASSUME NEW i \in 1 .. Len(pkts), i - 1 \in N PROVE i \in N
  <2>. DEFINE Q == r[i - 1]
              R == r[i]
              p == pkts[i]
  <2>1. /\ Takes(Q, p, R) /\ Fine(Q)
        /\ Q.snd_buf \in Seq(Packet) /\ R.rcv_raw_offset \in Nat
        /\ Q.sent \in Nat /\ R.sent = Q.sent
        /\ Q.need_ack \in BOOLEAN /\ R.need_ack \in BOOLEAN
        /\ i \in 0 .. Len(pkts)
    BY <1>2, <1>4, TakesFields
  <2>2. SUFFICES Fine(R)
    BY <2>1
  <2>. HIDE DEF Q, R, p
  <2>3. CASE R.need_ack = Q.need_ack
             /\ \/ R.snd_buf = Q.snd_buf
                \/ R.snd_buf = Append(Q.snd_buf, AckPacket(R.rcv_raw_offset))
    <3>. DEFINE m == R.rcv_raw_offset
    <3>1. AckPacket(m) \in Packet /\ AckPacket(m).kind # "data" /\ m \in Nat
      BY <2>1 DEF AckPacket, Packet
    <3>2. CASE Q.need_ack
      <4>1. NoData(Q.snd_buf)
        BY <2>1, <3>2
      <4>. HIDE DEF m
      <4>2. NoData(Append(Q.snd_buf, AckPacket(m)))
        BY <2>1, <3>1, <4>1, NoDataAppend
      <4>. QED
        BY <2>3, <3>2, <4>1, <4>2 DEF m
    <3>3. CASE ~Q.need_ack
      <4>1. n <= Q.sent /\ Chain(Q.snd_buf, n, Q.sent)
        BY <2>1, <3>3
      <4>. HIDE DEF m
      <4>2. Chain(Append(Q.snd_buf, AckPacket(m)), n, Q.sent)
        BY <2>1, <3>1, <4>1, ChainAppend
      <4>. QED
        BY <2>1, <2>3, <3>3, <4>1, <4>2 DEF m
    <3>. QED
      BY <2>1, <3>2, <3>3
  <2>4. CASE p.kind = "ack" /\ CallsOnAck(Q, p.offset)
    <3>1. p.offset = n /\ TakesAck(Q, n, R)
      BY <2>1, <2>4 DEF Takes, AcksAt, p
    <3>2. Q.need_ack /\ ~R.need_ack
      BY <2>4, <3>1 DEF TakesAck
    <3>3. NoData(Q.snd_buf)
      BY <2>1, <3>2
    <3>4. CASE n = Q.sent /\ R.snd_buf = Q.snd_buf
      <4>1. Chain(R.snd_buf, n, R.sent)
        BY <2>1, <3>3, <3>4, ChainQuiet
      <4>. QED
        BY <2>1, <3>2, <3>4, <4>1
    <3>5. CASE n < Q.sent /\ R.snd_buf = << DataPacket(n, Q.sent - n) >>
      <4>1. NoData(<< >>) /\ << >> \in Seq(Packet)
        BY DEF NoData
      <4>2. Chain(<< >>, n, n)
        BY <4>1, ChainQuiet
      <4>. DEFINE d == DataPacket(n, Q.sent - n)
      <4>3. /\ d \in Packet /\ d.kind = "data" /\ d.lo = n /\ d.len \in Nat
            /\ Q.sent = n + d.len
        BY <2>1, <3>5 DEF DataPacket, Packet
      <4>. HIDE DEF d
      <4>4. Chain(Append(<< >>, d), n, Q.sent)
        BY <2>1, <4>1, <4>2, <4>3, ChainAppend
      <4>5. Append(<< >>, d) = << d >>
        OBVIOUS
      <4>6. Chain(R.snd_buf, n, R.sent) /\ n <= R.sent
        BY <2>1, <3>5, <4>4, <4>5 DEF d
      <4>. QED
        BY <2>1, <3>2, <4>6
    <3>. QED
      BY <2>4, <3>1, <3>4, <3>5 DEF TakesAck
  <2>. QED
    BY <2>1, <2>3, <2>4 DEF Takes, TakesAck, TakesData
<1>5. Len(pkts) \in Nat
  OBVIOUS
<1>6. 0 .. Len(pkts) \subseteq N
  <2>. HIDE DEF N
  <2>. QED
    BY <1>3, <1>4, <1>5, UpTo
<1>. QED
  BY <1>1, <1>5, <1>6

\* What a sequence holds after its first n elements.
LEMMA AfterFirst ==
  ASSUME NEW s \in Seq(Nat), NEW n \in Nat, n <= Len(s)
  PROVE  LET m == SubSeq(s, n + 1, Len(s))
         IN  /\ DOMAIN m = 1 .. Len(s) - n
             /\ \A i \in 1 .. Len(s) - n : m[i] = s[n + i]
  OBVIOUS

\* Frames that do not begin the stream bring no byte 1.
LEMMA InputNotFirst ==
  ASSUME NEW S, Sound(S), NEW pkts \in Seq(Packet), NotFirst(pkts),
         NEW T, T = rdts_input(S, pkts)
  PROVE  \A i \in DOMAIN MessagesIn(S, T) : MessagesIn(S, T)[i] # 1
<1>1. PICK r : IsRun(r, S, pkts) /\ T = r[Len(pkts)]
  BY InputRuns
<1>2. /\ \A i \in 0 .. Len(pkts) : Sound(r[i])
      /\ \A i \in 1 .. Len(pkts) : Takes(r[i - 1], pkts[i], r[i])
  BY <1>1, RunTakes
<1>. DEFINE n == Len(S.received)
            N == {i \in 0 .. Len(pkts) :
                    /\ n <= Len(r[i].received)
                    /\ \A j \in n + 1 .. Len(r[i].received) : r[i].received[j] # 1}
<1>3. S.received \in Seq(Nat) /\ n \in Nat
  BY SessionFields DEF Sound
<1>4. 0 \in N
  BY <1>1, <1>3 DEF IsRun
<1>5. ASSUME NEW i \in 1 .. Len(pkts), i - 1 \in N PROVE i \in N
  <2>. DEFINE Q == r[i - 1].received
              R == r[i].received
              lo == pkts[i].lo
              len == pkts[i].len
  <2>1. /\ Takes(r[i - 1], pkts[i], r[i])
        /\ Q \in Seq(Nat) /\ R \in Seq(Nat)
        /\ i \in 0 .. Len(pkts)
        /\ n <= Len(Q)
        /\ \A j \in n + 1 .. Len(Q) : Q[j] # 1
    BY <1>2, <1>5, SessionFields DEF Sound
  <2>2. CASE R = Q
    BY <2>1, <2>2
  <2>3. CASE R # Q
    <3>1. pkts[i].kind = "data" /\ lo \in Nat /\ len \in Nat /\ R = Q \o Bytes(lo, len)
      BY <2>1, <2>3 DEF Takes, TakesAck, TakesData
    <3>2. lo > 0
      BY <3>1 DEF NotFirst
    <3>. HIDE DEF Q, R, lo, len
    <3>3. Bytes(lo, len) \in Seq(Nat) /\ Len(Bytes(lo, len)) = len
          /\ \A j \in 1 .. len : Bytes(lo, len)[j] # 1
      BY <3>1, <3>2 DEF Bytes
    <3>4. n <= Len(R)
      BY <1>3, <2>1, <3>1, <3>3
    <3>5. ASSUME NEW j \in n + 1 .. Len(R) PROVE R[j] # 1
      <4>1. Len(R) = Len(Q) + len
        <5>1. Len(Q \o Bytes(lo, len)) = Len(Q) + Len(Bytes(lo, len))
          BY <2>1, <3>3, ConcatProperties
        <5>. QED
          BY <3>1, <3>3, <5>1
      <4>2. CASE j <= Len(Q)
        <5>1. R[j] = Q[j] /\ j \in n + 1 .. Len(Q)
          BY <1>3, <2>1, <3>1, <3>3, <4>2
        <5>. QED
          BY <2>1, <5>1
      <4>3. CASE j > Len(Q)
        <5>1. j - Len(Q) \in 1 .. len /\ R[j] = Bytes(lo, len)[j - Len(Q)]
          BY <1>3, <2>1, <3>1, <3>3, <4>1, <4>3
        <5>. QED
          BY <3>3, <5>1
      <4>. QED
        BY <1>3, <2>1, <4>2, <4>3
    <3>. QED
      BY <2>1, <3>4, <3>5 DEF R
  <2>. QED
    BY <2>2, <2>3
<1>6. Len(pkts) \in Nat
  OBVIOUS
<1>7. 0 .. Len(pkts) \subseteq N
  <2>. HIDE DEF N
  <2>. QED
    BY <1>4, <1>5, <1>6, UpTo
<1>8. /\ T.received \in Seq(Nat) /\ n <= Len(T.received)
      /\ \A j \in n + 1 .. Len(T.received) : T.received[j] # 1
  BY <1>1, <1>2, <1>6, <1>7, SessionFields DEF Sound
<1>. DEFINE m == SubSeq(T.received, n + 1, Len(T.received))
            k == Len(T.received) - n
<1>9. DOMAIN m = 1 .. k /\ \A i \in 1 .. k : m[i] = T.received[n + i]
  <2>1. T.received \in Seq(Nat) /\ n <= Len(T.received)
    BY <1>8
  <2>. HIDE DEF n
  <2>. QED
    BY <1>3, <2>1, AfterFirst
<1>10. ASSUME NEW i \in 1 .. k PROVE T.received[n + i] # 1
  <2>1. Len(T.received) \in Nat
    BY <1>8
  <2>2. n + i \in n + 1 .. Len(T.received)
    BY <1>3, <2>1
  <2>. QED
    BY <1>8, <2>2
<1>11. m = MessagesIn(S, T)
  BY DEF MessagesIn
<1>. HIDE DEF m, k
<1>. QED
  BY <1>9, <1>10, <1>11

\* Nothing received, no messages.
LEMMA NoMessages ==
  ASSUME NEW S, Sound(S), NEW T, T.received = S.received
  PROVE  MessagesIn(S, T) = << >>
<1>1. S.received \in Seq(Nat)
  BY SessionFields DEF Sound
<1>. QED
  BY <1>1 DEF MessagesIn

-----------------------------------------------------------------------------
(* What the programs write *)

\* What a poll writes is one frame with all of snd_buf, or nothing.
LEMMA PolledFrames ==
  ASSUME NEW T, Sound(T)
  PROVE  /\ Polled(T) \in Seq(Frames)
         /\ \A x \in Range(Polled(T)) : x.kind = "rdt" /\ x.pkts = T.snd_buf
         /\ \/ Polled(T) = << >> /\ T.snd_buf = << >>
            \/ /\ Polled(T) = << Frame(T.snd_buf) >>
               /\ Frame(T.snd_buf) \in Frames /\ Frame(T.snd_buf).pkts = T.snd_buf
<1>1. T.snd_buf \in Seq(Packet)
  BY SessionFields DEF Sound
<1>. DEFINE x == Frame(T.snd_buf)
<1>2. x \in Frames /\ x.kind = "rdt" /\ x.pkts = T.snd_buf
  BY <1>1, FrameOfPackets
<1>3. (Polled(T) = << >> /\ T.snd_buf = << >>) \/ Polled(T) = << x >>
  BY DEF Polled
<1>. HIDE DEF x
<1>4. << x >> \in Seq(Frames) /\ Range(<< x >>) = {x}
  BY <1>2, FramesIn
<1>. QED
  BY <1>2, <1>3, <1>4, FramesIn DEF x

\* The reply to the messages of a poll is one data packet, or nothing.
LEMMA ReplySound ==
  ASSUME NEW S, Sound(S), S.snd_buf = << >>, NEW msgs, NEW R, R = Reply(S, msgs)
  PROVE  /\ Sound(R)
         /\ R.enable = S.enable /\ R.need_ack = S.need_ack
         /\ R.rcv_raw_offset = S.rcv_raw_offset /\ R.received = S.received
         /\ R.snd_buf = << >> \/ (msgs # << >> /\ AcksUpTo(R.snd_buf, 0))
<1>1. CASE R = S
  BY <1>1
<1>2. CASE R # S
  <2>1. msgs # << >> /\ R = rdts_send(S, 1)
    BY <1>2 DEF Reply
  <2>2. 1 \in Nat \ {0}
    OBVIOUS
  <2>3. /\ Sound(rdts_send(S, 1))
        /\ rdts_send(S, 1).enable = S.enable
        /\ rdts_send(S, 1).need_ack = S.need_ack
        /\ rdts_send(S, 1).rcv_raw_offset = S.rcv_raw_offset
        /\ rdts_send(S, 1).received = S.received
        /\ \/ rdts_send(S, 1) = S
           \/ rdts_send(S, 1).snd_buf = Append(S.snd_buf, DataPacket(S.sent, 1))
    BY <2>2, SendSound
  <2>4. R.snd_buf = << DataPacket(S.sent, 1) >>
    BY <1>2, <2>1, <2>3
  <2>5. AcksUpTo(R.snd_buf, 0)
    BY <2>4 DEF AcksUpTo, DataPacket
  <2>. QED
    BY <2>1, <2>3, <2>5
<1>. QED
  BY <1>1, <1>2

\* The server's poll, reply and poll, of session T, over one of its connections.
ServerWrites(V, T, msgs, D) ==
    /\ V.enable
    /\ server' = V /\ failed' = failed
    /\ \E d \in V.fd2rdt, Z \in Session, fs \in Seq(Frames) :
          /\ Sound(Z) /\ Z.snd_buf = << >> /\ Z.enable = T.enable
          /\ Z.rcv_raw_offset = T.rcv_raw_offset /\ Z.received = T.received
          /\ sess' = [sess EXCEPT !["server"] = Z]
          /\ down' = Written(D, d, fs)
          /\ \A x \in Range(fs) :
                /\ x.kind = "rdt"
                /\ x.pkts = T.snd_buf \/ (msgs # << >> /\ AcksUpTo(x.pkts, 0))

\* The server writes to a connection the client has closed.
ServerFails(V) ==
    /\ \E d \in V.fd2rdt : ~open[d]
    /\ ServerEnds("write failed")

\* The server has nobody to write to.
ServerIdles(V, T, D) ==
    /\ ~(V.enable /\ V.fd2rdt # {})
    /\ server' = V /\ failed' = failed
    /\ sess' = [sess EXCEPT !["server"] = T]
    /\ down' = D

\* The rest of a server step with the session at hand, over connections the server
\* watches, is one of these.
LEMMA ServerPollsCases ==
  ASSUME NEW V, NEW T, Sound(T), T.enable, NEW msgs, NEW D,
         \A d \in V.fd2rdt : Watched(d), ServerPolls(V, T, msgs, D)
  PROVE  ServerWrites(V, T, msgs, D) \/ ServerFails(V) \/ ServerIdles(V, T, D)
<1>. DEFINE P == pollout(T)
            R == Reply(P, msgs)
            Z == pollout(R)
            fs == Polled(T) \o Polled(R)
<1>1. /\ Sound(P) /\ P.snd_buf = << >> /\ P.enable = T.enable
      /\ P.rcv_raw_offset = T.rcv_raw_offset /\ P.received = T.received
  BY PolloutSound
<1>2. /\ Sound(R)
      /\ R.enable = T.enable
      /\ R.rcv_raw_offset = T.rcv_raw_offset /\ R.received = T.received
      /\ R.snd_buf = << >> \/ (msgs # << >> /\ AcksUpTo(R.snd_buf, 0))
  <2>. HIDE DEF P
  <2>. QED
    BY <1>1, ReplySound
<1>3. /\ Sound(Z) /\ Z.snd_buf = << >> /\ Z.enable = T.enable
      /\ Z.rcv_raw_offset = T.rcv_raw_offset /\ Z.received = T.received
  <2>. HIDE DEF R
  <2>. QED
    BY <1>2, PolloutSound
<1>4. Z \in Session
  BY <1>3 DEF Sound
<1>5. /\ fs \in Seq(Frames)
      /\ \A x \in Range(fs) :
            /\ x.kind = "rdt"
            /\ x.pkts = T.snd_buf \/ (msgs # << >> /\ AcksUpTo(x.pkts, 0))
  <2>. HIDE DEF R
  <2>1. /\ Polled(T) \in Seq(Frames)
        /\ \A x \in Range(Polled(T)) : x.kind = "rdt" /\ x.pkts = T.snd_buf
    BY PolledFrames
  <2>2. /\ Polled(R) \in Seq(Frames)
        /\ \A x \in Range(Polled(R)) : x.kind = "rdt" /\ x.pkts = R.snd_buf
        /\ Polled(R) = << >> \/ R.snd_buf # << >>
    BY <1>2, PolledFrames DEF Polled
  <2>3. fs \in Seq(Frames) /\ Range(fs) = Range(Polled(T)) \cup Range(Polled(R))
    BY <2>1, <2>2, FramesIn
  <2>4. Range(<< >>) = {}
    BY FramesIn
  <2>. QED
    BY <1>2, <2>1, <2>2, <2>3, <2>4
<1>6. CASE V.enable /\ V.fd2rdt # {}
  <2>1. PICK d \in V.fd2rdt :
           \/ /\ server' = V
              /\ sess' = [sess EXCEPT !["server"] = Z]
              /\ down' = Written(D, d, fs)
              /\ UNCHANGED failed
           \/ WriteFails(d, fs) /\ ServerEnds("write failed")
    BY <1>6 DEF ServerPolls
  <2>. HIDE DEF Z, fs
  <2>2. CASE /\ server' = V
             /\ sess' = [sess EXCEPT !["server"] = Z]
             /\ down' = Written(D, d, fs)
             /\ UNCHANGED failed
    BY <1>3, <1>4, <1>5, <1>6, <2>2 DEF ServerWrites
  <2>3. CASE WriteFails(d, fs) /\ ServerEnds("write failed")
    BY <2>3 DEF ServerFails, WriteFails
  <2>. QED
    BY <2>1, <2>2, <2>3
<1>7. CASE ~(V.enable /\ V.fd2rdt # {})
  BY <1>7 DEF ServerPolls, ServerIdles
<1>. QED
  BY <1>6, <1>7

-----------------------------------------------------------------------------
(* ProgramInv is invariant *)

\* Frames written over one of the session's connections reach a client that is
\* there, behind what is under way.
LEMMA WrittenFits ==
  ASSUME NEW D, NEW fds, NEW cr, DownFits(D, fds, cr), cr,
         open = [c \in Conns |-> c = client.so], client.so \in Conns,
         NEW d \in fds, d \in Conns,
         NEW fs \in Seq(Frames), \A x \in Range(fs) : x.kind = "rdt"
  PROVE  DownFits(Written(D, d, fs), fds, cr)
<1>1. CASE ~open[d]
  BY <1>1 DEF Written
<1>2. CASE open[d]
  <2>. DEFINE so == client.so
              W == [D EXCEPT ![so] = @ \o fs]
              q == D[so]
  <2>1. d = so /\ Written(D, d, fs) = W
    BY <1>2 DEF Written
  <2>2. D \in [Conns -> Seq(Frames)] /\ q \in Seq(Frames) /\ so \in Conns
    BY DEF DownFits
  <2>3. q \o fs \in Seq(Frames) /\ Range(q \o fs) = Range(q) \cup Range(fs)
    <3>. HIDE DEF q
    <3>. QED
      BY <2>2, FramesIn
  <2>4. /\ W \in [Conns -> Seq(Frames)] /\ W[so] = q \o fs
        /\ \A c \in Conns : c # so => W[c] = D[c]
    BY <2>2, <2>3
  <2>5. so \in fds
    BY <2>1
  <2>6. q # << >> => q \o fs # << >> /\ (q \o fs)[1] = q[1]
    <3>. HIDE DEF q
    <3>. QED
      BY <2>2
  <2>7. so \in fds /\ ~client.enable => q # << >> /\ q[1].kind = "command"
    BY DEF DownFits
  <2>8. \A c \in Conns : c # so => D[c] = << >>
    BY DEF DownFits
  <2>9. ASSUME NEW c \in Conns, NEW x \in Range(W[c])
        PROVE  x.kind = "command" => x \in DownCommands(c)
    <3>1. x \in Range(D[c]) \/ x.kind = "rdt"
      <4>. HIDE DEF q, W
      <4>. QED
        BY <2>3, <2>4, <2>9 DEF q
    <3>. QED
      BY <3>1 DEF DownFits
  <2>. HIDE DEF W, q
  <2>. QED
    BY <2>1, <2>4, <2>5, <2>6, <2>7, <2>8, <2>9 DEF DownFits
<1>. QED
  BY <1>1, <1>2

\* What the proofs of the steps need of the types.
LEMMA InvFacts ==
  ASSUME ProgramInv
  PROVE  /\ client.so \in Conns /\ client.so \in Nat \ {0} /\ client.enable \in BOOLEAN
         /\ server.accepted \in Nat /\ server.accepted <= client.so
         /\ 1 .. server.accepted \subseteq Conns
         /\ Sound(sess["client"]) /\ Sound(sess["server"])
         /\ sess["client"] \in Session /\ sess["server"] \in Session
         /\ \A c \in Conns : /\ up[c] \in Seq(Frames) /\ down[c] \in Seq(Frames)
                             /\ open[c] = (c = client.so)
         /\ Conns \subseteq Nat \ {0} /\ MaxConns \in Nat
<1>1. MaxConns \in Nat \ {0} /\ Conns \subseteq Nat \ {0}
  BY ProgramsAssumption DEF Conns
<1>2. /\ client \in Clients /\ server \in Servers /\ server.accepted <= client.so
      /\ up \in [Conns -> Seq(Frames)] /\ down \in [Conns -> Seq(Frames)]
      /\ open = [c \in Conns |-> c = client.so]
      /\ Sound(sess["client"]) /\ Sound(sess["server"])
  BY DEF ProgramInv, ClientOK, ServerOK, SessionsOK, UpOK, DownOK, DownFits
<1>3. client.so \in Conns /\ client.enable \in BOOLEAN /\ server.accepted \in 0 .. MaxConns
  BY <1>2 DEF Clients, Servers
<1>4. 1 .. server.accepted \subseteq Conns
  BY <1>1, <1>3 DEF Conns
<1>5. sess["client"] \in Session /\ sess["server"] \in Session
  BY <1>2 DEF Sound
<1>6. ASSUME NEW c \in Conns
      PROVE  up[c] \in Seq(Frames) /\ down[c] \in Seq(Frames) /\ open[c] = (c = client.so)
  BY <1>2
<1>7. client.so \in Nat \ {0}
  BY <1>1, <1>3
<1>8. server.accepted \in Nat
  BY <1>3
<1>. QED
  BY <1>1, <1>2, <1>3, <1>4, <1>5, <1>6, <1>7, <1>8

\* The end of a server step leaves it invariant.
LEMMA ServerPollsKeeps ==
  ASSUME ProgramInv,
         NEW V \in Servers, NEW T, Sound(T), T.enable, NEW msgs, NEW D,
         ServerPolls(V, T, msgs, D),
         V.accepted = server.accepted, V.closed = server.closed,
         V.fd2rdt \subseteq (1 .. V.accepted) \ V.closed,
         V.enable => created'["server"],
         (V.enable /\ V.fd2rdt # {}) \/ T.snd_buf = << >>,
         DownFits(D, V.fd2rdt, created'["server"]),
         created' \in [Ends -> BOOLEAN], created'["client"] = created["client"],
         created["server"] => created'["server"],
         UpOK', UNCHANGED << client, open >>
  PROVE  ProgramInv'
<1>. USE DEF ProgramInv
<1>1. ServerWrites(V, T, msgs, D) \/ ServerFails(V) \/ ServerIdles(V, T, D)
  <2>1. \A d \in V.fd2rdt : Watched(d)
    BY InvFacts DEF Watched
  <2>. QED
    BY <2>1, ServerPollsCases
<1>2. /\ Ends = {"client", "server"}
      /\ client \in Clients /\ client.so \in Conns
      /\ open = [c \in Conns |-> c = client.so]
      /\ sess \in [Ends -> Session] /\ failed \in [Ends -> Errors \cup {""}]
      /\ V.fd2rdt \subseteq Conns
  BY InvFacts DEF Ends, ClientOK, SessionsOK, DownOK
<1>3. ASSUME server' = V, NEW Z \in Session, Sound(Z), Z.enable = T.enable,
             Z.snd_buf = << >>,
             sess' = [sess EXCEPT !["server"] = Z], failed' = failed,
             DownFits(down', V.fd2rdt, created'["server"])
      PROVE  ProgramInv'
  <2>1. sess'["client"] = sess["client"] /\ sess'["server"] = Z /\ sess' \in [Ends -> Session]
    BY <1>2, <1>3
  <2>2. ClientOK'
    BY <2>1 DEF ClientOK
  <2>3. ServerOK'
    BY <1>3, <2>1 DEF ServerOK
  <2>4. SessionsOK'
    BY <1>3, <2>1 DEF SessionsOK
  <2>5. DownOK'
    BY <1>2, <1>3 DEF DownOK, DownFits, DownCommands
  <2>. QED
    BY <2>2, <2>3, <2>4, <2>5
<1>4. CASE ServerWrites(V, T, msgs, D)
  <2>1. PICK d \in V.fd2rdt, Z \in Session, fs \in Seq(Frames) :
          /\ Sound(Z) /\ Z.enable = T.enable /\ Z.snd_buf = << >>
          /\ sess' = [sess EXCEPT !["server"] = Z]
          /\ down' = Written(D, d, fs)
          /\ \A x \in Range(fs) : x.kind = "rdt"
    BY <1>4 DEF ServerWrites
  <2>2. V.enable /\ server' = V /\ failed' = failed
    BY <1>4 DEF ServerWrites
  <2>3. DownFits(Written(D, d, fs), V.fd2rdt, created'["server"])
    <3>1. d \in Conns
      BY <1>2
    <3>. DEFINE cr == created'["server"]
                fds == V.fd2rdt
    <3>2. cr /\ DownFits(D, fds, cr) /\ d \in fds
      BY <2>2
    <3>. HIDE DEF cr, fds
    <3>3. DownFits(Written(D, d, fs), fds, cr)
      BY <1>2, <2>1, <3>1, <3>2, WrittenFits
    <3>. QED
      BY <3>3 DEF cr, fds
  <2>. QED
    BY <1>3, <2>1, <2>2, <2>3
<1>5. CASE ServerFails(V)
  <2>1. failed' \in [Ends -> Errors \cup {""}] /\ server' = server /\ sess' = sess /\ down' = down
    BY <1>2, <1>5 DEF ServerFails, ServerEnds, Errors
  <2>2. ClientOK' /\ ServerOK' /\ SessionsOK'
    BY <2>1 DEF ClientOK, ServerOK, SessionsOK
  <2>3. DownOK'
    BY <2>1 DEF DownOK, DownFits, DownCommands
  <2>. QED
    BY <2>2, <2>3
<1>6. CASE ServerIdles(V, T, D)
  <2>1. T \in Session
    BY DEF Sound
  <2>. QED
    BY <1>3, <1>6, <2>1 DEF ServerIdles
<1>. QED
  BY <1>1, <1>4, <1>5, <1>6

\* Reading a frame from the client.
LEMMA UpTail ==
  ASSUME ProgramInv, NEW c \in Conns, up[c] # << >>, up' = [up EXCEPT ![c] = Tail(@)]
  PROVE  /\ UpOK'
         /\ up[c][1] \in Frames
         /\ up[c][1].kind = "command" => up[c][1] \in UpCommands(c)
<1>1. /\ up \in [Conns -> Seq(Frames)]
      /\ \A d \in Conns : \A x \in Range(up[d]) : x.kind = "command" => x \in UpCommands(d)
  BY DEF ProgramInv, UpOK
<1>2. /\ up[c][1] \in Range(up[c]) /\ Range(up[c]) \subseteq Frames
      /\ Tail(up[c]) \in Seq(Frames) /\ Range(Tail(up[c])) \subseteq Range(up[c])
  <2>. DEFINE q == up[c]
  <2>1. q \in Seq(Frames) /\ q # << >>
    BY <1>1
  <2>. HIDE DEF q
  <2>2. /\ q[1] \in Range(q) /\ Range(q) \subseteq Frames
        /\ Tail(q) \in Seq(Frames) /\ Range(Tail(q)) \subseteq Range(q)
    BY <2>1, FramesIn
  <2>. QED
    BY <2>2 DEF q
<1>3. /\ up' \in [Conns -> Seq(Frames)] /\ up'[c] = Tail(up[c])
      /\ \A d \in Conns : d # c => up'[d] = up[d]
  BY <1>1, <1>2
<1>4. ASSUME NEW d \in Conns, NEW x \in Range(up'[d]), x.kind = "command"
      PROVE  x \in UpCommands(d)
  <2>1. x \in Range(up[d])
    BY <1>2, <1>3, <1>4
  <2>. QED
    BY <1>1, <1>4, <2>1
<1>5. UpOK'
  BY <1>3, <1>4 DEF UpOK, UpCommands
<1>. QED
  BY <1>1, <1>2, <1>5

\* A server that gives a frame to its session has one.
LEMMA ServerInputFacts ==
  ASSUME ProgramInv, NEW c \in Conns, ServerInput(c)
  PROVE  LET S == sess["server"]
             T == rdts_input(S, up[c][1].pkts)
         IN  /\ ServerReads(c) /\ ToSession(c) /\ ServerTakes(c)
             /\ ServerPolls(server, T, MessagesIn(S, T), down)
             /\ UNCHANGED << client, created, open >>
<1>1. HasSession("server")
  BY DEF ServerInput, ToSession, HasSession, ProgramInv, ServerOK
<1>. QED
  BY <1>1 DEF ServerInput

\* Giving a frame to the session.
LEMMA ServerInputKeeps ==
  ASSUME ProgramInv, NEW c \in Conns, ServerInput(c)
  PROVE  ProgramInv'
<1>. DEFINE S == sess["server"]
            pkts == up[c][1].pkts
            T == rdts_input(S, pkts)
<1>1. /\ up[c] # << >> /\ server.enable /\ server.fd2rdt # {}
      /\ UNCHANGED << client, created, open >>
      /\ up' = [up EXCEPT ![c] = Tail(@)]
      /\ ServerPolls(server, T, MessagesIn(S, T), down)
  BY ServerInputFacts DEF ServerReads, ToSession, ServerTakes
<1>2. UpOK' /\ up[c][1] \in Frames
  BY <1>1, UpTail
<1>3. pkts \in Seq(Packet)
  BY <1>2, FrameFields
<1>4. Sound(S) /\ S.enable
  BY DEF ProgramInv, SessionsOK, ServerOK
<1>5. Sound(T) /\ T.enable
  <2>. HIDE DEF S, pkts
  <2>. QED
    BY <1>3, <1>4, InputSound
<1>6. /\ server \in Servers /\ server.fd2rdt \subseteq (1 .. server.accepted) \ server.closed
      /\ server.enable => created["server"]
      /\ DownFits(down, server.fd2rdt, created["server"])
      /\ created \in [Ends -> BOOLEAN]
  BY DEF ProgramInv, ServerOK, DownOK, SessionsOK
<1>. HIDE DEF T, S
<1>. QED
  BY <1>1, <1>2, <1>5, <1>6, ServerPollsKeeps

\* A frame the server does not give to the session.
LEMMA ServerOtherKeeps ==
  ASSUME ProgramInv, NEW c \in Conns, ServerOther(c)
  PROVE  ProgramInv'
<1>. DEFINE S == sess["server"]
<1>1. /\ up[c] # << >> /\ UNCHANGED << client, created, open >>
      /\ up' = [up EXCEPT ![c] = Tail(@)]
      /\ ServerPolls(server, S, << >>, down)
  BY DEF ServerOther, ServerReads, ServerTakes
<1>2. UpOK'
  BY <1>1, UpTail
<1>3. Sound(S) /\ S.enable /\ S.snd_buf = << >>
  BY DEF ProgramInv, SessionsOK, ServerOK
<1>4. /\ server \in Servers /\ server.fd2rdt \subseteq (1 .. server.accepted) \ server.closed
      /\ server.enable => created["server"]
      /\ DownFits(down, server.fd2rdt, created["server"])
      /\ created \in [Ends -> BOOLEAN]
  BY DEF ProgramInv, ServerOK, DownOK, SessionsOK
<1>. HIDE DEF S
<1>. QED
  BY <1>1, <1>2, <1>3, <1>4, ServerPollsKeeps

\* Part of a packet leaves the server nothing to do: it has sent what there was.
LEMMA PartChangesNothing ==
  ASSUME ProgramInv, NEW c \in Conns, ServerReadsPart(c)
  PROVE  UNCHANGED vars
<1>. DEFINE S == sess["server"]
            P == pollout(S)
<1>1. S.snd_buf = << >> /\ S.enable /\ S \in Session
  BY InvFacts DEF ProgramInv, ServerOK
<1>2. P = S
  BY <1>1 DEF pollout, Session
<1>3. Reply(P, << >>) = S /\ Polled(S) = << >> /\ << >> \o << >> = << >>
  BY <1>1, <1>2 DEF Reply, Polled
<1>4. ServerPolls(server, S, << >>, down) /\ UNCHANGED << client, created, up, open >>
  BY DEF ServerReadsPart
<1>. HIDE DEF S, P
<1>5. ASSUME NEW d PROVE ~WriteFails(d, << >>) /\ Written(down, d, << >>) = down
  <2>1. down \in [Conns -> Seq(Frames)] /\ open = [x \in Conns |-> x = client.so]
        /\ client.so \in Conns
    BY InvFacts DEF ProgramInv, DownOK, DownFits
  <2>. QED
    BY <2>1 DEF WriteFails, Written
<1>6. /\ server' = server /\ failed' = failed
      /\ sess' = [sess EXCEPT !["server"] = S] /\ down' = down
  BY <1>1, <1>2, <1>3, <1>4, <1>5 DEF ServerPolls, P
<1>7. sess' = sess
  <2>1. sess \in [Ends -> Session]
    BY DEF ProgramInv, SessionsOK
  <2>. QED
    BY <1>6, <2>1 DEF S
<1>. QED
  BY <1>4, <1>6, <1>7 DEF vars

\* The server's command goes out on the connection it answers before anything
\* else does.
LEMMA CommandFits ==
  ASSUME ProgramInv, NEW c \in Conns, NEW x \in DownCommands(c),
         NEW rest \in Seq(Frames), \A y \in Range(rest) : y.kind = "rdt" /\ created["server"]
  PROVE  /\ x \in Frames /\ x.kind = "command" /\ x.pkts = << >>
         /\ DownFits(Written(down, c, << x >> \o rest), server.fd2rdt \cup {c}, created["server"])
<1>1. x \in Frames /\ x.kind = "command" /\ x.pkts = << >>
  <2>1. x \in Commands
    BY DEF DownCommands, Commands
  <2>2. x.kind = "command" /\ x.pkts = << >>
    BY <2>1 DEF Commands, Command
  <2>. QED
    BY <2>1, <2>2 DEF Frames
<1>2. /\ down \in [Conns -> Seq(Frames)]
      /\ open = [d \in Conns |-> d = client.so]
      /\ DownFits(down, server.fd2rdt, created["server"])
  BY DEF ProgramInv, DownOK, DownFits
<1>3. CASE ~open[c]
  <2>1. Written(down, c, << x >> \o rest) = down /\ c # client.so
    BY <1>2, <1>3 DEF Written
  <2>. QED
    BY <1>1, <1>2, <2>1 DEF DownFits
<1>4. CASE open[c]
  <2>. DEFINE f == << x >> \o rest
              q == down[c]
              W == [down EXCEPT ![c] = @ \o f]
  <2>1. c = client.so /\ Written(down, c, f) = W
    BY <1>2, <1>4 DEF Written
  <2>2. << x >> \in Seq(Frames) /\ Range(<< x >>) = {x}
    BY <1>1, FramesIn
  <2>3. f \in Seq(Frames) /\ Range(f) = {x} \cup Range(rest)
    BY <2>2, FramesIn
  <2>4. q \in Seq(Frames)
    BY <1>2
  <2>5. q \o f \in Seq(Frames) /\ Range(q \o f) = Range(q) \cup Range(f)
    <3>. HIDE DEF f, q
    <3>. QED
      BY <2>3, <2>4, FramesIn
  <2>6. f # << >> /\ f[1] = x
    BY <2>2
  <2>7. q \o f # << >> /\ (q \o f)[1] = IF q = << >> THEN x ELSE q[1]
    <3>. HIDE DEF f, q
    <3>. QED
      BY <2>3, <2>4, <2>6
  <2>8. /\ W \in [Conns -> Seq(Frames)] /\ W[c] = q \o f
        /\ \A d \in Conns : d # c => W[d] = down[d]
    BY <1>2, <2>5
  <2>9. /\ c \notin server.fd2rdt => q = << >>
        /\ c \in server.fd2rdt /\ ~client.enable => q[1].kind = "command"
        /\ \A d \in Conns : d # c => down[d] = << >>
    BY <1>2, <2>1 DEF DownFits
  <2>10. ASSUME NEW d \in Conns, NEW y \in Range(W[d])
         PROVE  /\ y.kind = "command" => y \in DownCommands(d)
                /\ y.kind = "rdt" => created["server"]
    <3>. HIDE DEF W, q, f
    <3>1. CASE y \in Range(down[d])
      BY <1>2, <3>1 DEF DownFits
    <3>2. CASE y \notin Range(down[d])
      <4>1. d = c /\ y \in {x} \cup Range(rest)
        BY <2>3, <2>5, <2>8, <2>10, <3>2 DEF q
      <4>. QED
        BY <1>1, <4>1
    <3>. QED
      BY <3>1, <3>2
  <2>. HIDE DEF W, q, f
  <2>11. DownFits(W, server.fd2rdt \cup {c}, created["server"])
    BY <1>1, <2>1, <2>7, <2>8, <2>9, <2>10 DEF DownFits
  <2>. QED
    BY <1>1, <2>1, <2>11 DEF f
<1>. QED
  BY <1>3, <1>4

\* The first handshake, at the server.
LEMMA ServerLoginKeeps ==
  ASSUME ProgramInv, NEW c \in Conns, ServerLogin(c), ~Raises
  PROVE  ProgramInv'
<1>. DEFINE S == sess["server"]
            V == [server EXCEPT !.fd2rdt = @ \cup {c}, !.enable = FALSE]
            x == Command("HANDSHAKE_1")
            D == Written(down, c, << x >>)
<1>1. /\ up[c] # << >> /\ up[c][1] = Command("LOGIN") /\ UNCHANGED << client, created, open >>
      /\ up' = [up EXCEPT ![c] = Tail(@)]
      /\ ServerPolls(V, S, << >>, D)
      /\ c <= server.accepted /\ c \notin server.closed
  BY DEF ServerLogin, AnswerFails, Raises, Errors, Ends, RawCommand, ServerReads, ServerTakes, Watched
<1>2. UpOK' /\ c = 1
  <2>1. UpOK' /\ (up[c][1].kind = "command" => up[c][1] \in UpCommands(c))
    BY <1>1, UpTail
  <2>. QED
    BY <1>1, <2>1 DEF UpCommands, Command
<1>3. Sound(S) /\ S.enable /\ S.snd_buf = << >>
  BY DEF ProgramInv, SessionsOK, ServerOK
<1>4. /\ server \in Servers /\ server.fd2rdt \subseteq (1 .. server.accepted) \ server.closed
      /\ created \in [Ends -> BOOLEAN]
  BY DEF ProgramInv, ServerOK, SessionsOK
<1>5. /\ V \in Servers /\ V.accepted = server.accepted /\ V.closed = server.closed
      /\ V.fd2rdt = server.fd2rdt \cup {c} /\ ~V.enable
  BY <1>4 DEF Servers
<1>6. V.fd2rdt \subseteq (1 .. V.accepted) \ V.closed
  <2>1. c \in 1 .. server.accepted
    BY <1>1, <1>2, InvFacts
  <2>. HIDE DEF V
  <2>. QED
    BY <1>1, <1>4, <1>5, <2>1
<1>7. DownFits(D, server.fd2rdt \cup {c}, created["server"])
  <2>1. x \in DownCommands(c)
    BY <1>2 DEF DownCommands
  <2>2. << >> \in Seq(Frames) /\ Range(<< >>) = {} /\ << x >> \o << >> = << x >>
    BY FramesIn
  <2>. HIDE DEF x
  <2>3. DownFits(Written(down, c, << x >> \o << >>), server.fd2rdt \cup {c}, created["server"])
    BY <2>1, <2>2, CommandFits
  <2>. QED
    BY <2>2, <2>3
<1>. HIDE DEF S, V, D
<1>. QED
  BY <1>1, <1>2, <1>3, <1>4, <1>5, <1>6, <1>7, ServerPollsKeeps

\* The server makes its session and sends its first message.
LEMMA ServerHandshake2Keeps ==
  ASSUME ProgramInv, NEW c \in Conns, ServerHandshake2(c), ~Raises
  PROVE  ProgramInv'
<1>. DEFINE T == rdts_send(rdts_create, 1)
            V == [server EXCEPT !.enable = TRUE]
<1>1. /\ up[c] # << >> /\ UNCHANGED << client, open >> /\ c \in server.fd2rdt
      /\ up' = [up EXCEPT ![c] = Tail(@)]
      /\ created' = [created EXCEPT !["server"] = TRUE]
      /\ ServerPolls(V, T, << >>, down)
  BY DEF ServerHandshake2, Raises, Errors, Ends, RawCommand, ServerReads, ServerTakes
<1>2. UpOK'
  BY <1>1, UpTail
<1>3. Sound(T) /\ T.enable
  <2>1. Sound(rdts_create) /\ rdts_create.enable /\ 1 \in Nat \ {0}
    BY CreateSound DEF rdts_create
  <2>. QED
    BY <2>1, SendSound
<1>4. /\ server \in Servers /\ server.fd2rdt \subseteq (1 .. server.accepted) \ server.closed
      /\ DownFits(down, server.fd2rdt, created["server"])
      /\ created \in [Ends -> BOOLEAN] /\ "server" \in Ends /\ "client" \in Ends
  BY DEF ProgramInv, ServerOK, SessionsOK, DownOK, Ends
<1>5. /\ V \in Servers /\ V.accepted = server.accepted /\ V.closed = server.closed
      /\ V.fd2rdt = server.fd2rdt /\ V.enable
  BY <1>4 DEF Servers
<1>6. created' \in [Ends -> BOOLEAN] /\ created'["server"] /\ created'["client"] = created["client"]
  BY <1>1, <1>4
<1>7. DownFits(down, server.fd2rdt, created'["server"])
  BY <1>4, <1>6 DEF DownFits
<1>. HIDE DEF T, V
<1>. QED
  BY <1>1, <1>2, <1>3, <1>4, <1>5, <1>6, <1>7, ServerPollsKeeps

\* Looking for a session that has been created finds it.
LEMMA ServerHasSession ==
  ASSUME ProgramInv, NEW c \in Conns, RawCommand(c, "RECONN_HANDSHAKE_1")
  PROVE  HasSession("server") /\ c # 1
<1>1. up[c] # << >> /\ up[c][1] = Command("RECONN_HANDSHAKE_1") /\ c <= server.accepted
  BY DEF RawCommand, ServerReads, Watched
<1>2. up[c][1] \in UpCommands(c)
  <2>1. up[c][1].kind = "command"
    BY <1>1 DEF Command
  <2>2. up[c][1] \in Range(up[c])
    BY <1>1, InvFacts, FramesIn
  <2>. QED
    BY <2>1, <2>2 DEF ProgramInv, UpOK
<1>3. c # 1
  BY <1>1, <1>2 DEF UpCommands, Command
<1>4. client.so # 1
  BY <1>1, <1>3, InvFacts
<1>. QED
  BY <1>3, <1>4 DEF ProgramInv, ClientOK, ServerOK, HasSession

\* A program that ends with an error changes nothing else.
LEMMA FailKeeps ==
  ASSUME ProgramInv, Raises
  PROVE  ProgramInv'
<1>1. /\ \E e \in Ends, why \in Errors : failed' = [failed EXCEPT ![e] = why]
      /\ failed \in [Ends -> Errors \cup {""}]
      /\ UNCHANGED << client, server, sess, created, up, down, open >>
  BY DEF Raises, Fail, ProgramInv, SessionsOK
<1>2. ClientOK' /\ ServerOK' /\ UpOK' /\ DownOK'
  BY <1>1 DEF ProgramInv, ClientOK, ServerOK, UpOK, DownOK, DownFits, UpCommands, DownCommands
<1>3. SessionsOK'
  BY <1>1 DEF ProgramInv, SessionsOK
<1>. QED
  BY <1>2, <1>3 DEF ProgramInv

\* A reconnect, at the server.
LEMMA ServerReconnectsKeeps ==
  ASSUME ProgramInv, NEW c \in Conns, ServerReconnects(c), ~Raises
  PROVE  ProgramInv'
<1>. DEFINE S == sess["server"]
            B == disable_session(S)
            T == reconnect_session(B)
            P == pollout(T)
            V == Serve(server, c)
            x == Command("RECONN_HANDSHAKE_2")
            D == Written(down, c, << x >> \o Polled(T))
<1>1. RawCommand(c, "RECONN_HANDSHAKE_1")
  BY DEF ServerReconnects
<1>2. HasSession("server") /\ c # 1
  BY <1>1, ServerHasSession
<1>3. /\ up[c] # << >> /\ UNCHANGED << client, created, open >>
      /\ up' = [up EXCEPT ![c] = Tail(@)]
      /\ ServerPolls(V, P, << >>, D)
      /\ c <= server.accepted /\ c \notin server.closed
  BY <1>1, <1>2 DEF ServerReconnects, AnswerFails, Raises, Errors, Ends, ServerTakes, RawCommand, ServerReads, Watched
<1>4. UpOK'
  BY <1>3, UpTail
<1>5. Sound(T) /\ Sound(P) /\ P.enable /\ P.snd_buf = << >>
  <2>1. Sound(S)
    BY DEF ProgramInv, SessionsOK
  <2>2. Sound(B)
    <3>. HIDE DEF S
    <3>. QED
      BY <2>1, DisableSound
  <2>3. Sound(T) /\ T.enable
    <3>. HIDE DEF B
    <3>. QED
      BY <2>2, ReconnectSound
  <2>. HIDE DEF T
  <2>. QED
    BY <2>3, PolloutSound
<1>6. /\ server \in Servers /\ server.fd2rdt \subseteq (1 .. server.accepted) \ server.closed
      /\ created \in [Ends -> BOOLEAN] /\ created["server"]
  BY <1>2 DEF ProgramInv, ServerOK, SessionsOK, HasSession
<1>7. /\ V \in Servers /\ V.accepted = server.accepted /\ V.closed = server.closed
      /\ V.fd2rdt = server.fd2rdt \cup {c}
  BY <1>6 DEF Servers, Serve
<1>8. V.fd2rdt \subseteq (1 .. V.accepted) \ V.closed
  <2>1. c \in 1 .. server.accepted
    BY <1>3, InvFacts
  <2>. HIDE DEF V
  <2>. QED
    BY <1>3, <1>6, <1>7, <2>1
<1>9. DownFits(D, server.fd2rdt \cup {c}, created["server"])
  <2>1. x \in DownCommands(c)
    BY <1>2 DEF DownCommands
  <2>. HIDE DEF T, x
  <2>2. Polled(T) \in Seq(Frames) /\ \A y \in Range(Polled(T)) : y.kind = "rdt"
    BY <1>5, PolledFrames
  <2>. QED
    BY <1>6, <2>1, <2>2, CommandFits
<1>. HIDE DEF P, V, D
<1>. QED
  BY <1>3, <1>4, <1>5, <1>6, <1>7, <1>8, <1>9, ServerPollsKeeps

\* Accepting a connection.
LEMMA AcceptKeeps ==
  ASSUME ProgramInv, accept
  PROVE  ProgramInv'
<1>1. /\ server.accepted < client.so /\ UNCHANGED << client, sess, created, up, down, open, failed >>
      /\ server' = [server EXCEPT
           !.accepted = server.accepted + 1,
           !.overlap  = server.overlap \/ ~(1 .. server.accepted \subseteq server.closed)]
  BY DEF accept
<1>2. /\ server \in Servers /\ server.accepted \in Nat /\ client.so \in 1 .. MaxConns
      /\ MaxConns \in Nat
      /\ server.closed \subseteq 1 .. server.accepted
      /\ server.fd2rdt \subseteq (1 .. server.accepted) \ server.closed
  BY InvFacts DEF ProgramInv, ServerOK, Conns
<1>3. server.accepted + 1 \in 0 .. MaxConns
  BY <1>1, <1>2
<1>4. /\ server' \in Servers
      /\ server'.accepted = server.accepted + 1 /\ server'.closed = server.closed
      /\ server'.fd2rdt = server.fd2rdt /\ server'.enable = server.enable
  BY <1>1, <1>2, <1>3 DEF Servers
<1>5. server'.accepted <= client.so
  BY <1>1, <1>2, <1>4
<1>6. /\ server'.closed \subseteq 1 .. server'.accepted
      /\ server'.fd2rdt \subseteq (1 .. server'.accepted) \ server'.closed
  BY <1>2, <1>4
<1>7. ServerOK'
  BY <1>1, <1>4, <1>5, <1>6 DEF ProgramInv, ServerOK
<1>8. ClientOK' /\ SessionsOK' /\ UpOK'
  BY <1>1 DEF ProgramInv, ClientOK, SessionsOK, UpOK, UpCommands
<1>9. DownOK'
  BY <1>1, <1>4 DEF ProgramInv, DownOK, DownFits, DownCommands
<1>. QED
  BY <1>7, <1>8, <1>9 DEF ProgramInv

\* Seeing a connection end.
LEMMA CloseKeeps ==
  ASSUME ProgramInv, NEW c \in Conns, close(c)
  PROVE  ProgramInv'
<1>1. /\ c <= server.accepted /\ c \notin server.closed /\ ~open[c]
      /\ server' = [server EXCEPT !.closed = server.closed \cup {c},
                                  !.fd2rdt = server.fd2rdt \ {c},
                                  !.enable = server.enable /\ c \notin server.fd2rdt]
      /\ up' = [up EXCEPT ![c] = << >>]
      /\ UNCHANGED << client, sess, created, down, open, failed >>
  BY DEF close, Watched
<1>2. /\ server \in Servers /\ server.accepted \in Nat /\ c \in Nat \ {0}
      /\ c # client.so
      /\ server.closed \subseteq 1 .. server.accepted
      /\ server.fd2rdt \subseteq (1 .. server.accepted) \ server.closed
  BY <1>1, InvFacts DEF ProgramInv, ServerOK
<1>3. /\ server.closed \cup {c} \in SUBSET Conns
      /\ server.fd2rdt \ {c} \in SUBSET Conns
      /\ (server.enable /\ c \notin server.fd2rdt) \in BOOLEAN
  BY <1>2 DEF Servers
<1>4. /\ server' \in Servers
      /\ server'.accepted = server.accepted /\ server'.closed = server.closed \cup {c}
      /\ server'.fd2rdt = server.fd2rdt \ {c}
      /\ server'.enable => server.enable
  BY <1>1, <1>2, <1>3 DEF Servers
<1>5. /\ server'.closed \subseteq 1 .. server'.accepted
      /\ server'.fd2rdt \subseteq (1 .. server'.accepted) \ server'.closed
  BY <1>1, <1>2, <1>4
<1>6. ServerOK'
  BY <1>1, <1>4, <1>5 DEF ProgramInv, ServerOK
<1>7. ClientOK' /\ SessionsOK'
  BY <1>1 DEF ProgramInv, ClientOK, SessionsOK
<1>8. UpOK'
  <2>1. up \in [Conns -> Seq(Frames)]
    BY DEF ProgramInv, UpOK
  <2>2. /\ up' \in [Conns -> Seq(Frames)] /\ up'[c] = << >>
        /\ \A d \in Conns : d # c => up'[d] = up[d]
    BY <1>1, <2>1, FramesIn
  <2>3. Range(<< >>) = {}
    BY FramesIn
  <2>4. ASSUME NEW d \in Conns, NEW x \in Range(up'[d]) PROVE x \in Range(up[d])
    BY <2>2, <2>3, <2>4
  <2>. QED
    BY <2>2, <2>4 DEF ProgramInv, UpOK, UpCommands
<1>9. DownOK'
  BY <1>1, <1>2, <1>4 DEF ProgramInv, DownOK, DownFits, DownCommands
<1>. QED
  BY <1>6, <1>7, <1>8, <1>9 DEF ProgramInv

\* The end of a client step: what it writes goes on its connection.
LEMMA UpWrites ==
  ASSUME ProgramInv, NEW T, Sound(T),
         NEW out \in Seq(Frames), \A x \in Range(out) : x \in UpCommands(client.so),
         up' = [up EXCEPT ![client.so] = @ \o out \o Polled(T)]
  PROVE  /\ UpOK'
         /\ up'[client.so] = up[client.so] \o out \o Polled(T)
         /\ \A c \in Conns : c # client.so => up'[c] = up[c]
         /\ Range(up'[client.so]) = Range(up[client.so]) \cup Range(out) \cup Range(Polled(T))
<1>. DEFINE so == client.so
            q == up[so]
            p == Polled(T)
<1>1. /\ up \in [Conns -> Seq(Frames)] /\ so \in Conns
      /\ \A d \in Conns : \A x \in Range(up[d]) : x.kind = "command" => x \in UpCommands(d)
  BY InvFacts DEF ProgramInv, UpOK
<1>2. q \in Seq(Frames) /\ p \in Seq(Frames) /\ \A x \in Range(p) : x.kind = "rdt"
  BY <1>1, PolledFrames
<1>3. q \o out \o p \in Seq(Frames) /\ Range(q \o out \o p) = Range(q) \cup Range(out) \cup Range(p)
  <2>. HIDE DEF q, p
  <2>1. q \o out \in Seq(Frames) /\ Range(q \o out) = Range(q) \cup Range(out)
    BY <1>2, FramesIn
  <2>. DEFINE r == q \o out
  <2>2. r \in Seq(Frames)
    BY <2>1
  <2>. HIDE DEF r
  <2>3. r \o p \in Seq(Frames) /\ Range(r \o p) = Range(r) \cup Range(p)
    BY <1>2, <2>2, FramesIn
  <2>. QED
    BY <2>1, <2>3 DEF r
<1>. HIDE DEF p
<1>4. /\ up' \in [Conns -> Seq(Frames)]
      /\ up'[so] = q \o out \o p
      /\ \A d \in Conns : d # so => up'[d] = up[d]
  BY <1>1, <1>3 DEF p
<1>. HIDE DEF q
<1>5. ASSUME NEW d \in Conns, NEW x \in Range(up'[d]), x.kind = "command"
      PROVE  x \in UpCommands(d)
  <2>1. CASE x \in Range(up[d])
    BY <1>1, <1>5, <2>1
  <2>2. CASE x \notin Range(up[d])
    <3>1. d = so /\ x \in Range(out) \cup Range(p)
      BY <1>3, <1>4, <1>5, <2>2 DEF q
    <3>. QED
      BY <1>2, <1>5, <3>1
  <2>. QED
    BY <2>1, <2>2
<1>6. UpOK'
  BY <1>4, <1>5 DEF UpOK, UpCommands
<1>. QED
  BY <1>3, <1>4, <1>6 DEF p, q

\* Reading a frame from the server.
LEMMA DownTail ==
  ASSUME ProgramInv, down[client.so] # << >>, ClientTakes
  PROVE  LET so == client.so
         IN  /\ so \in server.fd2rdt
             /\ Reading \in Frames /\ Reading \in Range(down[so])
             /\ Reading.pkts \in Seq(Packet)
             /\ Reading.kind = "command" => Reading \in DownCommands(so)
             /\ Reading.kind = "rdt" => created["server"]
             /\ ~client.enable => Reading.kind = "command"
             /\ down' \in [Conns -> Seq(Frames)]
             /\ down'[so] = Tail(down[so])
             /\ Range(down'[so]) \subseteq Range(down[so])
             /\ \A c \in Conns : c # so => down'[c] = << >>
<1>. DEFINE so == client.so
            q == down[so]
<1>1. /\ DownFits(down, server.fd2rdt, created["server"]) /\ so \in Conns
      /\ down \in [Conns -> Seq(Frames)]
      /\ down' = [down EXCEPT ![so] = Tail(@)]
  BY InvFacts DEF ProgramInv, DownOK, DownFits, ClientTakes
<1>2. q \in Seq(Frames) /\ q # << >> /\ Reading = q[1]
  BY <1>1 DEF Reading
<1>3. /\ q[1] \in Range(q) /\ Range(q) \subseteq Frames
      /\ Tail(q) \in Seq(Frames) /\ Range(Tail(q)) \subseteq Range(q)
  <2>. HIDE DEF q
  <2>. QED
    BY <1>2, FramesIn
<1>4. Reading.pkts \in Seq(Packet)
  BY <1>2, <1>3, FrameFields
<1>5. /\ so \in server.fd2rdt
      /\ Reading.kind = "command" => Reading \in DownCommands(so)
      /\ Reading.kind = "rdt" => created["server"]
      /\ ~client.enable => Reading.kind = "command"
  BY <1>1, <1>2, <1>3 DEF DownFits
<1>6. /\ down' \in [Conns -> Seq(Frames)]
      /\ down'[so] = Tail(q)
      /\ \A c \in Conns : c # so => down'[c] = << >>
  BY <1>1, <1>3 DEF DownFits
<1>. QED
  BY <1>2, <1>3, <1>4, <1>5, <1>6

\* The client, which is enabled after it, has read the server's frame.
LEMMA DownRead ==
  ASSUME ProgramInv, down[client.so] # << >>, ClientTakes,
         UNCHANGED << server, open >>, client'.so = client.so, client'.enable,
         created'["server"] = created["server"]
  PROVE  DownOK'
<1>. DEFINE so == client.so
<1>1. /\ so \in server.fd2rdt
      /\ down' \in [Conns -> Seq(Frames)]
      /\ Range(down'[so]) \subseteq Range(down[so])
      /\ \A c \in Conns : c # so => down'[c] = << >>
  BY DownTail
<1>2. /\ open = [c \in Conns |-> c = so]
      /\ \A x \in Range(down[so]) : /\ x.kind = "command" => x \in DownCommands(so)
                                    /\ x.kind = "rdt" => created["server"]
  BY InvFacts DEF ProgramInv, DownOK, DownFits
<1>3. Range(<< >>) = {}
  BY FramesIn
<1>4. ASSUME NEW c \in Conns, NEW x \in Range(down'[c])
      PROVE  /\ x.kind = "command" => x \in DownCommands(c)
             /\ x.kind = "rdt" => created["server"]
  <2>1. c = so
    BY <1>1, <1>3, <1>4
  <2>. QED
    BY <1>1, <1>2, <1>4, <2>1
<1>. HIDE DEF so
<1>5. client'.so = so
  BY DEF so
<1>. QED
  BY <1>1, <1>2, <1>4, <1>5 DEF DownOK, DownFits, DownCommands

\* A client step that polls session T and leaves the client as C.
LEMMA ClientPollsKeeps ==
  ASSUME ProgramInv,
         NEW C \in Clients, NEW T, Sound(T), NEW msgs,
         NEW out \in Seq(Frames), \A x \in Range(out) : x \in UpCommands(client.so),
         ClientPolls(C, T, msgs, out),
         C.so = client.so, C.need_reconn # False => created'["client"] /\ created'["server"],
         C.so # 1 => C.need_reconn # False,
         C.enable => T.enable /\ created'["client"],
         C.handshake_succ => C.enable /\ C.need_reconn # False,
         C.need_reconn > 0 => C.handshake_succ,
         msgs # << >> => created'["client"] /\ created'["server"] /\ C.enable,
         created' \in [Ends -> BOOLEAN], created'["server"] = created["server"]
  PROVE  /\ ClientOK' /\ ServerOK' /\ SessionsOK' /\ UpOK'
         /\ UNCHANGED << server, open, failed >>
         /\ client'.so = C.so /\ client'.enable = C.enable
         /\ client'.handshake_succ = (C.handshake_succ \/ \E i \in DOMAIN msgs : msgs[i] = 1)
         /\ client'.need_reconn = IF \E i \in DOMAIN msgs : msgs[i] = 1 THEN ReconnAfter
                                  ELSE C.need_reconn
         /\ sess'["client"] = pollout(T) /\ sess'["server"] = sess["server"]
         /\ up'[client.so] = up[client.so] \o out \o Polled(T)
         /\ \A c \in Conns : c # client.so => up'[c] = up[c]
         /\ Range(up'[client.so]) = Range(up[client.so]) \cup Range(out) \cup Range(Polled(T))
<1>. DEFINE won == \E i \in DOMAIN msgs : msgs[i] = 1
            P == pollout(T)
            R == IF won THEN [C EXCEPT !.handshake_succ = TRUE, !.need_reconn = ReconnAfter] ELSE C
<1>1. /\ client' = R
      /\ sess' = [sess EXCEPT !["client"] = P]
      /\ up' = [up EXCEPT ![client.so] = @ \o out \o Polled(T)]
      /\ UNCHANGED << server, open, failed >>
  BY DEF ClientPolls
<1>2. Sound(P) /\ P \in Session /\ P.enable = T.enable
  BY PolloutSound DEF Sound
<1>3. /\ sess'["client"] = P /\ sess'["server"] = sess["server"]
      /\ sess' \in [Ends -> Session]
  <2>1. sess \in [Ends -> Session] /\ "client" \in Ends /\ "server" \in Ends
    BY DEF ProgramInv, SessionsOK, Ends
  <2>. HIDE DEF P
  <2>. QED
    BY <1>1, <1>2, <2>1
<1>4. won => msgs # << >>
  OBVIOUS
<1>5. ReconnAfter \in 0 .. ReconnAfter
  BY ProgramsAssumption
<1>6. /\ R \in Clients /\ R.so = C.so /\ R.enable = C.enable
      /\ R.handshake_succ = (C.handshake_succ \/ won)
      /\ R.need_reconn = IF won THEN ReconnAfter ELSE C.need_reconn
  <2>. HIDE DEF won
  <2>. QED
    BY <1>5 DEF Clients
<1>. HIDE DEF won, P, R
<1>7. ReconnAfter # False /\ ReconnAfter > 0
  BY ProgramsAssumption DEF False
<1>8. ClientOK'
  BY <1>1, <1>2, <1>3, <1>4, <1>6, <1>7 DEF ClientOK
<1>9. ServerOK'
  BY <1>1, <1>3, <1>6 DEF ProgramInv, ServerOK
<1>10. SessionsOK'
  BY <1>1, <1>2, <1>3 DEF ProgramInv, SessionsOK
<1>. QED
  BY <1>1, <1>3, <1>6, <1>8, <1>9, <1>10, UpWrites DEF won, P

\* An enabled client finds its session; what its session is given comes from a
\* session, or is nothing.
LEMMA ClientInputFacts ==
  ASSUME ProgramInv, ClientInput
  PROVE  LET S == sess["client"]
             T == rdts_input(S, Reading.pkts)
         IN  /\ HasSession("client")
             /\ ClientPolls(IF CalledBack(S, T) THEN Reconnected(client) ELSE client, T,
                            MessagesIn(S, T), << >>)
             /\ ClientTakes /\ created' = created
             /\ down[client.so] # << >> /\ client.enable
             /\ Sound(S) /\ Sound(T) /\ T.enable /\ T.sent = S.sent
             /\ Reading.pkts \in Seq(Packet)
             /\ CalledBack(S, T) \/ MessagesIn(S, T) # << >> =>
                   created["server"] /\ created["client"]
<1>. DEFINE S == sess["client"]
            pkts == Reading.pkts
            T == rdts_input(S, pkts)
<1>1. client.enable /\ down[client.so] # << >>
  BY DEF ClientInput, ClientReads
<1>2. Sound(S) /\ S.enable /\ created["client"] /\ HasSession("client")
  BY <1>1 DEF ProgramInv, ClientOK, SessionsOK, HasSession
<1>3. /\ ClientPolls(IF CalledBack(S, T) THEN Reconnected(client) ELSE client, T,
                     MessagesIn(S, T), << >>)
      /\ ClientTakes /\ created' = created
  BY <1>2 DEF ClientInput
<1>4. Reading \in Frames /\ pkts \in Seq(Packet) /\ (Reading.kind = "rdt" => created["server"])
  BY <1>1, <1>3, DownTail
<1>5. Sound(T) /\ T.enable = S.enable /\ T.sent = S.sent
  <2>. HIDE DEF S, pkts
  <2>. QED
    BY <1>2, <1>4, InputSound
<1>6. CASE Reading.kind = "rdt"
  BY <1>1, <1>2, <1>3, <1>4, <1>5, <1>6
<1>7. CASE Reading.kind # "rdt"
  <2>1. pkts = << >>
    BY <1>4, <1>7, FrameFields
  <2>2. T = S
    BY <2>1, InputNothing
  <2>3. ~CalledBack(S, T)
    BY <2>2 DEF CalledBack
  <2>4. MessagesIn(S, T) = << >>
    <3>. HIDE DEF S, T
    <3>. QED
      BY <1>2, <2>2, NoMessages
  <2>. QED
    BY <1>1, <1>2, <1>3, <1>4, <1>5, <2>3, <2>4
<1>. QED
  BY <1>6, <1>7

\* Giving a frame to the client's session.
LEMMA ClientInputKeeps ==
  ASSUME ProgramInv, ClientInput
  PROVE  ProgramInv'
<1>. DEFINE S == sess["client"]
            T == rdts_input(S, Reading.pkts)
            C == IF CalledBack(S, T) THEN Reconnected(client) ELSE client
            msgs == MessagesIn(S, T)
<1>1. /\ ClientPolls(C, T, msgs, << >>)
      /\ ClientTakes /\ created' = created
      /\ down[client.so] # << >> /\ client.enable
      /\ Sound(T) /\ T.enable
      /\ CalledBack(S, T) \/ msgs # << >> => created["server"] /\ created["client"]
  BY ClientInputFacts
<1>2. /\ client \in Clients /\ created \in [Ends -> BOOLEAN]
      /\ client.so # 1 => client.need_reconn # False
      /\ client.need_reconn # False => created["client"] /\ created["server"]
      /\ client.enable => created["client"]
      /\ client.handshake_succ => client.need_reconn # False
      /\ client.need_reconn > 0 => client.handshake_succ
  BY DEF ProgramInv, ClientOK, SessionsOK
<1>3. ReconnAfter \in 0 .. ReconnAfter /\ ReconnAfter # False
  BY ProgramsAssumption DEF False
<1>4. /\ C \in Clients /\ C.so = client.so /\ C.enable = client.enable
      /\ IF CalledBack(S, T) THEN C.need_reconn # False /\ C.handshake_succ
         ELSE C.need_reconn = client.need_reconn /\ C.handshake_succ = client.handshake_succ
  <2>. DEFINE cb == CalledBack(S, T)
  <2>1. C = IF cb THEN Reconnected(client) ELSE client
    OBVIOUS
  <2>. HIDE DEF cb, C
  <2>. QED
    BY <1>2, <1>3, <2>1 DEF Clients, Reconnected, cb
<1>5. << >> \in Seq(Frames) /\ Range(<< >>) = {}
  BY FramesIn
<1>. HIDE DEF C, T, msgs, S
<1>8. /\ C.need_reconn # False => created'["client"] /\ created'["server"]
      /\ C.so # 1 => C.need_reconn # False
      /\ C.enable => T.enable /\ created'["client"]
      /\ C.handshake_succ => C.enable /\ C.need_reconn # False
      /\ C.need_reconn > 0 => C.handshake_succ
      /\ msgs # << >> => created'["client"] /\ created'["server"] /\ C.enable
      /\ created' \in [Ends -> BOOLEAN] /\ created'["server"] = created["server"]
  BY <1>1, <1>2, <1>4
<1>9. ClientPolls(C, T, msgs, << >>) /\ C.so = client.so /\ C \in Clients /\ Sound(T)
  BY <1>1, <1>4
<1>6. /\ ClientOK' /\ ServerOK' /\ SessionsOK' /\ UpOK'
      /\ UNCHANGED << server, open, failed >>
      /\ client'.so = C.so /\ client'.enable = C.enable
  BY <1>5, <1>8, <1>9, ClientPollsKeeps
<1>7. DownOK'
  BY <1>1, <1>4, <1>6, DownRead
<1>. QED
  BY <1>6, <1>7 DEF ProgramInv

\* The first handshake, at the client.
LEMMA ClientHandshake1Facts ==
  ASSUME ProgramInv, ClientHandshake1
  PROVE  LET C == [client EXCEPT !.enable = TRUE]
         IN  /\ client.so = 1 /\ ~client.enable /\ down[client.so] # << >>
             /\ Reading = Command("HANDSHAKE_1")
             /\ ClientTakes /\ created' = [created EXCEPT !["client"] = TRUE]
             /\ ClientPolls(C, rdts_create, << >>, << Command("HANDSHAKE_2") >>)
             /\ C \in Clients /\ C.so = client.so /\ C.enable
             /\ C.handshake_succ = client.handshake_succ /\ C.need_reconn = client.need_reconn
             /\ Sound(rdts_create) /\ rdts_create.enable
             /\ << Command("HANDSHAKE_2") >> \in Seq(Frames)
             /\ Range(<< Command("HANDSHAKE_2") >>) = {Command("HANDSHAKE_2")}
             /\ Command("HANDSHAKE_2") \in UpCommands(client.so)
<1>. DEFINE x == Command("HANDSHAKE_2")
<1>1. /\ ~client.enable /\ down[client.so] # << >>
      /\ Reading = Command("HANDSHAKE_1")
      /\ ClientTakes /\ created' = [created EXCEPT !["client"] = TRUE]
      /\ ClientPolls([client EXCEPT !.enable = TRUE], rdts_create, << >>, << x >>)
  BY DEF ClientHandshake1, ClientReads
<1>2. client.so = 1
  <2>1. Reading.kind = "command" => Reading \in DownCommands(client.so)
    BY <1>1, DownTail
  <2>. QED
    BY <1>1, <2>1 DEF DownCommands, Command
<1>3. x \in UpCommands(client.so) /\ x \in Frames
  BY <1>2 DEF UpCommands, Frames, Commands
<1>4. << x >> \in Seq(Frames) /\ Range(<< x >>) = {x}
  <2>. HIDE DEF x
  <2>. QED
    BY <1>3, FramesIn
<1>5. Sound(rdts_create) /\ rdts_create.enable
  BY CreateSound DEF rdts_create
<1>6. client \in Clients
  BY DEF ProgramInv, ClientOK
<1>. QED
  BY <1>1, <1>2, <1>3, <1>4, <1>5, <1>6 DEF Clients

\* The client makes its session and confirms.
LEMMA ClientHandshake1Keeps ==
  ASSUME ProgramInv, ClientHandshake1
  PROVE  ProgramInv'
<1>. DEFINE C == [client EXCEPT !.enable = TRUE]
            T == rdts_create
            out == << Command("HANDSHAKE_2") >>
<1>1. /\ client.so = 1 /\ down[client.so] # << >>
      /\ ClientTakes /\ created' = [created EXCEPT !["client"] = TRUE]
      /\ ClientPolls(C, T, << >>, out)
      /\ C \in Clients /\ C.so = client.so /\ C.enable /\ C.need_reconn = client.need_reconn
      /\ C.handshake_succ = client.handshake_succ
      /\ Sound(T) /\ T.enable
      /\ out \in Seq(Frames) /\ \A x \in Range(out) : x \in UpCommands(client.so)
  BY ClientHandshake1Facts
<1>2. /\ created \in [Ends -> BOOLEAN] /\ "client" \in Ends /\ "server" \in Ends
      /\ client.need_reconn # False => created["client"] /\ created["server"]
      /\ client.handshake_succ => client.need_reconn # False
      /\ client.need_reconn > 0 => client.handshake_succ
  BY DEF ProgramInv, ClientOK, SessionsOK, Ends
<1>3. created' \in [Ends -> BOOLEAN] /\ created'["client"] /\ created'["server"] = created["server"]
  BY <1>1, <1>2
<1>. HIDE DEF C, T, out
<1>6. /\ C.need_reconn # False => created'["client"] /\ created'["server"]
      /\ C.so # 1 => C.need_reconn # False
      /\ C.enable => T.enable /\ created'["client"]
      /\ C.handshake_succ => C.enable /\ C.need_reconn # False
      /\ C.need_reconn > 0 => C.handshake_succ
  BY <1>1, <1>2, <1>3
<1>7. ClientPolls(C, T, << >>, out) /\ C.so = client.so
  BY <1>1
<1>4. /\ ClientOK' /\ ServerOK' /\ SessionsOK' /\ UpOK'
      /\ UNCHANGED << server, open, failed >>
      /\ client'.so = C.so /\ client'.enable = C.enable
  BY <1>1, <1>3, <1>6, <1>7, ClientPollsKeeps
<1>5. DownOK'
  BY <1>1, <1>3, <1>4, DownRead
<1>. QED
  BY <1>4, <1>5 DEF ProgramInv

\* The end of a reconnect, at a client that has made its session.
LEMMA ClientHandshake2Facts ==
  ASSUME ProgramInv, ClientHandshake2
  PROVE  LET C == [client EXCEPT !.enable = TRUE]
             S == sess["client"]
             T == reconnect_session(S)
         IN  /\ client.so # 1 /\ ~client.enable /\ down[client.so] # << >>
             /\ Reading = Command("RECONN_HANDSHAKE_2")
             /\ ClientTakes /\ created' = created
             /\ ClientPolls(C, T, << >>, << >>)
             /\ C \in Clients /\ C.so = client.so /\ C.enable
             /\ C.handshake_succ = client.handshake_succ /\ C.need_reconn = client.need_reconn
             /\ Sound(T) /\ T.enable /\ T.need_ack
             /\ T.remote_rcv_raw_offset = S.remote_rcv_raw_offset /\ T.sent = S.sent
             /\ T.snd_buf = << AckPacket(S.rcv_raw_offset) >>
<1>. DEFINE S == sess["client"]
            T == reconnect_session(S)
<1>0. /\ ~client.enable /\ down[client.so] # << >>
      /\ Reading = Command("RECONN_HANDSHAKE_2")
  BY DEF ClientHandshake2, ClientReads
<1>2. client.so # 1
  <2>1. Reading \in Range(down[client.so])
    BY <1>0, InvFacts, FramesIn DEF Reading
  <2>2. Reading.kind = "command"
    BY <1>0 DEF Command
  <2>3. Reading \in DownCommands(client.so)
    BY <2>1, <2>2, InvFacts DEF ProgramInv, DownOK, DownFits
  <2>. QED
    BY <1>0, <2>3 DEF DownCommands, Command
<1>1. /\ ~client.enable /\ down[client.so] # << >>
      /\ Reading = Command("RECONN_HANDSHAKE_2")
      /\ ClientTakes /\ created' = created
      /\ ClientPolls([client EXCEPT !.enable = TRUE], T, << >>, << >>)
  <2>1. created["client"]
    BY <1>2 DEF ProgramInv, ClientOK
  <2>. QED
    BY <1>0, <2>1 DEF ClientHandshake2
<1>3. client \in Clients /\ Sound(S)
  BY DEF ProgramInv, ClientOK, SessionsOK
<1>4. /\ Sound(T) /\ T.enable = TRUE /\ T.need_ack = TRUE
      /\ T.remote_rcv_raw_offset = S.remote_rcv_raw_offset /\ T.sent = S.sent
      /\ T.snd_buf = << AckPacket(S.rcv_raw_offset) >>
  <2>. HIDE DEF S
  <2>. QED
    BY <1>3, ReconnectSound
<1>. QED
  BY <1>1, <1>2, <1>3, <1>4 DEF Clients

\* The client resumes its session.
LEMMA ClientHandshake2Keeps ==
  ASSUME ProgramInv, ClientHandshake2
  PROVE  ProgramInv'
<1>. DEFINE C == [client EXCEPT !.enable = TRUE]
            T == reconnect_session(sess["client"])
<1>1. /\ client.so # 1 /\ down[client.so] # << >>
      /\ ClientTakes /\ created' = created
      /\ ClientPolls(C, T, << >>, << >>)
      /\ C \in Clients /\ C.so = client.so /\ C.enable /\ C.need_reconn = client.need_reconn
      /\ C.handshake_succ = client.handshake_succ
      /\ Sound(T) /\ T.enable
  BY ClientHandshake2Facts
<1>2. /\ created \in [Ends -> BOOLEAN]
      /\ client.need_reconn # False /\ created["client"] /\ created["server"]
      /\ client.need_reconn > 0 => client.handshake_succ
  BY <1>1 DEF ProgramInv, ClientOK, SessionsOK
<1>3. << >> \in Seq(Frames) /\ Range(<< >>) = {}
  BY FramesIn
<1>. HIDE DEF C, T
<1>4. /\ ClientOK' /\ ServerOK' /\ SessionsOK' /\ UpOK'
      /\ UNCHANGED << server, open, failed >>
      /\ client'.so = C.so /\ client'.enable = C.enable
  BY <1>1, <1>2, <1>3, ClientPollsKeeps
<1>5. DownOK'
  BY <1>1, <1>4, DownRead
<1>. QED
  BY <1>4, <1>5 DEF ProgramInv

\* Two messages: sent, each as a packet from where the stream ended, or refused.
LEMMA TwoSound ==
  ASSUME ProgramInv
  PROVE  LET S == sess["client"]
         IN  /\ Sound(Two) /\ Two.enable = S.enable /\ Two.need_ack = S.need_ack
             /\ Two.remote_rcv_raw_offset = S.remote_rcv_raw_offset
             /\ S.sent <= Two.sent
             /\ S.snd_buf = << >> => Chain(Two.snd_buf, S.sent, Two.sent)
<1>. DEFINE S == sess["client"]
            A == rdts_send(S, 1)
<1>0. 1 \in Nat \ {0}
  OBVIOUS
<1>1. Sound(S)
  BY DEF ProgramInv, SessionsOK
<1>2. /\ Sound(A) /\ A.enable = S.enable /\ A.need_ack = S.need_ack
      /\ A.remote_rcv_raw_offset = S.remote_rcv_raw_offset
      /\ \/ A = S
         \/ /\ A.sent = S.sent + 1
            /\ A.snd_buf = Append(S.snd_buf, DataPacket(S.sent, 1))
  <2>. HIDE DEF S
  <2>. QED
    BY <1>0, <1>1, SendSound
<1>3. /\ Sound(Two) /\ Two.enable = A.enable /\ Two.need_ack = A.need_ack
      /\ Two.remote_rcv_raw_offset = A.remote_rcv_raw_offset
      /\ \/ Two = A
         \/ /\ Two.sent = A.sent + 1
            /\ Two.snd_buf = Append(A.snd_buf, DataPacket(A.sent, 1))
  <2>1. Two = rdts_send(A, 1)
    BY DEF Two
  <2>. HIDE DEF A
  <2>. QED
    BY <1>0, <1>2, <2>1, SendSound
<1>. HIDE DEF A, S
<1>4. /\ S.sent \in Nat /\ A.sent \in Nat /\ Two.sent \in Nat
      /\ S.snd_buf \in Seq(Packet) /\ A.snd_buf \in Seq(Packet)
  BY <1>1, <1>2, <1>3, SessionFields DEF Sound
<1>5. S.sent <= A.sent /\ A.sent <= Two.sent
  BY <1>2, <1>3, <1>4
<1>6. ASSUME S.snd_buf = << >> PROVE Chain(Two.snd_buf, S.sent, Two.sent)
  <2>1. Chain(S.snd_buf, S.sent, S.sent)
    <3>1. << >> \in Seq(Packet) /\ NoData(<< >>)
      BY DEF NoData
    <3>2. Chain(<< >>, S.sent, S.sent)
      BY <1>4, <3>1, ChainQuiet
    <3>. QED
      BY <1>6, <3>2
  <2>2. ASSUME NEW n \in Nat
        PROVE  /\ DataPacket(n, 1) \in Packet /\ DataPacket(n, 1).kind = "data"
               /\ DataPacket(n, 1).lo = n /\ DataPacket(n, 1).len = 1
    BY DEF DataPacket, Packet
  <2>3. Chain(A.snd_buf, S.sent, A.sent)
    <3>1. CASE A = S
      BY <2>1, <3>1
    <3>2. CASE A.sent = S.sent + 1 /\ A.snd_buf = Append(S.snd_buf, DataPacket(S.sent, 1))
      <4>. DEFINE d == DataPacket(S.sent, 1)
      <4>1. d \in Packet /\ d.kind = "data" /\ d.lo = S.sent /\ d.len \in Nat /\ A.sent = S.sent + d.len
        BY <1>4, <2>2, <3>2
      <4>. HIDE DEF d
      <4>2. Chain(Append(S.snd_buf, d), S.sent, A.sent)
        BY <1>4, <2>1, <4>1, ChainAppend
      <4>. QED
        BY <3>2, <4>2 DEF d
    <3>. QED
      BY <1>2, <3>1, <3>2
  <2>4. CASE Two = A
    BY <2>3, <2>4
  <2>5. CASE Two.sent = A.sent + 1 /\ Two.snd_buf = Append(A.snd_buf, DataPacket(A.sent, 1))
    <3>. DEFINE d == DataPacket(A.sent, 1)
    <3>1. d \in Packet /\ d.kind = "data" /\ d.lo = A.sent /\ d.len \in Nat /\ Two.sent = A.sent + d.len
      BY <1>4, <2>2, <2>5
    <3>. HIDE DEF d
    <3>2. Chain(Append(A.snd_buf, d), S.sent, Two.sent)
      BY <1>4, <2>3, <3>1, ChainAppend
    <3>. QED
      BY <2>5, <3>2 DEF d
  <2>. QED
    BY <1>3, <2>4, <2>5
<1>. QED
  BY <1>2, <1>3, <1>4, <1>5, <1>6 DEF S

\* The countdown.
Counted ==
    [client EXCEPT !.need_reconn = IF client.need_reconn > 0 THEN client.need_reconn - 1 ELSE 0]

\* A timeout counts down and polls, with a session, or counts down alone.
LEMMA ClientTimeoutFacts ==
  ASSUME ProgramInv, ClientTimeout
  PROVE  /\ client.need_reconn # False /\ client.need_reconn # 1
         /\ Counted \in Clients /\ Counted.so = client.so /\ Counted.enable = client.enable
         /\ Counted.handshake_succ = client.handshake_succ /\ Counted.need_reconn # False
         /\ Counted.need_reconn > 0 => client.need_reconn > 0
         /\ \/ /\ client.handshake_succ
               /\ ClientPolls(Counted, Two, << >>, << >>)
               /\ UNCHANGED << down, created >>
            \/ /\ ~client.handshake_succ
               /\ client' = Counted
               /\ UNCHANGED << server, sess, created, up, down, open, failed >>
<1>1. client \in Clients /\ ReconnAfter \in Nat
  BY ProgramsAssumption DEF ProgramInv, ClientOK
<1>2. client.need_reconn \in {-1} \cup 0 .. ReconnAfter
  BY <1>1 DEF Clients, False
<1>3. client.need_reconn # False /\ client.need_reconn # 1
  BY DEF ClientTimeout
<1>. DEFINE left == IF client.need_reconn > 0 THEN client.need_reconn - 1 ELSE 0
<1>4. left \in 0 .. ReconnAfter /\ left # False /\ (left > 0 => client.need_reconn > 0)
  BY <1>1, <1>2, <1>3 DEF False
<1>5. Counted = [client EXCEPT !.need_reconn = left]
  BY DEF Counted
<1>6. client.handshake_succ => HasSession("client")
  BY DEF ProgramInv, ClientOK, HasSession
<1>7. \/ /\ client.handshake_succ
         /\ ClientPolls(Counted, Two, << >>, << >>)
         /\ UNCHANGED << down, created >>
      \/ /\ ~client.handshake_succ
         /\ client' = Counted
         /\ UNCHANGED << server, sess, created, up, down, open, failed >>
  BY <1>6 DEF ClientTimeout, Counted
<1>. HIDE DEF left
<1>8. /\ Counted \in Clients /\ Counted.so = client.so /\ Counted.enable = client.enable
      /\ Counted.handshake_succ = client.handshake_succ /\ Counted.need_reconn = left
  BY <1>1, <1>4, <1>5 DEF Clients
<1>. QED
  BY <1>3, <1>4, <1>7, <1>8

\* A timeout.
LEMMA ClientTimeoutKeeps ==
  ASSUME ProgramInv, ClientTimeout
  PROVE  ProgramInv'
<1>. DEFINE C == Counted
<1>1. /\ client \in Clients
      /\ client.need_reconn # False => created["client"] /\ created["server"]
      /\ client.enable => created["client"] /\ sess["client"].enable
      /\ client.handshake_succ => client.enable
      /\ client.need_reconn > 0 => client.handshake_succ
      /\ created \in [Ends -> BOOLEAN]
  BY DEF ProgramInv, ClientOK, SessionsOK
<1>2. /\ C.handshake_succ = client.handshake_succ
      /\ C.need_reconn > 0 => client.need_reconn > 0
  BY ClientTimeoutFacts
<1>3. CASE /\ client.need_reconn # False
           /\ C \in Clients /\ C.so = client.so /\ C.enable = client.enable
           /\ C.need_reconn # False
           /\ ClientPolls(C, Two, << >>, << >>)
           /\ UNCHANGED << down, created >>
  <2>1. Sound(Two) /\ Two.enable = sess["client"].enable
    BY TwoSound
  <2>2. << >> \in Seq(Frames) /\ Range(<< >>) = {}
    BY FramesIn
  <2>. HIDE DEF C
  <2>3. /\ C.need_reconn # False => created'["client"] /\ created'["server"]
        /\ C.so # 1 => C.need_reconn # False
        /\ C.enable => Two.enable /\ created'["client"]
        /\ C.handshake_succ => C.enable /\ C.need_reconn # False
        /\ C.need_reconn > 0 => C.handshake_succ
        /\ created' \in [Ends -> BOOLEAN] /\ created'["server"] = created["server"]
    BY <1>1, <1>2, <1>3, <2>1
  <2>4. ClientPolls(C, Two, << >>, << >>) /\ C.so = client.so /\ C \in Clients
    BY <1>3
  <2>5. /\ ClientOK' /\ ServerOK' /\ SessionsOK' /\ UpOK'
        /\ UNCHANGED << server, open, failed >>
        /\ client'.so = C.so /\ client'.enable = C.enable
    BY <2>1, <2>2, <2>3, <2>4, ClientPollsKeeps
  <2>6. DownOK'
    BY <1>3, <2>5 DEF ProgramInv, DownOK, DownFits, DownCommands
  <2>. QED
    BY <2>5, <2>6 DEF ProgramInv
<1>4. CASE /\ client.need_reconn # False
           /\ C \in Clients /\ C.so = client.so /\ C.enable = client.enable
           /\ C.need_reconn # False
           /\ client' = C
           /\ UNCHANGED << server, sess, created, up, down, open, failed >>
  <2>. HIDE DEF C
  <2>1. ClientOK'
    BY <1>1, <1>2, <1>4 DEF ClientOK
  <2>2. ServerOK' /\ SessionsOK' /\ UpOK' /\ DownOK'
    BY <1>4 DEF ProgramInv, ServerOK, SessionsOK, UpOK, DownOK, DownFits, UpCommands, DownCommands
  <2>. QED
    BY <2>1, <2>2 DEF ProgramInv
<1>. QED
  BY <1>3, <1>4, ClientTimeoutFacts

\* The reconnect test.
LEMMA TestReconnFacts ==
  ASSUME ProgramInv, test_reconn
  PROVE  LET old == client.so
             new == client.so + 1
         IN  /\ old \in Conns /\ new \in Conns /\ new # old
             /\ client.need_reconn = 1
             /\ client' = Restarted /\ Restarted \in Clients
             /\ Restarted.so = new /\ ~Restarted.enable /\ ~Restarted.handshake_succ
             /\ Restarted.need_reconn = 0 /\ Restarted.need_reconn # False
             /\ sess' = [sess EXCEPT !["client"] = disable_session(pollout(Two))]
             /\ up'[old] = up[old] \o Polled(Two)
             /\ Range(up'[old]) = Range(up[old]) \cup Range(Polled(Two))
             /\ up'[new] = << Command("RECONN_HANDSHAKE_1") >>
             /\ \A c \in Conns : c \notin {old, new} => up'[c] = up[c]
             /\ up' \in [Conns -> Seq(Frames)]
             /\ \A c \in Conns : down'[c] = << >>
             /\ down' \in [Conns -> Seq(Frames)]
             /\ open' = [c \in Conns |-> c = new]
             /\ UNCHANGED << server, created, failed >>
<1>. DEFINE old == client.so
            new == client.so + 1
            x == Command("RECONN_HANDSHAKE_1")
<1>0. HasSession("client")
  <2>1. client.need_reconn = 1
    BY DEF test_reconn
  <2>2. client.need_reconn > 0
    BY <2>1
  <2>. QED
    BY <2>2 DEF ProgramInv, ClientOK, HasSession
<1>1. /\ client.need_reconn = 1 /\ old < MaxConns
      /\ client' = Restarted
      /\ sess' = [sess EXCEPT !["client"] = disable_session(pollout(Two))]
      /\ up' = [up EXCEPT ![old] = @ \o Polled(Two), ![new] = << x >>]
      /\ down' = [down EXCEPT ![old] = << >>]
      /\ open' = [open EXCEPT ![old] = FALSE, ![new] = TRUE]
      /\ UNCHANGED << server, created, failed >>
  BY <1>0 DEF test_reconn
<1>2. MaxConns \in Nat /\ old \in 1 .. MaxConns
  BY InvFacts DEF Conns
<1>3. old \in Conns /\ new \in Conns /\ new # old
  BY <1>1, <1>2 DEF Conns
<1>4. Restarted \in Clients /\ 0 # False
  <2>1. 0 \in 0 .. ReconnAfter
    BY ProgramsAssumption
  <2>. QED
    BY <1>3, <2>1 DEF Restarted, Clients, False
<1>5. /\ up \in [Conns -> Seq(Frames)] /\ down \in [Conns -> Seq(Frames)]
      /\ open = [c \in Conns |-> c = old]
      /\ \A c \in Conns : c # old => down[c] = << >>
  BY DEF ProgramInv, UpOK, DownOK, DownFits
<1>6. x \in Frames
  BY DEF Frames, Commands
<1>7. << x >> \in Seq(Frames) /\ << >> \in Seq(Frames)
  <2>. HIDE DEF x
  <2>. QED
    BY <1>6, FramesIn
<1>8. up[old] \o Polled(Two) \in Seq(Frames)
      /\ Range(up[old] \o Polled(Two)) = Range(up[old]) \cup Range(Polled(Two))
  <2>1. Polled(Two) \in Seq(Frames)
    BY TwoSound, PolledFrames
  <2>2. up[old] \in Seq(Frames)
    BY <1>3, <1>5
  <2>. QED
    BY <2>1, <2>2, FramesIn
<1>9. open' = [c \in Conns |-> c = new]
  BY <1>1, <1>3, <1>5
<1>10. /\ down' \in [Conns -> Seq(Frames)]
       /\ \A c \in Conns : down'[c] = << >>
  BY <1>1, <1>3, <1>5, <1>7
<1>11. /\ up' \in [Conns -> Seq(Frames)]
       /\ up'[old] = up[old] \o Polled(Two)
       /\ up'[new] = << x >>
       /\ \A c \in Conns : c \notin {old, new} => up'[c] = up[c]
  <2>. DEFINE w == up[old] \o Polled(Two)
  <2>1. up' = [up EXCEPT ![old] = w, ![new] = << x >>] /\ w \in Seq(Frames)
    BY <1>1, <1>8
  <2>. HIDE DEF w, x, old, new
  <2>2. /\ up' \in [Conns -> Seq(Frames)]
        /\ up'[old] = w
        /\ up'[new] = << x >>
        /\ \A c \in Conns : c \notin {old, new} => up'[c] = up[c]
    BY <1>3, <1>5, <1>7, <2>1
  <2>. QED
    BY <2>2 DEF w, x, old, new
<1>. QED
  BY <1>1, <1>3, <1>4, <1>8, <1>9, <1>10, <1>11 DEF Restarted

\* A client that drops its connection leaves only frames behind on it.
LEMMA TestReconnKeeps ==
  ASSUME ProgramInv, test_reconn
  PROVE  ProgramInv'
<1>. DEFINE old == client.so
            new == client.so + 1
            x == Command("RECONN_HANDSHAKE_1")
            T == disable_session(pollout(Two))
<1>1. /\ old \in Conns /\ new \in Conns /\ new # old
      /\ client.need_reconn = 1
      /\ client' = Restarted /\ Restarted \in Clients
      /\ Restarted.so = new /\ ~Restarted.enable /\ ~Restarted.handshake_succ
      /\ Restarted.need_reconn # False /\ Restarted.need_reconn = 0
      /\ sess' = [sess EXCEPT !["client"] = T]
      /\ Range(up'[old]) = Range(up[old]) \cup Range(Polled(Two))
      /\ up'[new] = << x >>
      /\ \A c \in Conns : c \notin {old, new} => up'[c] = up[c]
      /\ up' \in [Conns -> Seq(Frames)]
      /\ \A c \in Conns : down'[c] = << >>
      /\ down' \in [Conns -> Seq(Frames)]
      /\ open' = [c \in Conns |-> c = new]
      /\ UNCHANGED << server, created, failed >>
  BY TestReconnFacts
<1>2. /\ created["client"] /\ created["server"]
  BY <1>1 DEF ProgramInv, ClientOK, False
<1>3. Sound(T) /\ T \in Session
  <2>1. Sound(pollout(Two))
    BY TwoSound, PolloutSound
  <2>. QED
    BY <2>1, DisableSound DEF Sound
<1>. HIDE DEF T
<1>4. sess'["client"] = T /\ sess'["server"] = sess["server"] /\ sess' \in [Ends -> Session]
  <2>1. sess \in [Ends -> Session] /\ "client" \in Ends /\ "server" \in Ends
    BY DEF ProgramInv, SessionsOK, Ends
  <2>. QED
    BY <1>1, <1>3, <2>1
<1>5. ClientOK'
  BY <1>1, <1>2 DEF ClientOK
<1>6. ServerOK'
  <2>1. server.accepted \in Nat /\ old \in Nat /\ server.accepted <= old
    BY InvFacts
  <2>2. client'.so = old + 1
    BY <1>1
  <2>3. server.accepted <= client'.so
    BY <2>1, <2>2
  <2>. QED
    BY <1>1, <1>4, <2>3 DEF ProgramInv, ServerOK
<1>7. SessionsOK'
  BY <1>1, <1>3, <1>4 DEF ProgramInv, SessionsOK
<1>8. UpOK'
  <2>1. \A y \in Range(Polled(Two)) : y.kind = "rdt"
    BY TwoSound, PolledFrames
  <2>2. Range(<< x >>) = {x}
    BY FramesIn
  <2>3. new # 1 /\ x \in UpCommands(new)
    <3>1. old \in Nat \ {0}
      BY InvFacts
    <3>2. new # 1
      BY <3>1
    <3>. QED
      BY <3>2 DEF UpCommands
  <2>. HIDE DEF x, old, new
  <2>4. \A d \in Conns : \A y \in Range(up[d]) : y.kind = "command" => y \in UpCommands(d)
    BY DEF ProgramInv, UpOK
  <2>5. ASSUME NEW d \in Conns, NEW y \in Range(up'[d]), y.kind = "command"
        PROVE  y \in UpCommands(d)
    <3>1. CASE d = new
      BY <1>1, <2>2, <2>3, <2>5, <3>1
    <3>2. CASE d = old
      BY <1>1, <2>1, <2>4, <2>5, <3>2
    <3>3. CASE d \notin {old, new}
      BY <1>1, <2>4, <2>5, <3>3
    <3>. QED
      BY <3>1, <3>2, <3>3
  <2>. QED
    BY <1>1, <2>5 DEF UpOK, UpCommands
<1>9. DownOK'
  <2>1. client'.so = new /\ client'.so \notin server.fd2rdt
    <3>1. old \in Nat /\ server.accepted \in Nat /\ server.accepted <= old
      BY InvFacts
    <3>2. server.fd2rdt \subseteq 1 .. server.accepted
      BY DEF ProgramInv, ServerOK
    <3>. QED
      BY <1>1, <3>1, <3>2
  <2>2. Range(<< >>) = {}
    BY FramesIn
  <2>. QED
    BY <1>1, <2>1, <2>2 DEF DownOK, DownFits
<1>. QED
  BY <1>5, <1>6, <1>7, <1>8, <1>9 DEF ProgramInv

\* The programs' first state.
LEMMA InitProgram ==
  ASSUME ProgramsAssumption, Init
  PROVE  ProgramInv
<1>1. 1 \in Conns /\ MaxConns \in Nat \ {0} /\ ReconnAfter \in Nat
  BY DEF ProgramsAssumption, Conns
<1>2. Sound(rdts_create) /\ rdts_create \in Session /\ rdts_create.enable
  BY CreateSound DEF Sound, rdts_create
<1>3. "client" \in Ends /\ "server" \in Ends
  BY DEF Ends
<1>. DEFINE x == Command("LOGIN")
<1>4. x \in Frames /\ x \in UpCommands(1)
  BY DEF Frames, Commands, UpCommands
<1>5. /\ << x >> \in Seq(Frames) /\ Range(<< x >>) = {x}
      /\ << >> \in Seq(Frames) /\ Range(<< >>) = {}
  <2>. HIDE DEF x
  <2>. QED
    BY <1>4, FramesIn
<1>6. ClientOK
  <2>1. client = [so |-> 1, enable |-> FALSE, handshake_succ |-> FALSE, need_reconn |-> False]
    BY DEF Init
  <2>. QED
    BY <1>1, <2>1 DEF ClientOK, Clients, False
<1>7. ServerOK
  <2>1. /\ server = [accepted |-> 0, closed |-> {}, fd2rdt |-> {}, enable |-> FALSE,
                     overlap |-> FALSE]
        /\ sess["server"] = rdts_create /\ client.so = 1
    BY <1>3 DEF Init
  <2>2. rdts_create.snd_buf = << >>
    BY DEF rdts_create
  <2>. QED
    BY <1>1, <1>2, <2>1, <2>2 DEF ServerOK, Servers
<1>8. SessionsOK
  BY <1>2, <1>3 DEF SessionsOK, Init
<1>9. UpOK
  <2>1. up = [c \in Conns |-> IF c = 1 THEN << x >> ELSE << >>]
    BY DEF Init
  <2>. HIDE DEF x
  <2>2. up \in [Conns -> Seq(Frames)]
    BY <1>5, <2>1
  <2>3. ASSUME NEW c \in Conns, NEW y \in Range(up[c]) PROVE y \in UpCommands(c)
    BY <1>4, <1>5, <2>1, <2>3
  <2>. QED
    BY <2>2, <2>3 DEF UpOK
<1>10. DownOK
  BY <1>1, <1>5 DEF DownOK, DownFits, Init
<1>. QED
  BY <1>6, <1>7, <1>8, <1>9, <1>10 DEF ProgramInv

\* A client step that does not end it.
LEMMA QuietClient ==
  ASSUME ClientNext, ~Raises
  PROVE  \/ ClientInput \/ ClientHandshake1 \/ ClientHandshake2 \/ ClientTimeout
         \/ test_reconn
BY DEF ClientNext, ClientReadsPart, ClientTimesOutEarly, ClientLosesServer, Raises, Errors, Ends

\* Every step of the programs keeps it.
LEMMA StepKeeps ==
  ASSUME ProgramInv, [Next]_vars
  PROVE  ProgramInv'
<1>0. CASE Raises
  BY <1>0, FailKeeps
<1>1. CASE ClientNext /\ ~Raises
  BY <1>1, QuietClient, ClientInputKeeps, ClientHandshake1Keeps, ClientHandshake2Keeps,
     ClientTimeoutKeeps, TestReconnKeeps
<1>2. ASSUME NEW c \in Conns,
             \/ close(c) \/ ServerInput(c) \/ ServerLogin(c)
             \/ ServerHandshake2(c) \/ ServerReconnects(c) \/ ServerOther(c),
             ~Raises
      PROVE  ProgramInv'
  BY <1>2, CloseKeeps, ServerInputKeeps, ServerLoginKeeps, ServerHandshake2Keeps,
     ServerReconnectsKeeps, ServerOtherKeeps
<1>4. CASE UNCHANGED vars
  BY <1>4 DEF vars, ProgramInv, ClientOK, ServerOK, SessionsOK, UpOK, DownOK, DownFits
<1>3. CASE ServerNext /\ ~Raises
  BY <1>2, <1>3, <1>4, AcceptKeeps, PartChangesNothing DEF ServerNext
<1>. QED
  BY <1>0, <1>1, <1>3, <1>4 DEF Next

\* Whatever connections overlap, whichever writes fail, however packets are cut and
\* however slow the first handshake is, the programs' variables agree with each
\* other: no program looks for a session it has not got, and a new connection
\* begins with its command.
THEOREM ProgramInvariance == Spec => []ProgramInv
<1>1. Init => ProgramInv
  BY InitProgram, ProgramsAssumption
<1>2. ProgramInv /\ [Next]_vars => ProgramInv'
  BY StepKeeps
<1>. QED
  BY <1>1, <1>2, PTL DEF Spec

-----------------------------------------------------------------------------
(* What follows from ProgramInv alone *)

\* All variables of rdt_client.lua and rdt_server.lua have their types, and
\* frames are commands or what rdt_poll writes.
THEOREM ProgramTypes == Spec => []TypeOK
<1>1. ProgramInv => TypeOK
  <2>. SUFFICES ASSUME ProgramInv PROVE TypeOK
    OBVIOUS
  <2>1. ASSUME NEW q \in Seq(Frames), NEW i \in DOMAIN q PROVE IsFrame(q[i])
    <3>1. q[i] \in Frames
      BY <2>1
    <3>. QED
      BY <3>1, FrameFields
  <2>2. up \in [Conns -> Seq(Frames)] /\ down \in [Conns -> Seq(Frames)]
    BY DEF ProgramInv, UpOK, DownOK, DownFits
  <2>3. /\ \A c \in Conns : \A i \in DOMAIN up[c] : IsFrame(up[c][i])
        /\ \A c \in Conns : \A i \in DOMAIN down[c] : IsFrame(down[c][i])
    BY <2>1, <2>2
  <2>4. client \in Clients /\ server \in Servers /\ sess \in [Ends -> Session]
    BY DEF ProgramInv, ClientOK, ServerOK, SessionsOK
  <2>5. failed \in [Ends -> Errors \cup {""}]
    BY DEF ProgramInv, SessionsOK
  <2>. QED
    BY <2>3, <2>4, <2>5 DEF TypeOK, Clients, Servers
<1>. QED
  BY <1>1, ProgramInvariance, PTL

-----------------------------------------------------------------------------
(* Who is read, and where the server writes, while connections do not overlap *)

\* The server reads in four of the phases, and the connection it reads is the
\* client's, or the last one while it does not know of the new one.
LEMMA ReadWhere ==
  ASSUME ProgramInv, Orderly, NEW c \in Conns, ServerReads(c)
  PROVE  \/ /\ Arriving /\ client.so # 1 /\ c = client.so - 1
            /\ Serves({c}, TRUE) /\ Rdts(up[c])
         \/ Asked /\ c = client.so
         \/ Confirmed /\ c = client.so
         \/ Both /\ c = client.so
<1>1. up[c] # << >> /\ c <= server.accepted /\ c \notin server.closed
  BY DEF ServerReads, Watched
<1>2. /\ c \in Nat \ {0} /\ server.accepted \in Nat /\ client.so \in Nat \ {0}
      /\ client.so \in Conns
  BY InvFacts
<1>3. c = server.accepted
  <2>1. c < server.accepted => c \in 1 .. server.accepted - 1
    BY <1>2
  <2>. QED
    BY <1>1, <1>2, <2>1 DEF Orderly
<1>4. CASE Arriving
  <2>1. c = client.so - 1 /\ client.so # 1
    BY <1>2, <1>3, <1>4 DEF Arriving
  <2>. QED
    BY <1>1, <1>4, <2>1 DEF Arriving
<1>5. CASE Asked \/ Confirmed \/ Both
  BY <1>3, <1>5 DEF Asked, Confirmed, Both
<1>6. CASE Told \/ Resumed
  BY <1>1, <1>3, <1>6 DEF Told, Resumed
<1>. QED
  BY <1>4, <1>5, <1>6 DEF Orderly

\* A frame given to the session is read in the first phase or the last.
LEMMA InputWhere ==
  ASSUME ProgramInv, Orderly, NEW c \in Conns, ServerReads(c), ToSession(c)
  PROVE  \/ /\ Arriving /\ client.so # 1 /\ c = client.so - 1
            /\ Serves({c}, TRUE) /\ Rdts(up[c])
         \/ Both /\ c = client.so
BY ReadWhere DEF ToSession, Asked, Confirmed, Serves

\* Anything else is a command.
LEMMA RawWhere ==
  ASSUME ProgramInv, Orderly, NEW c \in Conns, ServerReads(c), ~ToSession(c)
  PROVE  /\ c = client.so
         /\ \/ Asked /\ up[c] = << Command(IF c = 1 THEN "LOGIN" ELSE "RECONN_HANDSHAKE_1") >>
            \/ Confirmed /\ up[c] = << Command("HANDSHAKE_2") >>
BY ReadWhere DEF ToSession, Asked, Confirmed, Both, Serves

\* The client reads in three.
LEMMA ReadingWhere ==
  ASSUME Orderly, down[client.so] # << >>
  PROVE  Told \/ Resumed \/ Both
BY DEF Orderly, Arriving, Asked, Confirmed

\* The frames the server adds to what was D, for the client: T's packets, and
\* the reply to msgs.
ToClient(D, T, msgs) ==
    LET so == client.so
    IN  \E fs \in Seq(Frames) :
           /\ down'[so] = D[so] \o fs
           /\ Range(down'[so]) = Range(D[so]) \cup Range(fs)
           /\ \A x \in Range(fs) :
                 /\ x.kind = "rdt"
                 /\ x.pkts = T.snd_buf \/ (msgs # << >> /\ AcksUpTo(x.pkts, 0))

\* The session's only connection is the client's: it gets what the server writes.
LEMMA PollsToClient ==
  ASSUME ProgramInv, NEW V, NEW T, Sound(T), T.enable, NEW msgs,
         NEW D \in [Conns -> Seq(Frames)],
         ServerPolls(V, T, msgs, D), V.enable, V.fd2rdt = {client.so}, Watched(client.so)
  PROVE  /\ server' = V /\ failed' = failed
         /\ sess'["client"] = sess["client"]
         /\ sess'["server"].snd_buf = << >>
         /\ sess'["server"].rcv_raw_offset = T.rcv_raw_offset
         /\ sess'["server"].received = T.received
         /\ ToClient(D, T, msgs)
<1>. DEFINE so == client.so
<1>1. /\ so \in Conns /\ open[so]
      /\ sess \in [Ends -> Session] /\ Ends = {"client", "server"}
  BY InvFacts DEF ProgramInv, SessionsOK, Ends
<1>2. ServerWrites(V, T, msgs, D)
  <2>1. ServerWrites(V, T, msgs, D) \/ ServerFails(V) \/ ServerIdles(V, T, D)
    BY ServerPollsCases
  <2>. QED
    BY <1>1, <2>1 DEF ServerFails, ServerIdles
<1>3. server' = V /\ failed' = failed
  BY <1>2 DEF ServerWrites
<1>4. PICK Z \in Session, fs \in Seq(Frames) :
          /\ Z.snd_buf = << >>
          /\ Z.rcv_raw_offset = T.rcv_raw_offset /\ Z.received = T.received
          /\ sess' = [sess EXCEPT !["server"] = Z]
          /\ down' = Written(D, so, fs)
          /\ \A x \in Range(fs) :
                /\ x.kind = "rdt"
                /\ x.pkts = T.snd_buf \/ (msgs # << >> /\ AcksUpTo(x.pkts, 0))
  BY <1>2 DEF ServerWrites
<1>5. down'[so] = D[so] \o fs
  BY <1>1, <1>4 DEF Written
<1>6. Range(D[so] \o fs) = Range(D[so]) \cup Range(fs)
  <2>1. D[so] \in Seq(Frames)
    BY <1>1
  <2>. QED
    BY <1>4, <2>1, FramesIn
<1>7. sess'["client"] = sess["client"] /\ sess'["server"] = Z
  BY <1>1, <1>4
<1>8. ToClient(D, T, msgs)
  BY <1>4, <1>5, <1>6 DEF ToClient
<1>. QED
  BY <1>3, <1>4, <1>7, <1>8

\* It has only the last one, which is closed at the other end: what the server
\* writes goes nowhere, or ends it.
LEMMA PollsAway ==
  ASSUME ProgramInv, NEW T, Sound(T), T.enable, NEW msgs,
         ServerPolls(server, T, msgs, down), client.so \notin server.fd2rdt
  PROVE  /\ server' = server /\ down' = down
         /\ sess'["client"] = sess["client"]
         /\ \/ ~Runs("server")' /\ sess' = sess
            \/ /\ failed' = failed
               /\ sess'["server"].snd_buf = << >> \/ sess'["server"].snd_buf = T.snd_buf
               /\ server.fd2rdt # {} /\ server.enable => sess'["server"].snd_buf = << >>
               /\ sess'["server"].rcv_raw_offset = T.rcv_raw_offset
               /\ sess'["server"].received = T.received
<1>1. /\ sess \in [Ends -> Session] /\ Ends = {"client", "server"}
      /\ failed \in [Ends -> Errors \cup {""}] /\ server.fd2rdt \subseteq Conns
      /\ \A c \in Conns : open[c] = (c = client.so)
  BY InvFacts DEF ProgramInv, SessionsOK, Ends, ServerOK
<1>2. ServerWrites(server, T, msgs, down) \/ ServerFails(server) \/ ServerIdles(server, T, down)
  <2>1. \A d \in server.fd2rdt : Watched(d)
    BY InvFacts DEF ProgramInv, ServerOK, Watched
  <2>. QED
    BY <2>1, ServerPollsCases
<1>3. CASE ServerWrites(server, T, msgs, down)
  <2>1. PICK d \in server.fd2rdt, Z \in Session, fs \in Seq(Frames) :
          /\ Z.snd_buf = << >>
          /\ Z.rcv_raw_offset = T.rcv_raw_offset /\ Z.received = T.received
          /\ sess' = [sess EXCEPT !["server"] = Z]
          /\ down' = Written(down, d, fs)
    BY <1>3 DEF ServerWrites
  <2>2. down' = down
    BY <1>1, <2>1 DEF Written
  <2>3. sess'["client"] = sess["client"] /\ sess'["server"] = Z
    BY <1>1, <2>1
  <2>. QED
    BY <1>3, <2>1, <2>2, <2>3 DEF ServerWrites
<1>4. CASE ServerFails(server)
  BY <1>1, <1>4 DEF ServerFails, ServerEnds, Runs
<1>5. CASE ServerIdles(server, T, down)
  BY <1>1, <1>5 DEF ServerIdles
<1>. QED
  BY <1>2, <1>3, <1>4, <1>5

-----------------------------------------------------------------------------
(* OrderlyInv is invariant *)

\* In five phases the server has accepted the client's connection.
LEMMA Accepted ==
  ASSUME Asked \/ Told \/ Confirmed \/ Resumed \/ Both
  PROVE  server.accepted = client.so
<1>1. CASE Asked
  BY <1>1 DEF Asked
<1>2. CASE Told \/ Confirmed
  BY <1>2 DEF Told, Confirmed
<1>3. CASE Resumed \/ Both
  BY <1>3 DEF Resumed, Both
<1>. QED
  BY <1>1, <1>2, <1>3

\* The order of the connections accepted so far does not change with the client.
LEMMA OrderOf ==
  ASSUME Orderly, server'.accepted = server.accepted, server'.closed = server.closed
  PROVE  \A c \in 1 .. server'.accepted - 1 : c \in server'.closed
BY DEF Orderly

\* A program that ends with an error leaves the order.
LEMMA FailOrder ==
  ASSUME Orderly, Raises
  PROVE  Orderly'
BY DEF Raises, Fail, Orderly, Arriving, Asked, Told, Confirmed, Resumed, Both, Serves

\* A connection accepted when the last one has ended.
LEMMA AcceptOrder ==
  ASSUME ProgramInv, Orderly, accept, ~server'.overlap
  PROVE  Orderly'
<1>1. /\ server.accepted < client.so
      /\ server' = [server EXCEPT
           !.accepted = @ + 1,
           !.overlap  = @ \/ ~(1 .. server.accepted \subseteq server.closed)]
      /\ UNCHANGED << client, up, down >>
  BY DEF accept
<1>2. /\ server \in Servers /\ client \in Clients
      /\ server.fd2rdt \subseteq (1 .. server.accepted) \ server.closed
      /\ client.need_reconn > 0 => client.handshake_succ
  BY DEF ProgramInv, ServerOK, ClientOK, Orderly
<1>3. /\ server'.accepted = server.accepted + 1 /\ server'.closed = server.closed
      /\ server'.fd2rdt = server.fd2rdt /\ server'.enable = server.enable
      /\ server'.overlap = (server.overlap \/ ~(1 .. server.accepted \subseteq server.closed))
  BY <1>1, <1>2 DEF Servers
<1>4. 1 .. server.accepted \subseteq server.closed /\ server.fd2rdt = {}
  BY <1>2, <1>3
<1>5. server.accepted \in Nat /\ client.so \in Nat
  BY InvFacts
<1>6. Arriving
  BY <1>1, <1>5, Accepted DEF Orderly
<1>7. ~client.handshake_succ
  BY <1>5, <1>6 DEF Orderly, Arriving, Both
<1>8. Asked'
  <2>1. /\ server.accepted = client.so - 1 /\ ~client.enable
        /\ up[client.so] = << Command(IF client.so = 1 THEN "LOGIN" ELSE "RECONN_HANDSHAKE_1") >>
        /\ down[client.so] = << >>
        /\ server.enable = FALSE
    BY <1>4, <1>6 DEF Arriving, Serves
  <2>2. server'.accepted = client.so
    BY <1>3, <1>5, <2>1
  <2>. QED
    BY <1>1, <1>3, <1>4, <2>1, <2>2 DEF Asked, Serves
<1>9. \A c \in 1 .. server'.accepted - 1 : c \in server'.closed
  BY <1>3, <1>4, <1>5
<1>. QED
  BY <1>1, <1>2, <1>7, <1>8, <1>9 DEF Orderly

\* The end of a connection is seen while the next one has not been accepted.
LEMMA CloseWhere ==
  ASSUME ProgramInv, Orderly, NEW c \in Conns, close(c)
  PROVE  /\ Arriving /\ Serves({c}, TRUE) /\ Rdts(up[c])
         /\ client.so # 1 /\ c = client.so - 1
         /\ server'.accepted = server.accepted
         /\ server'.closed = server.closed \cup {c}
         /\ server'.fd2rdt = {} /\ server'.enable = FALSE
         /\ server'.overlap = server.overlap
         /\ \A d \in Conns : d # c => up'[d] = up[d]
<1>1. /\ c <= server.accepted /\ c \notin server.closed /\ ~open[c]
      /\ server' = [server EXCEPT !.closed = @ \cup {c},
                                  !.fd2rdt = @ \ {c},
                                  !.enable = @ /\ c \notin server.fd2rdt]
      /\ up' = [up EXCEPT ![c] = << >>]
  BY DEF close, Watched
<1>2. /\ c \in Nat \ {0} /\ c # client.so
      /\ server.accepted \in Nat /\ client.so \in Nat \ {0}
      /\ server \in Servers /\ up \in [Conns -> Seq(Frames)]
  BY <1>1, InvFacts DEF ProgramInv, ServerOK, UpOK
<1>3. c = server.accepted
  <2>1. c < server.accepted => c \in 1 .. server.accepted - 1
    BY <1>2
  <2>. QED
    BY <1>1, <1>2, <2>1 DEF Orderly
<1>4. Arriving
  BY <1>2, <1>3, Accepted DEF Orderly
<1>5. client.so # 1 /\ c = client.so - 1
  BY <1>2, <1>3, <1>4 DEF Arriving
<1>6. Serves({c}, TRUE) /\ Rdts(up[c])
  BY <1>1, <1>4, <1>5 DEF Arriving
<1>7. /\ server'.accepted = server.accepted /\ server'.closed = server.closed \cup {c}
      /\ server'.fd2rdt = server.fd2rdt \ {c}
      /\ server'.enable = (server.enable /\ c \notin server.fd2rdt)
      /\ server'.overlap = server.overlap
  BY <1>1, <1>2 DEF Servers
<1>8. server'.fd2rdt = {} /\ server'.enable = FALSE
  BY <1>6, <1>7 DEF Serves
<1>9. \A d \in Conns : d # c => up'[d] = up[d]
  BY <1>1, <1>2
<1>. QED
  BY <1>4, <1>5, <1>6, <1>7, <1>8, <1>9

\* A close is of the connection before the last.
LEMMA CloseOrder ==
  ASSUME ProgramInv, Orderly, NEW c \in Conns, close(c)
  PROVE  Orderly'
<1>1. client' = client /\ down' = down
  BY DEF close
<1>2. /\ Arriving /\ client.so # 1 /\ c = client.so - 1
      /\ server'.accepted = server.accepted /\ server'.closed = server.closed \cup {c}
      /\ server'.fd2rdt = {} /\ server'.enable = FALSE
      /\ \A d \in Conns : d # c => up'[d] = up[d]
  BY CloseWhere
<1>3. client.so \in Conns /\ client.so \in Nat \ {0} /\ c # client.so
  BY <1>2, InvFacts
<1>4. Arriving'
  BY <1>1, <1>2, <1>3 DEF Arriving, Serves
<1>5. ~client.handshake_succ
  BY <1>2, <1>3 DEF Orderly, Arriving, Both
<1>. QED
  BY <1>1, <1>2, <1>4, <1>5 DEF Orderly

\* The rest of what was under way on the last connection, or a frame on the
\* client's.
LEMMA ServerInputOrder ==
  ASSUME ProgramInv, Orderly, NEW c \in Conns, ServerInput(c)
  PROVE  Orderly'
<1>. DEFINE S == sess["server"]
            T == rdts_input(S, up[c][1].pkts)
            m == MessagesIn(S, T)
            so == client.so
<1>1. /\ ServerReads(c) /\ ToSession(c) /\ client' = client /\ up[c] # << >>
      /\ up' = [up EXCEPT ![c] = Tail(@)]
      /\ ServerPolls(server, T, m, down)
  BY ServerInputFacts DEF ServerTakes, ServerReads
<1>2. /\ up \in [Conns -> Seq(Frames)] /\ down \in [Conns -> Seq(Frames)]
      /\ so \in Conns /\ so \in Nat \ {0} /\ Sound(S) /\ S.enable
  BY InvFacts DEF ProgramInv, ServerOK, UpOK, DownOK, DownFits
<1>3. Sound(T) /\ T.enable
  <2>1. up[c][1].pkts \in Seq(Packet)
    BY <1>1, UpTail, FrameFields
  <2>. HIDE DEF S
  <2>. QED
    BY <1>2, <2>1, InputSound
<1>4. /\ up'[c] = Tail(up[c]) /\ Range(up'[c]) \subseteq Range(up[c])
      /\ \A d \in Conns : d # c => up'[d] = up[d]
  <2>1. up[c] \in Seq(Frames)
    BY <1>2
  <2>. QED
    BY <1>1, <1>2, <2>1, FramesIn
<1>. HIDE DEF T, m, S
<1>5. ASSUME Arriving, so # 1, c = so - 1, Serves({c}, TRUE), Rdts(up[c])
      PROVE  Orderly'
  <2>1. so # c /\ so \notin server.fd2rdt
    BY <1>2, <1>5 DEF Serves
  <2>2. server' = server /\ down' = down
    BY <1>1, <1>3, <2>1, PollsAway
  <2>3. Arriving'
    BY <1>1, <1>2, <1>4, <1>5, <2>1, <2>2 DEF Arriving, Serves, Rdts
  <2>4. ~client.handshake_succ
    BY <1>2, <1>5 DEF Orderly, Arriving, Both
  <2>. QED
    BY <1>1, <2>2, <2>3, <2>4 DEF Orderly
<1>6. ASSUME Both, c = so
      PROVE  Orderly'
  <2>. HIDE DEF so
  <2>1. server.enable /\ server.fd2rdt = {so} /\ so = client.so
    BY <1>6 DEF Both, Serves, so
  <2>2. /\ ServerPolls(server, T, m, down) /\ Sound(T) /\ T.enable
        /\ down \in [Conns -> Seq(Frames)]
        /\ server.enable /\ server.fd2rdt = {client.so} /\ Watched(client.so)
    BY <1>1, <1>2, <1>3, <1>6, <2>1 DEF ServerReads
  <2>3. server' = server /\ ToClient(down, T, m)
    BY <2>2, PollsToClient
  <2>4. Rdts(down'[so])
    BY <1>6, <2>1, <2>3 DEF Both, Rdts, ToClient
  <2>5. Both'
    BY <1>1, <1>4, <1>6, <2>1, <2>3, <2>4 DEF Both, Serves, Rdts
  <2>. QED
    BY <1>1, <2>3, <2>5 DEF Orderly
<1>. QED
  BY <1>1, <1>5, <1>6, InputWhere

\* No frame is read as a command.
LEMMA NoOther ==
  ASSUME ProgramInv, Orderly, NEW c \in Conns
  PROVE  ~ServerOther(c)
<1>. SUFFICES ASSUME ServerOther(c) PROVE FALSE
  OBVIOUS
<1>1. ServerReads(c) /\ ~ToSession(c) /\ up[c][1].kind = "rdt"
  BY DEF ServerOther
<1>2. \E cmd : up[c] = << Command(cmd) >>
  BY <1>1, RawWhere
<1>. QED
  BY <1>1, <1>2 DEF Command

\* The command of the first phase of a connection, read.
LEMMA CommandRead ==
  ASSUME ProgramInv, Orderly, NEW c \in Conns, NEW cmd, RawCommand(c, cmd), ServerTakes(c)
  PROVE  /\ c = client.so /\ up'[c] = << >>
         /\ \A d \in Conns : d # c => up'[d] = up[d]
         /\ cmd = "HANDSHAKE_2" => Confirmed
         /\ cmd = "LOGIN" => Asked /\ c = 1
         /\ cmd = "RECONN_HANDSHAKE_1" => Asked /\ c # 1
<1>1. /\ ServerReads(c) /\ ~ToSession(c) /\ up[c][1] = Command(cmd)
      /\ up' = [up EXCEPT ![c] = Tail(@)] /\ up \in [Conns -> Seq(Frames)]
  BY DEF RawCommand, ServerTakes, ProgramInv, UpOK
<1>2. /\ c = client.so
      /\ \/ Asked /\ up[c] = << Command(IF c = 1 THEN "LOGIN" ELSE "RECONN_HANDSHAKE_1") >>
         \/ Confirmed /\ up[c] = << Command("HANDSHAKE_2") >>
  BY <1>1, RawWhere
<1>3. PICK x : up[c] = << x >>
  BY <1>2
<1>4. Tail(up[c]) = << >> /\ up[c][1] = x
  BY <1>3
<1>5. up'[c] = << >> /\ \A d \in Conns : d # c => up'[d] = up[d]
  BY <1>1, <1>4
<1>6. \/ Asked /\ cmd = IF c = 1 THEN "LOGIN" ELSE "RECONN_HANDSHAKE_1"
      \/ Confirmed /\ cmd = "HANDSHAKE_2"
  BY <1>1, <1>2 DEF Command
<1>. QED
  BY <1>2, <1>5, <1>6

\* A command written for the client, with nothing before it.
LEMMA FirstWritten ==
  ASSUME ProgramInv, NEW fs \in Seq(Frames), down[client.so] = << >>
  PROVE  /\ Written(down, client.so, fs) \in [Conns -> Seq(Frames)]
         /\ Written(down, client.so, fs)[client.so] = fs
<1>1. /\ client.so \in Conns /\ open[client.so]
      /\ down \in [Conns -> Seq(Frames)]
  BY InvFacts DEF ProgramInv, DownOK, DownFits
<1>2. Written(down, client.so, fs) = [down EXCEPT ![client.so] = @ \o fs]
  BY <1>1 DEF Written
<1>3. << >> \o fs = fs
  OBVIOUS
<1>. QED
  BY <1>1, <1>2, <1>3

\* LOGIN: the answer, and no session yet.
LEMMA ServerLoginOrder ==
  ASSUME ProgramInv, Orderly, NEW c \in Conns, ServerLogin(c), ~Raises
  PROVE  Orderly' /\ Told'
<1>. DEFINE V == [server EXCEPT !.fd2rdt = @ \cup {c}, !.enable = FALSE]
            x == Command("HANDSHAKE_1")
<1>1. /\ RawCommand(c, "LOGIN") /\ ServerTakes(c) /\ client' = client
      /\ ServerPolls(V, sess["server"], << >>, Written(down, c, << x >>))
  BY DEF ServerLogin, AnswerFails, Raises, Errors, Ends
<1>2. c = client.so /\ c = 1 /\ Asked /\ up'[c] = << >>
  BY <1>1, CommandRead
<1>3. server \in Servers
  BY DEF ProgramInv, ServerOK
<1>4. /\ V.accepted = server.accepted /\ V.closed = server.closed
      /\ V.fd2rdt = server.fd2rdt \cup {c} /\ V.enable = FALSE
  BY <1>3 DEF Servers
<1>5. << x >> \in Seq(Frames)
  BY DEF Frames, Commands
<1>. HIDE DEF V
<1>6. server' = V /\ down' = Written(down, c, << x >>)
  BY <1>1, <1>4 DEF ServerPolls
<1>7. down[c] = << >> /\ server.fd2rdt = {} /\ ~client.enable /\ server.accepted = 1
  BY <1>2 DEF Asked, Serves
<1>8. down'[1] = << x >>
  BY <1>2, <1>5, <1>6, <1>7, FirstWritten
<1>9. Told'
  BY <1>1, <1>2, <1>4, <1>6, <1>7, <1>8 DEF Told, Serves
<1>10. ~client.handshake_succ
  BY <1>7 DEF Orderly, Both
<1>. QED
  BY <1>1, <1>4, <1>6, <1>9, <1>10 DEF Orderly

\* HANDSHAKE_2: the session, which begins with HANDSHAKE_3.
LEMMA ServerHandshake2Order ==
  ASSUME ProgramInv, Orderly, NEW c \in Conns, ServerHandshake2(c), ~Raises
  PROVE  Orderly'
<1>. DEFINE V == [server EXCEPT !.enable = TRUE]
            T == rdts_send(rdts_create, 1)
<1>1. /\ RawCommand(c, "HANDSHAKE_2") /\ ServerTakes(c) /\ client' = client
      /\ ServerPolls(V, T, << >>, down)
  BY DEF ServerHandshake2, Raises, Errors, Ends
<1>2. c = client.so /\ Confirmed /\ up'[c] = << >> /\ Watched(client.so)
  BY <1>1, CommandRead DEF RawCommand, ServerReads
<1>3. server \in Servers /\ down \in [Conns -> Seq(Frames)]
  BY DEF ProgramInv, ServerOK, DownOK, DownFits
<1>4. /\ V.accepted = server.accepted /\ V.closed = server.closed
      /\ V.fd2rdt = server.fd2rdt /\ V.enable
  BY <1>3 DEF Servers
<1>5. Sound(T) /\ T.enable
  <2>1. Sound(rdts_create) /\ rdts_create.enable /\ 1 \in Nat \ {0}
    BY CreateSound DEF rdts_create
  <2>. QED
    BY <2>1, SendSound
<1>6. /\ c = 1 /\ client.enable /\ down[1] = << >> /\ server.accepted = 1
      /\ server.fd2rdt = {client.so}
  BY <1>2 DEF Confirmed, Serves
<1>. HIDE DEF V, T
<1>7. server' = V /\ ToClient(down, T, << >>)
  BY <1>1, <1>2, <1>3, <1>4, <1>5, <1>6, PollsToClient
<1>8. Rdts(down'[1]) /\ Rdts(up'[1])
  <2>1. Range(<< >>) = {}
    BY FramesIn
  <2>. QED
    BY <1>2, <1>6, <1>7, <2>1 DEF ToClient, Rdts
<1>9. Both'
  BY <1>1, <1>2, <1>4, <1>6, <1>7, <1>8 DEF Both, Serves
<1>10. client.need_reconn > 0 => client.handshake_succ
  BY DEF Orderly
<1>. QED
  BY <1>1, <1>4, <1>7, <1>9, <1>10, OrderOf DEF Orderly

\* RECONN_HANDSHAKE_1: the session on its new connection.
LEMMA ServerReconnectsOrder ==
  ASSUME ProgramInv, Orderly, NEW c \in Conns, ServerReconnects(c), ~Raises
  PROVE  Orderly'
<1>. DEFINE S == sess["server"]
            B == disable_session(S)
            T == reconnect_session(B)
            P == pollout(T)
            V == Serve(server, c)
            x == Command("RECONN_HANDSHAKE_2")
            fs == << x >> \o Polled(T)
            D == Written(down, c, fs)
<1>1. /\ RawCommand(c, "RECONN_HANDSHAKE_1") /\ HasSession("server")
  BY ServerHasSession DEF ServerReconnects
<1>2. /\ ServerTakes(c) /\ client' = client
      /\ ServerPolls(V, P, << >>, D)
  BY <1>1 DEF ServerReconnects, AnswerFails, Raises, Errors, Ends
<1>3. c = client.so /\ c # 1 /\ Asked /\ up'[c] = << >> /\ Watched(c)
  BY <1>1, <1>2, CommandRead DEF RawCommand, ServerReads
<1>4. server \in Servers /\ Sound(S)
  BY DEF ProgramInv, ServerOK, SessionsOK
<1>5. /\ V.accepted = server.accepted /\ V.closed = server.closed
      /\ V.fd2rdt = server.fd2rdt \cup {c} /\ V.enable
  BY <1>4 DEF Servers, Serve
<1>6. Sound(T) /\ Sound(P) /\ P.enable
  <2>1. Sound(B)
    <3>. HIDE DEF S
    <3>. QED
      BY <1>4, DisableSound
  <2>2. Sound(T) /\ T.enable
    <3>. HIDE DEF B
    <3>. QED
      BY <2>1, ReconnectSound
  <2>. HIDE DEF T
  <2>. QED
    BY <2>2, PolloutSound
<1>7. /\ down[c] = << >> /\ ~client.enable /\ server.accepted = client.so
      /\ server.fd2rdt = {}
  BY <1>3 DEF Asked, Serves
<1>. HIDE DEF V, T, P, S, B
<1>8. Polled(T) \in Seq(Frames) /\ \A y \in Range(Polled(T)) : y.kind = "rdt"
  BY <1>6, PolledFrames
<1>9. x \in Frames /\ << x >> \in Seq(Frames)
  BY DEF Frames, Commands
<1>. HIDE DEF x
<1>10. fs \in Seq(Frames)
  BY <1>8, <1>9
<1>11. D \in [Conns -> Seq(Frames)] /\ D[client.so] = fs
  BY <1>3, <1>7, <1>10, FirstWritten
<1>. HIDE DEF D, fs
<1>12. server' = V /\ ToClient(D, P, << >>)
  BY <1>2, <1>3, <1>5, <1>6, <1>7, <1>11, PollsToClient
<1>13. PICK gs \in Seq(Frames) :
          down'[c] = fs \o gs /\ \A y \in Range(gs) : y.kind = "rdt"
  BY <1>3, <1>11, <1>12 DEF ToClient
<1>14. /\ down'[c] = << x >> \o (Polled(T) \o gs)
       /\ Polled(T) \o gs \in Seq(Frames)
       /\ \A y \in Range(Polled(T) \o gs) : y.kind = "rdt"
  <2>1. Polled(T) \o gs \in Seq(Frames)
        /\ Range(Polled(T) \o gs) = Range(Polled(T)) \cup Range(gs)
    BY <1>8, FramesIn
  <2>2. (<< x >> \o Polled(T)) \o gs = << x >> \o (Polled(T) \o gs)
    BY <1>8, <1>9
  <2>. QED
    BY <1>8, <1>13, <2>1, <2>2 DEF fs
<1>15. down'[c] # << >> /\ down'[c][1] = x /\ Tail(down'[c]) = Polled(T) \o gs
  <2>. DEFINE r == Polled(T) \o gs
  <2>1. r \in Seq(Frames) /\ down'[c] = << x >> \o r
    BY <1>14
  <2>. HIDE DEF r
  <2>2. (<< x >> \o r)[1] = x /\ Tail(<< x >> \o r) = r /\ << x >> \o r # << >>
    BY <1>9, <2>1
  <2>. QED
    BY <2>1, <2>2 DEF r
<1>16. Rdts(Tail(down'[c]))
  BY <1>14, <1>15 DEF Rdts
<1>17. Resumed'
  BY <1>2, <1>3, <1>5, <1>7, <1>12, <1>15, <1>16 DEF Resumed, Serves, x
<1>18. ~client.handshake_succ /\ (client.need_reconn > 0 => client.handshake_succ)
  BY <1>7 DEF Orderly, Both
<1>. QED
  BY <1>2, <1>5, <1>12, <1>17, <1>18, OrderOf DEF Orderly

\* The client's polls write frames behind what is under way.
LEMMA ClientInputOrder ==
  ASSUME ProgramInv, Orderly, ClientInput
  PROVE  Orderly'
<1>. DEFINE S == sess["client"]
            T == rdts_input(S, Reading.pkts)
            C == IF CalledBack(S, T) THEN Reconnected(client) ELSE client
            m == MessagesIn(S, T)
            won == \E i \in DOMAIN m : m[i] = 1
            so == client.so
<1>1. /\ ClientPolls(C, T, m, << >>)
      /\ ClientTakes /\ down[so] # << >> /\ client.enable /\ Sound(T)
  BY ClientInputFacts
<1>2. /\ client \in Clients /\ ReconnAfter \in Nat
      /\ up \in [Conns -> Seq(Frames)] /\ so \in Conns
  BY InvFacts, ProgramsAssumption DEF ProgramInv, ClientOK, UpOK, ProgramsAssumption
<1>3. Both
  BY <1>1, ReadingWhere DEF Told, Resumed
<1>4. /\ C.so = so /\ C.enable = client.enable
      /\ C.need_reconn > 0 => C.handshake_succ
  BY <1>2 DEF Reconnected, Clients, Orderly
<1>5. C \in Clients
  <2>1. ReconnAfter \in {False} \cup 0 .. ReconnAfter
    BY <1>2
  <2>2. Reconnected(client) \in Clients
    BY <1>2, <2>1 DEF Reconnected, Clients
  <2>. QED
    BY <1>2, <2>2
<1>. HIDE DEF C, T, m
<1>6. /\ client' = IF won THEN [C EXCEPT !.handshake_succ = TRUE, !.need_reconn = ReconnAfter] ELSE C
      /\ up' = [up EXCEPT ![C.so] = @ \o << >> \o Polled(T)]
      /\ server' = server
  BY <1>1 DEF ClientPolls
<1>. HIDE DEF won
<1>7. /\ client'.so = so /\ client'.enable
      /\ client'.need_reconn > 0 => client'.handshake_succ
  BY <1>1, <1>4, <1>5, <1>6 DEF Clients
<1>8. Rdts(up'[so])
  <2>1. Polled(T) \in Seq(Frames) /\ \A x \in Range(Polled(T)) : x.kind = "rdt"
    BY <1>1, PolledFrames
  <2>. DEFINE q == up[so]
              p == Polled(T)
  <2>2. q \in Seq(Frames) /\ p \in Seq(Frames)
    BY <1>2, <2>1
  <2>3. up'[so] = q \o << >> \o p
    BY <1>2, <1>4, <1>6
  <2>. HIDE DEF q, p
  <2>4. q \o << >> \o p = q \o p
    BY <2>2
  <2>5. Range(q \o p) = Range(q) \cup Range(p)
    BY <2>2, FramesIn
  <2>. QED
    BY <1>3, <2>1, <2>3, <2>4, <2>5 DEF q, p, Rdts, Both
<1>9. Rdts(down'[so])
  BY <1>1, <1>3, DownTail DEF Rdts, Both
<1>10. Both'
  BY <1>3, <1>6, <1>7, <1>8, <1>9 DEF Both, Serves
<1>. QED
  BY <1>6, <1>7, <1>10, OrderOf DEF Orderly

\* HANDSHAKE_1: the session, and HANDSHAKE_2.
LEMMA ClientHandshake1Order ==
  ASSUME ProgramInv, Orderly, ClientHandshake1
  PROVE  Orderly'
<1>. DEFINE C == [client EXCEPT !.enable = TRUE]
            x == Command("HANDSHAKE_2")
<1>1. /\ client.so = 1 /\ ~client.enable /\ down[1] # << >>
      /\ ClientTakes
      /\ ClientPolls(C, rdts_create, << >>, << x >>)
      /\ C.so = client.so /\ C.enable
      /\ C.handshake_succ = client.handshake_succ /\ C.need_reconn = client.need_reconn
  BY ClientHandshake1Facts
<1>2. Told
  BY <1>1, ReadingWhere DEF Both, Resumed
<1>3. up \in [Conns -> Seq(Frames)] /\ down \in [Conns -> Seq(Frames)] /\ 1 \in Conns
  BY <1>1, InvFacts DEF ProgramInv, UpOK, DownOK, DownFits
<1>4. Polled(rdts_create) = << >>
  BY DEF Polled, rdts_create
<1>. HIDE DEF C
<1>5. /\ client' = C /\ server' = server
      /\ up' = [up EXCEPT ![C.so] = @ \o << x >> \o Polled(rdts_create)]
  BY <1>1 DEF ClientPolls
<1>6. up'[1] = << x >>
  <2>1. << >> \o << x >> \o << >> = << x >>
    OBVIOUS
  <2>2. up[1] = << >>
    BY <1>2 DEF Told
  <2>. QED
    BY <1>1, <1>3, <1>4, <1>5, <2>1, <2>2
<1>7. down'[1] = << >>
  <2>1. Tail(down[1]) = << >>
    BY <1>2 DEF Told
  <2>. QED
    BY <1>1, <1>3, <2>1 DEF ClientTakes
<1>8. Confirmed'
  BY <1>1, <1>2, <1>5, <1>6, <1>7 DEF Told, Confirmed, Serves
<1>9. ~client.handshake_succ /\ (client.need_reconn > 0 => client.handshake_succ)
  BY <1>1 DEF Orderly, Both
<1>. QED
  BY <1>1, <1>5, <1>8, <1>9, OrderOf DEF Orderly

\* RECONN_HANDSHAKE_2: the session on its new connection.
LEMMA ClientHandshake2Order ==
  ASSUME ProgramInv, Orderly, ClientHandshake2
  PROVE  Orderly'
<1>. DEFINE C == [client EXCEPT !.enable = TRUE]
            T == reconnect_session(sess["client"])
            so == client.so
<1>1. /\ so # 1 /\ ~client.enable /\ down[so] # << >>
      /\ ClientTakes
      /\ ClientPolls(C, T, << >>, << >>)
      /\ C.so = so /\ C.enable
      /\ C.handshake_succ = client.handshake_succ /\ C.need_reconn = client.need_reconn
      /\ Sound(T)
  BY ClientHandshake2Facts
<1>2. Resumed
  BY <1>1, ReadingWhere DEF Both, Told
<1>3. up \in [Conns -> Seq(Frames)] /\ so \in Conns
  BY InvFacts DEF ProgramInv, UpOK
<1>. HIDE DEF C, T
<1>4. /\ client' = C /\ server' = server
      /\ up' = [up EXCEPT ![C.so] = @ \o << >> \o Polled(T)]
  BY <1>1 DEF ClientPolls
<1>5. Rdts(up'[so])
  <2>1. Polled(T) \in Seq(Frames) /\ \A x \in Range(Polled(T)) : x.kind = "rdt"
    BY <1>1, PolledFrames
  <2>2. << >> \o << >> \o Polled(T) = Polled(T)
    BY <2>1
  <2>3. up[so] = << >>
    BY <1>2 DEF Resumed
  <2>4. up'[so] = Polled(T)
    BY <1>1, <1>3, <1>4, <2>2, <2>3
  <2>. QED
    BY <2>1, <2>4 DEF Rdts
<1>6. Rdts(down'[so])
  BY <1>1, <1>2, DownTail DEF Rdts, Resumed
<1>7. Both'
  BY <1>1, <1>2, <1>4, <1>5, <1>6 DEF Both, Resumed, Serves
<1>8. client.need_reconn > 0 => client.handshake_succ
  BY DEF Orderly
<1>. QED
  BY <1>1, <1>4, <1>7, <1>8, OrderOf DEF Orderly

\* Two messages more, or nothing, and one timeout fewer.
LEMMA ClientTimeoutOrder ==
  ASSUME ProgramInv, Orderly, ClientTimeout
  PROVE  Orderly'
<1>. DEFINE so == client.so
<1>1. /\ Counted.so = so /\ Counted.enable = client.enable
      /\ Counted.handshake_succ = client.handshake_succ
      /\ Counted.need_reconn > 0 => client.need_reconn > 0
      /\ \/ /\ client.handshake_succ
            /\ ClientPolls(Counted, Two, << >>, << >>)
            /\ UNCHANGED << down, created >>
         \/ /\ ~client.handshake_succ
            /\ client' = Counted
            /\ UNCHANGED << server, sess, created, up, down, open, failed >>
  BY ClientTimeoutFacts
<1>2. client' = Counted /\ server' = server /\ down' = down
  BY <1>1 DEF ClientPolls
<1>3. client'.need_reconn > 0 => client'.handshake_succ
  BY <1>1, <1>2 DEF Orderly
<1>4. CASE ~client.handshake_succ
  <2>1. up' = up /\ client'.so = so /\ client'.enable = client.enable
    BY <1>1, <1>2, <1>4
  <2>2. Arriving => Arriving'
    BY <1>2, <2>1 DEF Arriving, Serves
  <2>3. (Asked => Asked') /\ (Told => Told') /\ (Confirmed => Confirmed')
    BY <1>2, <2>1 DEF Asked, Told, Confirmed, Serves
  <2>4. (Resumed => Resumed') /\ (Both => Both')
    BY <1>2, <2>1 DEF Resumed, Both, Serves
  <2>5. ~client'.handshake_succ
    BY <1>1, <1>2, <1>4
  <2>. QED
    BY <1>2, <1>3, <2>2, <2>3, <2>4, <2>5, OrderOf DEF Orderly
<1>5. CASE client.handshake_succ
  <2>1. Both
    BY <1>5 DEF Orderly
  <2>2. /\ up \in [Conns -> Seq(Frames)] /\ so \in Conns
        /\ up' = [up EXCEPT ![so] = @ \o << >> \o Polled(Two)]
    BY <1>1, <1>5, InvFacts DEF ProgramInv, UpOK, ClientPolls
  <2>3. Sound(Two)
    BY TwoSound
  <2>4. Polled(Two) \in Seq(Frames) /\ \A x \in Range(Polled(Two)) : x.kind = "rdt"
    BY <2>3, PolledFrames
  <2>. DEFINE q == up[so]
              p == Polled(Two)
  <2>5. q \in Seq(Frames) /\ p \in Seq(Frames) /\ up'[so] = q \o << >> \o p
    BY <2>2, <2>4
  <2>6. up'[so] = q \o p
    <3>. HIDE DEF q, p
    <3>. QED
      BY <2>5
  <2>7. Range(q \o p) = Range(q) \cup Range(p)
    <3>. HIDE DEF q, p
    <3>. QED
      BY <2>5, FramesIn
  <2>8. Rdts(up'[so])
    BY <2>1, <2>4, <2>6, <2>7 DEF Both, Rdts
  <2>9. Both'
    BY <1>1, <1>2, <2>1, <2>8 DEF Both, Serves
  <2>. QED
    BY <1>2, <1>3, <2>9, OrderOf DEF Orderly
<1>. QED
  BY <1>4, <1>5

\* The next connection, while the server still has the last.
LEMMA TestReconnOrder ==
  ASSUME ProgramInv, Orderly, test_reconn
  PROVE  Orderly'
<1>. DEFINE old == client.so
            new == client.so + 1
            x == Command("RECONN_HANDSHAKE_1")
<1>1. /\ old \in Conns /\ new \in Conns /\ new # old
      /\ client.need_reconn = 1
      /\ client'.so = new /\ ~client'.enable /\ ~client'.handshake_succ
      /\ client'.need_reconn = 0
      /\ Range(up'[old]) = Range(up[old]) \cup Range(Polled(Two))
      /\ up'[new] = << x >>
      /\ down'[new] = << >>
      /\ server' = server
  BY TestReconnFacts
<1>2. Both
  BY <1>1 DEF Orderly
<1>3. old \in Nat \ {0}
  BY InvFacts
<1>4. \A y \in Range(Polled(Two)) : y.kind = "rdt"
  BY TwoSound, PolledFrames
<1>5. Rdts(up'[old])
  BY <1>1, <1>2, <1>4 DEF Both, Rdts
<1>6. /\ server'.accepted = new - 1 /\ new # 1 /\ new - 1 = old
      /\ server'.fd2rdt = {old} /\ server'.enable = TRUE
  BY <1>1, <1>2, <1>3 DEF Both, Serves
<1>7. Arriving'
  BY <1>1, <1>5, <1>6 DEF Arriving, Serves
<1>. QED
  BY <1>1, <1>7, OrderOf DEF Orderly

\* Whether connections have overlapped is not forgotten.
LEMMA OverlapStays ==
  ASSUME ProgramInv, [Next]_vars, server.overlap
  PROVE  server'.overlap
<1>1. server \in Servers
  BY DEF ProgramInv, ServerOK
<1>2. ASSUME NEW V, V.overlap = server.overlap, NEW T, NEW msgs, NEW D, ServerPolls(V, T, msgs, D)
      PROVE  server'.overlap
  BY <1>2 DEF ServerPolls, ServerEnds
<1>3. CASE ClientNext
  BY <1>3 DEF ClientNext, ClientInput, ClientHandshake1, ClientHandshake2, ClientTimeout,
              test_reconn, ClientReadsPart, ClientTimesOutEarly, ClientLosesServer,
              ClientPolls, Fail
<1>4. CASE accept
  BY <1>1, <1>4 DEF accept, Servers
<1>5. ASSUME NEW c \in Conns, close(c) PROVE server'.overlap
  BY <1>1, <1>5 DEF close, Servers
<1>6. ASSUME NEW c \in Conns, ServerInput(c) \/ ServerOther(c) PROVE server'.overlap
  BY <1>2, <1>6, ServerInputFacts DEF ServerOther
<1>7. CASE Raises
  BY <1>7 DEF Raises, Fail
<1>8. ASSUME NEW c \in Conns, ServerLogin(c), ~Raises PROVE server'.overlap
  <2>. DEFINE V == [server EXCEPT !.fd2rdt = @ \cup {c}, !.enable = FALSE]
  <2>1. V.overlap = server.overlap
    BY <1>1 DEF Servers
  <2>2. \E T, msgs, D : ServerPolls(V, T, msgs, D)
    BY <1>8 DEF ServerLogin, AnswerFails, Raises, Errors, Ends
  <2>. QED
    BY <1>2, <2>1, <2>2
<1>9. ASSUME NEW c \in Conns, ServerHandshake2(c), ~Raises PROVE server'.overlap
  <2>. DEFINE V == [server EXCEPT !.enable = TRUE]
  <2>1. V.overlap = server.overlap
    BY <1>1 DEF Servers
  <2>2. \E T, msgs, D : ServerPolls(V, T, msgs, D)
    BY <1>9 DEF ServerHandshake2, Raises, Errors, Ends
  <2>. QED
    BY <1>2, <2>1, <2>2
<1>10. ASSUME NEW c \in Conns, ServerReconnects(c), ~Raises PROVE server'.overlap
  <2>1. HasSession("server")
    BY <1>10, ServerHasSession DEF ServerReconnects
  <2>2. Serve(server, c).overlap = server.overlap
    BY <1>1 DEF Servers, Serve
  <2>3. \E T, msgs, D : ServerPolls(Serve(server, c), T, msgs, D)
    BY <1>10, <2>1 DEF ServerReconnects, AnswerFails, Raises, Errors, Ends
  <2>. QED
    BY <1>2, <2>2, <2>3
<1>11. CASE UNCHANGED vars
  BY <1>11 DEF vars
<1>. QED
  BY <1>3, <1>4, <1>5, <1>6, <1>7, <1>8, <1>9, <1>10, <1>11, PartChangesNothing
  DEF Next, ServerNext

\* The first phase.
LEMMA InitOrder ==
  ASSUME ProgramsAssumption, Init
  PROVE  Orderly
<1>1. 1 \in Conns
  BY DEF ProgramsAssumption, Conns
<1>2. /\ client = [so |-> 1, enable |-> FALSE, handshake_succ |-> FALSE, need_reconn |-> False]
      /\ server = [accepted |-> 0, closed |-> {}, fd2rdt |-> {}, enable |-> FALSE,
                   overlap |-> FALSE]
  BY DEF Init
<1>3. up[1] = << Command("LOGIN") >> /\ down[1] = << >>
  BY <1>1 DEF Init
<1>4. Arriving
  BY <1>2, <1>3 DEF Arriving, Serves
<1>. QED
  BY <1>2, <1>4 DEF Orderly, False

\* Every step that lets no connections overlap keeps the order.
LEMMA StepOrder ==
  ASSUME ProgramInv, Orderly, [Next]_vars, ~server'.overlap
  PROVE  Orderly'
<1>0. CASE Raises
  BY <1>0, FailOrder
<1>1. CASE ClientNext /\ ~Raises
  BY <1>1, QuietClient, ClientInputOrder, ClientHandshake1Order, ClientHandshake2Order,
     ClientTimeoutOrder, TestReconnOrder
<1>2. ASSUME NEW c \in Conns,
             \/ close(c) \/ ServerInput(c) \/ ServerLogin(c)
             \/ ServerHandshake2(c) \/ ServerReconnects(c) \/ ServerOther(c),
             ~Raises
      PROVE  Orderly'
  BY <1>2, CloseOrder, ServerInputOrder, ServerLoginOrder, ServerHandshake2Order,
     ServerReconnectsOrder, NoOther
<1>4. CASE UNCHANGED vars
  BY <1>4 DEF vars, Orderly, Arriving, Asked, Told, Confirmed, Resumed, Both, Serves
<1>3. CASE ServerNext /\ ~Raises
  BY <1>2, <1>3, <1>4, AcceptOrder, PartChangesNothing DEF ServerNext
<1>. QED
  BY <1>0, <1>1, <1>3, <1>4 DEF Next

\* As long as every connection has ended, at the server, before the next is
\* accepted, the programs go through the handshakes phase by phase: what is
\* under way on the client's connection, and which connection the server serves,
\* is what the phase says.
THEOREM OrderInvariance == Spec => []OrderlyInv
<1>1. Init => OrderlyInv
  BY InitOrder, ProgramsAssumption DEF OrderlyInv
<1>2. ProgramInv /\ OrderlyInv /\ [Next]_vars => OrderlyInv'
  BY StepOrder, OverlapStays DEF OrderlyInv
<1>. QED
  BY <1>1, <1>2, ProgramInvariance, PTL DEF Spec

-----------------------------------------------------------------------------
(* The errors that end the programs *)

\* The commands of r were in q.
NoNewCommand(q, r) == \A x \in Range(r) : x.kind = "command" => x \in Range(q)

\* The server ends: it has written to a connection the client left for another.
WriteLost == failed' = [failed EXCEPT !["server"] = "write failed"] /\ client.so > 1

\* A step that writes no command on the first connection.
LEMMA FirstKept ==
  ASSUME FirstInv, NoNewCommand(up[1], up'[1]), NoNewCommand(down[1], down'[1]),
         created'["server"] = created["server"], client.so # 1 => client'.so # 1,
         server'.overlap = server.overlap
  PROVE  FirstInv'
BY DEF FirstInv, NoNewCommand

\* A connection that is watched and not the client's is an earlier one.
LEMMA LeftFor ==
  ASSUME ProgramInv, NEW c \in Conns, Watched(c), ~open[c]
  PROVE  client.so > 1
<1>1. c \in Nat \ {0} /\ client.so \in Nat \ {0} /\ c # client.so
  BY InvFacts
<1>2. c <= server.accepted /\ server.accepted <= client.so /\ server.accepted \in Nat
  BY InvFacts DEF Watched
<1>. QED
  BY <1>1, <1>2

\* A write fails on such a connection.
LEMMA LostTo ==
  ASSUME ProgramInv, NEW c \in Conns, Watched(c), ~open[c],
         failed' = [failed EXCEPT !["server"] = "write failed"]
  PROVE  WriteLost
BY LeftFor DEF WriteLost

\* The end of a server step writes frames, unless its write fails.
LEMMA PollsWrites ==
  ASSUME ProgramInv, NEW V, NEW T, Sound(T), T.enable, NEW msgs,
         NEW D \in [Conns -> Seq(Frames)], ServerPolls(V, T, msgs, D),
         V.fd2rdt \subseteq (1 .. server.accepted) \ server.closed,
         V.overlap = server.overlap, 1 \in Conns
  PROVE  /\ failed' = failed \/ WriteLost
         /\ NoNewCommand(D[1], down'[1]) \/ down' = down
         /\ server'.overlap = server.overlap
<1>1. \A d \in V.fd2rdt : d \in Conns /\ Watched(d)
  BY InvFacts DEF Watched
<1>2. ServerWrites(V, T, msgs, D) \/ ServerFails(V) \/ ServerIdles(V, T, D)
  BY <1>1, ServerPollsCases
<1>3. CASE ServerWrites(V, T, msgs, D)
  <2>1. PICK d \in V.fd2rdt, fs \in Seq(Frames) :
          down' = Written(D, d, fs) /\ \A x \in Range(fs) : x.kind = "rdt"
    BY <1>3 DEF ServerWrites
  <2>2. server' = V /\ failed' = failed
    BY <1>3 DEF ServerWrites
  <2>. DEFINE q == D[1]
  <2>3. down'[1] = q \/ down'[1] = q \o fs
    BY <2>1 DEF Written
  <2>4. q \in Seq(Frames)
    OBVIOUS
  <2>. HIDE DEF q
  <2>5. Range(q \o fs) = Range(q) \cup Range(fs)
    BY <2>4, FramesIn
  <2>6. NoNewCommand(q, down'[1])
    BY <2>1, <2>3, <2>5 DEF NoNewCommand
  <2>. QED
    BY <2>2, <2>6 DEF q
<1>4. CASE ServerFails(V)
  <2>1. PICK d \in V.fd2rdt : ~open[d]
    BY <1>4 DEF ServerFails
  <2>2. failed' = [failed EXCEPT !["server"] = "write failed"] /\ server' = server /\ down' = down
    BY <1>4 DEF ServerFails, ServerEnds
  <2>. QED
    BY <1>1, <2>1, <2>2, LostTo
<1>5. CASE ServerIdles(V, T, D)
  BY <1>5 DEF ServerIdles, NoNewCommand
<1>. QED
  BY <1>2, <1>3, <1>4, <1>5

\* A frame, for the session or to be printed.
LEMMA ServerReadsFirst ==
  ASSUME ProgramInv, FirstInv, NEW c \in Conns, ServerInput(c) \/ ServerOther(c)
  PROVE  FirstInv' /\ (failed' = failed \/ WriteLost) /\ client' = client
<1>. DEFINE S == sess["server"]
            I == rdts_input(S, up[c][1].pkts)
<1>1. /\ up[c] # << >> /\ up' = [up EXCEPT ![c] = Tail(@)]
      /\ UNCHANGED << client, created, open >>
      /\ \/ ServerPolls(server, I, MessagesIn(S, I), down)
         \/ ServerPolls(server, S, << >>, down)
  BY ServerInputFacts DEF ServerOther, ServerReads, ServerTakes
<1>2. Sound(S) /\ S.enable /\ up[c][1].pkts \in Seq(Packet)
  BY <1>1, UpTail, FrameFields DEF ProgramInv, SessionsOK, ServerOK
<1>3. Sound(I) /\ I.enable
  <2>. DEFINE pkts == up[c][1].pkts
  <2>1. pkts \in Seq(Packet)
    BY <1>2
  <2>. HIDE DEF S, pkts
  <2>2. Sound(rdts_input(S, pkts)) /\ rdts_input(S, pkts).enable
    BY <1>2, <2>1, InputSound
  <2>. QED
    BY <2>2 DEF pkts
<1>4. /\ down \in [Conns -> Seq(Frames)] /\ 1 \in Conns
      /\ server.fd2rdt \subseteq (1 .. server.accepted) \ server.closed
  BY ProgramsAssumption DEF ProgramInv, DownOK, DownFits, ServerOK, Conns
<1>. HIDE DEF S, I
<1>5. /\ failed' = failed \/ WriteLost
      /\ NoNewCommand(down[1], down'[1]) \/ down' = down
      /\ server'.overlap = server.overlap
  BY <1>1, <1>2, <1>3, <1>4, PollsWrites
<1>6. NoNewCommand(down[1], down'[1])
  BY <1>5 DEF NoNewCommand
<1>7. NoNewCommand(up[1], up'[1])
  <2>. DEFINE q == up[c]
  <2>1. q \in Seq(Frames) /\ q # << >> /\ up \in [Conns -> Seq(Frames)]
    BY <1>1 DEF ProgramInv, UpOK
  <2>2. up'[1] = up[1] \/ (c = 1 /\ up'[1] = Tail(q))
    BY <1>1, <1>4, <2>1
  <2>. HIDE DEF q
  <2>3. Range(Tail(q)) \subseteq Range(q)
    BY <2>1, FramesIn
  <2>. QED
    BY <2>2, <2>3 DEF NoNewCommand, q
<1>. QED
  BY <1>1, <1>5, <1>6, <1>7, FirstKept

\* LOGIN is read before the session is made.
LEMMA ServerLoginFirst ==
  ASSUME ProgramInv, FirstInv, NEW c \in Conns, ServerLogin(c)
  PROVE  FirstInv' /\ (failed' = failed \/ WriteLost) /\ client' = client
<1>. DEFINE S == sess["server"]
            V == [server EXCEPT !.fd2rdt = @ \cup {c}, !.enable = FALSE]
            answer == << Command("HANDSHAKE_1") >>
            D == Written(down, c, answer)
<1>1. /\ up[c] # << >> /\ up[c][1] = Command("LOGIN") /\ Watched(c)
      /\ \/ /\ up' = [up EXCEPT ![c] = Tail(@)]
            /\ ServerPolls(V, S, << >>, D)
            /\ UNCHANGED << client, created, open >>
         \/ AnswerFails(c, answer)
  BY DEF ServerLogin, RawCommand, ServerReads, ServerTakes
<1>2. CASE AnswerFails(c, answer)
  <2>1. /\ ~open[c] /\ failed' = [failed EXCEPT !["server"] = "write failed"]
        /\ UNCHANGED << client, server, created, up, down >>
    BY <1>2 DEF AnswerFails, WriteFails, Fail
  <2>2. WriteLost
    BY <1>1, <2>1, LostTo
  <2>. QED
    BY <2>1, <2>2 DEF FirstInv
<1>3. CASE ~AnswerFails(c, answer)
  <2>1. c = 1 /\ up[c][1] \in Range(up[c]) /\ up[c][1].kind = "command"
    <3>1. up[c][1] \in Range(up[c])
      BY <1>1, InvFacts, FramesIn
    <3>2. up[c][1].kind = "command"
      BY <1>1 DEF Command
    <3>3. up[c][1] \in UpCommands(c)
      BY <3>1, <3>2 DEF ProgramInv, UpOK
    <3>. QED
      BY <1>1, <3>1, <3>2, <3>3 DEF UpCommands, Command
  <2>2. ~created["server"]
    BY <2>1 DEF FirstInv
  <2>3. server \in Servers
    BY DEF ProgramInv, ServerOK
  <2>4. V.overlap = server.overlap /\ ~V.enable
    BY <2>3 DEF Servers
  <2>5. server'.overlap = server.overlap /\ failed' = failed
    <3>. HIDE DEF V, S, D
    <3>. QED
      BY <1>1, <1>3, <2>4 DEF ServerPolls
  <2>. QED
    BY <1>1, <1>3, <2>2, <2>5 DEF FirstInv
<1>. QED
  BY <1>2, <1>3

\* HANDSHAKE_2 is the last command on the first connection, and it is read while there
\* is no other.
LEMMA ServerHandshake2First ==
  ASSUME ProgramInv, OrderlyInv, FirstInv, NEW c \in Conns, ServerHandshake2(c)
  PROVE  FirstInv' /\ (failed' = failed \/ WriteLost) /\ client' = client
<1>. DEFINE T == rdts_send(rdts_create, 1)
            V == [server EXCEPT !.enable = TRUE]
<1>1. RawCommand(c, "HANDSHAKE_2") /\ up[c] # << >> /\ up[c][1] = Command("HANDSHAKE_2")
  BY DEF ServerHandshake2, RawCommand, ServerReads
<1>2. c = 1 /\ up[c][1] \in Range(up[c]) /\ up[c][1].kind = "command"
  <2>1. up[c][1] \in Range(up[c])
    BY <1>1, InvFacts, FramesIn
  <2>2. up[c][1].kind = "command"
    BY <1>1 DEF Command
  <2>3. up[c][1] \in UpCommands(c)
    BY <2>1, <2>2 DEF ProgramInv, UpOK
  <2>. QED
    BY <1>1, <2>1, <2>2, <2>3 DEF UpCommands, Command
<1>3. ~created["server"] /\ client.so = 1 /\ ~server.overlap
  <2>1. ~created["server"]
    BY <1>2 DEF FirstInv
  <2>. QED
    BY <2>1 DEF ProgramInv, ClientOK, FirstInv
<1>4. Orderly
  BY <1>3 DEF OrderlyInv
<1>5. Confirmed
  <2>1. ServerReads(c) /\ ~ToSession(c)
    BY <1>1 DEF RawCommand
  <2>2. up[c] = << Command("LOGIN") >> \/ Confirmed
    BY <1>2, <1>4, <2>1, RawWhere
  <2>3. Command("LOGIN") # Command("HANDSHAKE_2")
    BY DEF Command
  <2>. QED
    BY <1>1, <2>2, <2>3
<1>6. c \in server.fd2rdt /\ up[1] = << Command("HANDSHAKE_2") >> /\ down[1] = << >>
  BY <1>2, <1>5 DEF Confirmed, Serves
<1>7. /\ up' = [up EXCEPT ![c] = Tail(@)]
      /\ created' = [created EXCEPT !["server"] = TRUE]
      /\ ServerPolls(V, T, << >>, down)
      /\ UNCHANGED << client, open >>
  BY <1>3, <1>6 DEF ServerHandshake2, ServerTakes
<1>8. up'[1] = << >>
  <2>1. up \in [Conns -> Seq(Frames)]
    BY DEF ProgramInv, UpOK
  <2>2. up'[1] = Tail(up[1])
    BY <1>2, <1>7, <2>1
  <2>. QED
    BY <1>6, <2>2
<1>9. Sound(T) /\ T.enable
  <2>1. Sound(rdts_create) /\ rdts_create.enable /\ 1 \in Nat \ {0}
    BY CreateSound DEF rdts_create
  <2>. QED
    BY <2>1, SendSound
<1>10. /\ server \in Servers /\ server.fd2rdt \subseteq (1 .. server.accepted) \ server.closed
       /\ down \in [Conns -> Seq(Frames)]
  BY DEF ProgramInv, ServerOK, DownOK, DownFits
<1>11. V.fd2rdt = server.fd2rdt /\ V.overlap = server.overlap
  BY <1>10 DEF Servers
<1>. HIDE DEF T, V
<1>12. /\ failed' = failed \/ WriteLost
       /\ NoNewCommand(down[1], down'[1]) \/ down' = down
       /\ server'.overlap = server.overlap
  BY <1>2, <1>7, <1>9, <1>10, <1>11, PollsWrites
<1>13. \A x \in Range(up'[1]) \cup Range(down'[1]) : x.kind # "command"
  <2>1. Range(<< >>) = {}
    BY FramesIn
  <2>. QED
    BY <1>6, <1>8, <1>12, <2>1 DEF NoNewCommand
<1>. QED
  BY <1>3, <1>7, <1>12, <1>13 DEF FirstInv

\* A reconnect is on another connection, and has its session and its ack to send.
LEMMA ServerReconnectsFirst ==
  ASSUME ProgramInv, FirstInv, NEW c \in Conns, ServerReconnects(c)
  PROVE  FirstInv' /\ (failed' = failed \/ WriteLost) /\ client' = client
<1>. DEFINE S == sess["server"]
            B == disable_session(S)
            T == reconnect_session(B)
            P == pollout(T)
            V == Serve(server, c)
            x == Command("RECONN_HANDSHAKE_2")
            answer == << x >> \o Polled(T)
            D == Written(down, c, answer)
<1>1. RawCommand(c, "RECONN_HANDSHAKE_1") /\ Watched(c)
  BY DEF ServerReconnects, RawCommand, ServerReads
<1>2. HasSession("server") /\ c # 1
  BY <1>1, ServerHasSession
<1>3. Sound(T) /\ T.snd_buf # << >> /\ Sound(P) /\ P.enable
  <2>1. Sound(S)
    BY DEF ProgramInv, SessionsOK
  <2>2. Sound(B)
    <3>. HIDE DEF S
    <3>. QED
      BY <2>1, DisableSound
  <2>3. Sound(T) /\ T.enable /\ T.snd_buf = << AckPacket(B.rcv_raw_offset) >>
    <3>. HIDE DEF B
    <3>. QED
      BY <2>2, ReconnectSound
  <2>. HIDE DEF T
  <2>. QED
    BY <2>3, PolloutSound
<1>4. Polled(T) # << >>
  <2>. HIDE DEF T
  <2>. QED
    BY <1>3 DEF Polled
<1>5. \/ /\ up' = [up EXCEPT ![c] = Tail(@)]
         /\ ServerPolls(V, P, << >>, D)
         /\ UNCHANGED << client, created, open >>
      \/ AnswerFails(c, answer)
  <2>. HIDE DEF V
  <2>. QED
    BY <1>2, <1>4 DEF ServerReconnects, ServerTakes, V
<1>. HIDE DEF P, V, answer
<1>6. CASE AnswerFails(c, answer)
  <2>1. /\ ~open[c] /\ failed' = [failed EXCEPT !["server"] = "write failed"]
        /\ UNCHANGED << client, server, created, up, down >>
    BY <1>6 DEF AnswerFails, WriteFails, Fail
  <2>2. WriteLost
    BY <1>1, <2>1, LostTo
  <2>. QED
    BY <2>1, <2>2 DEF FirstInv
<1>7. CASE ~AnswerFails(c, answer)
  <2>1. /\ server \in Servers /\ server.fd2rdt \subseteq (1 .. server.accepted) \ server.closed
        /\ down \in [Conns -> Seq(Frames)] /\ up \in [Conns -> Seq(Frames)] /\ 1 \in Conns
    BY ProgramsAssumption DEF ProgramInv, ServerOK, DownOK, DownFits, UpOK, Conns
  <2>2. V.fd2rdt = server.fd2rdt \cup {c} /\ V.overlap = server.overlap
    BY <2>1 DEF V, Serve, Servers
  <2>3. V.fd2rdt \subseteq (1 .. server.accepted) \ server.closed
    <3>1. c \in 1 .. server.accepted /\ c \notin server.closed
      BY <1>1, InvFacts DEF Watched
    <3>. QED
      BY <2>1, <2>2, <3>1
  <2>4. D \in [Conns -> Seq(Frames)] /\ D[1] = down[1]
    <3>1. answer \in Seq(Frames)
      <4>. HIDE DEF T, x
      <4>1. Polled(T) \in Seq(Frames)
        BY <1>3, PolledFrames
      <4>2. << x >> \in Seq(Frames)
        BY DEF x, Frames, Commands
      <4>. QED
        BY <4>1, <4>2, FramesIn DEF answer
    <3>2. down[c] \o answer \in Seq(Frames)
      BY <2>1, <3>1, FramesIn
    <3>. QED
      BY <1>2, <2>1, <3>2 DEF Written
  <2>. HIDE DEF D
  <2>5. /\ failed' = failed \/ WriteLost
        /\ NoNewCommand(down[1], down'[1]) \/ down' = down
        /\ server'.overlap = server.overlap
    BY <1>3, <1>5, <1>7, <2>1, <2>2, <2>3, <2>4, PollsWrites
  <2>6. NoNewCommand(down[1], down'[1])
    BY <2>5 DEF NoNewCommand
  <2>7. NoNewCommand(up[1], up'[1])
    BY <1>2, <1>5, <1>7, <2>1 DEF NoNewCommand
  <2>. QED
    BY <1>5, <1>7, <2>5, <2>6, <2>7, FirstKept
<1>. QED
  BY <1>6, <1>7

\* Connections that come and go.
LEMMA ConnectionsFirst ==
  ASSUME ProgramInv, FirstInv, accept \/ \E c \in Conns : close(c)
  PROVE  FirstInv' /\ failed' = failed /\ client' = client
<1>1. /\ server \in Servers /\ server.accepted \in Nat /\ client.so \in Nat
      /\ up \in [Conns -> Seq(Frames)] /\ 1 \in Conns
  BY InvFacts, ProgramsAssumption DEF ProgramInv, ServerOK, UpOK, Conns
<1>2. CASE accept
  <2>1. /\ server.accepted < client.so /\ UNCHANGED << client, created, up, down, failed >>
        /\ server'.overlap = (server.overlap \/ ~(1 .. server.accepted \subseteq server.closed))
    BY <1>1, <1>2 DEF accept, Servers
  <2>2. client.so = 1 => 1 .. server.accepted = {}
    BY <1>1, <2>1
  <2>. QED
    BY <2>1, <2>2 DEF FirstInv
<1>3. ASSUME NEW c \in Conns, close(c) PROVE FirstInv' /\ failed' = failed /\ client' = client
  <2>1. /\ server'.overlap = server.overlap /\ up' = [up EXCEPT ![c] = << >>]
        /\ UNCHANGED << client, created, down, failed >>
    BY <1>1, <1>3 DEF close, Servers
  <2>2. up'[1] = up[1] \/ up'[1] = << >>
    BY <1>1, <2>1
  <2>3. Range(<< >>) = {}
    BY FramesIn
  <2>. QED
    BY <2>1, <2>2, <2>3 DEF FirstInv
<1>. QED
  BY <1>2, <1>3

\* Every step of the server.
LEMMA ServerStepFirst ==
  ASSUME ProgramInv, OrderlyInv, FirstInv, ServerNext
  PROVE  FirstInv' /\ (failed' = failed \/ WriteLost) /\ client' = client
<1>1. ASSUME NEW c \in Conns, ServerReadsPart(c)
      PROVE  FirstInv' /\ failed' = failed /\ client' = client
  <2>1. UNCHANGED vars
    BY <1>1, PartChangesNothing
  <2>. QED
    BY <2>1 DEF vars, FirstInv
<1>. QED
  BY <1>1, ConnectionsFirst, ServerReadsFirst, ServerLoginFirst, ServerHandshake2First,
     ServerReconnectsFirst DEF ServerNext

\* The client writes frames, and HANDSHAKE_2 before the server has its session.
LEMMA ClientPollsFirst ==
  ASSUME ProgramInv, FirstInv, NEW C, C.so = client.so, NEW T, Sound(T), NEW msgs,
         NEW out \in Seq(Frames), \A x \in Range(out) : x \in UpCommands(client.so),
         \A x \in Range(out) : x.kind = "command" => ~created["server"],
         ClientPolls(C, T, msgs, out), C \in Clients,
         created'["server"] = created["server"], NoNewCommand(down[1], down'[1])
  PROVE  FirstInv' /\ failed' = failed /\ client'.so = client.so
<1>1. /\ client'.so = client.so /\ UNCHANGED << server, failed >>
      /\ up' = [up EXCEPT ![client.so] = @ \o out \o Polled(T)]
  BY DEF ClientPolls, Clients
<1>2. /\ Range(up'[client.so]) = Range(up[client.so]) \cup Range(out) \cup Range(Polled(T))
      /\ \A c \in Conns : c # client.so => up'[c] = up[c]
  BY <1>1, UpWrites
<1>3. \A x \in Range(Polled(T)) : x.kind = "rdt"
  BY PolledFrames
<1>4. 1 \in Conns
  BY ProgramsAssumption DEF Conns
<1>5. ASSUME NEW x \in Range(up'[1]), x.kind = "command" PROVE ~created["server"]
  BY <1>2, <1>3, <1>4, <1>5 DEF FirstInv
<1>. QED
  BY <1>1, <1>5 DEF FirstInv, NoNewCommand

\* A program that ends leaves its commands.
LEMMA FailFirst ==
  ASSUME FirstInv, NEW e, NEW why, Fail(e, why)
  PROVE  FirstInv' /\ client' = client /\ failed' = [failed EXCEPT ![e] = why]
BY DEF Fail, FirstInv

\* The steps of the client that go on.
LEMMA ClientGoesOn ==
  ASSUME ProgramInv, FirstInv,
         ClientInput \/ ClientHandshake1 \/ ClientHandshake2 \/ ClientTimeout \/ test_reconn
  PROVE  FirstInv' /\ failed' = failed /\ client'.so \in {client.so, client.so + 1}
<1>1. /\ 1 \in Conns /\ << >> \in Seq(Frames) /\ Range(<< >>) = {} /\ client.so \in Nat \ {0}
      /\ client \in Clients /\ ReconnAfter \in 0 .. ReconnAfter
  BY InvFacts, FramesIn, ProgramsAssumption DEF Conns, ProgramInv, ClientOK
<1>2. ASSUME down[client.so] # << >>, ClientTakes PROVE NoNewCommand(down[1], down'[1])
  <2>1. /\ Range(down'[client.so]) \subseteq Range(down[client.so])
        /\ \A c \in Conns : c # client.so => down'[c] = << >>
    BY <1>2, DownTail
  <2>. QED
    BY <1>1, <2>1 DEF NoNewCommand
<1>3. CASE ClientInput
  <2>. DEFINE S == sess["client"]
              T == rdts_input(S, Reading.pkts)
              C == IF CalledBack(S, T) THEN Reconnected(client) ELSE client
              msgs == MessagesIn(S, T)
  <2>1. /\ ClientPolls(C, T, msgs, << >>) /\ ClientTakes /\ created' = created
        /\ down[client.so] # << >> /\ Sound(T)
    BY <1>3, ClientInputFacts
  <2>2. C \in Clients /\ C.so = client.so
    BY <1>1 DEF Clients, Reconnected
  <2>. HIDE DEF T, C, msgs
  <2>. QED
    BY <1>1, <1>2, <2>1, <2>2, ClientPollsFirst
<1>4. CASE ClientHandshake1
  <2>. DEFINE C == [client EXCEPT !.enable = TRUE]
              x == Command("HANDSHAKE_2")
              out == << x >>
  <2>1. /\ client.so = 1 /\ down[client.so] # << >> /\ Reading = Command("HANDSHAKE_1")
        /\ ClientTakes /\ created' = [created EXCEPT !["client"] = TRUE]
        /\ ClientPolls(C, rdts_create, << >>, out)
        /\ C \in Clients /\ C.so = client.so
        /\ Sound(rdts_create) /\ out \in Seq(Frames) /\ Range(out) = {x}
        /\ x \in UpCommands(client.so)
    BY <1>4, ClientHandshake1Facts
  <2>2. ~created["server"]
    <3>1. Reading \in Range(down[1]) /\ Reading.kind = "command"
      BY <2>1, DownTail DEF Command
    <3>. QED
      BY <3>1 DEF FirstInv
  <2>3. created'["server"] = created["server"]
    <3>1. created \in [Ends -> BOOLEAN] /\ "server" \in Ends
      BY DEF ProgramInv, SessionsOK, Ends
    <3>. QED
      BY <2>1, <3>1
  <2>. HIDE DEF C, x, out
  <2>. QED
    BY <1>1, <1>2, <2>1, <2>2, <2>3, ClientPollsFirst
<1>5. CASE ClientHandshake2
  <2>. DEFINE C == [client EXCEPT !.enable = TRUE]
              T == reconnect_session(sess["client"])
  <2>1. /\ down[client.so] # << >> /\ ClientTakes /\ created' = created
        /\ ClientPolls(C, T, << >>, << >>)
        /\ C \in Clients /\ C.so = client.so /\ Sound(T)
    BY <1>5, ClientHandshake2Facts
  <2>. HIDE DEF C, T
  <2>. QED
    BY <1>1, <1>2, <2>1, ClientPollsFirst
<1>6. CASE ClientTimeout
  <2>1. /\ Counted \in Clients /\ Counted.so = client.so
        /\ \/ ClientPolls(Counted, Two, << >>, << >>) /\ UNCHANGED << down, created >>
           \/ client' = Counted /\ UNCHANGED << server, created, up, down, failed >>
    BY <1>6, ClientTimeoutFacts
  <2>2. Sound(Two)
    BY TwoSound
  <2>3. CASE client' = Counted /\ UNCHANGED << server, created, up, down, failed >>
    BY <2>1, <2>3 DEF FirstInv
  <2>4. CASE ClientPolls(Counted, Two, << >>, << >>) /\ UNCHANGED << down, created >>
    <3>1. NoNewCommand(down[1], down'[1])
      BY <2>4 DEF NoNewCommand
    <3>. QED
      BY <1>1, <2>1, <2>2, <2>4, <3>1, ClientPollsFirst
  <2>. QED
    BY <2>1, <2>3, <2>4
<1>7. CASE test_reconn
  <2>. DEFINE old == client.so
  <2>1. /\ client'.so = old + 1
        /\ Range(up'[old]) = Range(up[old]) \cup Range(Polled(Two))
        /\ \A c \in Conns : c \notin {old, old + 1} => up'[c] = up[c]
        /\ \A c \in Conns : down'[c] = << >>
        /\ UNCHANGED << server, created, failed >>
    BY <1>7, TestReconnFacts
  <2>2. \A y \in Range(Polled(Two)) : y.kind = "rdt"
    BY TwoSound, PolledFrames
  <2>3. old + 1 # 1
    BY <1>1
  <2>. HIDE DEF old
  <2>4. NoNewCommand(up[1], up'[1]) /\ NoNewCommand(down[1], down'[1])
    BY <1>1, <2>1, <2>2, <2>3 DEF NoNewCommand
  <2>. QED
    BY <2>1, <2>3, <2>4, FirstKept DEF old
<1>. QED
  BY <1>3, <1>4, <1>5, <1>6, <1>7

\* Every step of the client: what may end it.
LEMMA ClientStepFirst ==
  ASSUME ProgramInv, FirstInv, ClientNext
  PROVE  /\ FirstInv' /\ failed["client"] = ""
         /\ \/ failed' = failed /\ client'.so \in {client.so, client.so + 1}
            \/ /\ client' = client
               /\ \E why \in {"part of a packet", "server ended", "need_reconn"} :
                    /\ failed' = [failed EXCEPT !["client"] = why]
                    /\ why = "need_reconn" => client.so = 1 /\ ~client.handshake_succ
<1>1. failed["client"] = ""
  BY DEF ClientNext, ClientInput, ClientHandshake1, ClientHandshake2, ClientTimeout, test_reconn,
         ClientReadsPart, ClientTimesOutEarly, ClientLosesServer, ClientReads, TimesOut, Runs
<1>2. CASE ClientReadsPart \/ ClientLosesServer
  <2>1. Fail("client", "part of a packet") \/ Fail("client", "server ended")
    BY <1>2 DEF ClientReadsPart, ClientLosesServer
  <2>. QED
    BY <1>1, <2>1, FailFirst
<1>3. CASE ClientTimesOutEarly
  <2>1. client.need_reconn = False /\ Fail("client", "need_reconn")
    BY <1>3 DEF ClientTimesOutEarly
  <2>2. client.so = 1 /\ ~client.handshake_succ
    BY <2>1 DEF ProgramInv, ClientOK
  <2>. QED
    BY <1>1, <2>1, <2>2, FailFirst
<1>. QED
  BY <1>1, <1>2, <1>3, ClientGoesOn DEF ClientNext

\* The first handshake overlaps nothing.
THEOREM FirstInvariance == Spec => []FirstInv
<1>1. Init => FirstInv
  <2>. SUFFICES ASSUME Init PROVE FirstInv
    OBVIOUS
  <2>1. ~server.overlap /\ "server" \in Ends /\ ~created["server"]
    BY DEF Init, Ends
  <2>. QED
    BY <2>1 DEF FirstInv
<1>2. ProgramInv /\ OrderlyInv /\ FirstInv /\ [Next]_vars => FirstInv'
  <2>1. FirstInv /\ UNCHANGED vars => FirstInv'
    BY DEF vars, FirstInv
  <2>. QED
    BY <2>1, ServerStepFirst, ClientStepFirst DEF Next
<1>. QED
  BY <1>1, <1>2, ProgramInvariance, OrderInvariance, PTL DEF Spec

\* The asserts and the calls of both programs, over any number of connections that
\* may overlap: only a packet in two pieces, the end of the server, or a need_reconn
\* counted down before the first handshake is done ends the client, and only a write
\* to a connection the client has left ends the server.  No call finds its session
\* missing, whatever is under way.
THEOREM OnlyKnownErrors == Spec => []ErrorsKnown
<1>1. Init => ErrorsKnown
  BY DEF Init, ErrorsKnown, Ends
<1>2. ProgramInv /\ OrderlyInv /\ FirstInv /\ ErrorsKnown /\ [Next]_vars => ErrorsKnown'
  <2>. SUFFICES ASSUME ProgramInv, OrderlyInv, FirstInv, ErrorsKnown, [Next]_vars
                PROVE  ErrorsKnown'
    OBVIOUS
  <2>1. /\ failed \in [Ends -> Errors \cup {""}] /\ "client" \in Ends /\ "server" \in Ends
        /\ client.so \in Nat \ {0}
    BY InvFacts DEF ProgramInv, SessionsOK, Ends
  <2>2. CASE UNCHANGED vars
    BY <2>2 DEF vars, ErrorsKnown
  <2>3. CASE ServerNext
    <3>1. (failed' = failed \/ WriteLost) /\ client' = client
      BY <2>3, ServerStepFirst
    <3>. QED
      BY <2>1, <3>1 DEF WriteLost, ErrorsKnown
  <2>4. CASE ClientNext
    <3>1. /\ failed["client"] = ""
          /\ \/ failed' = failed /\ client'.so \in {client.so, client.so + 1}
             \/ /\ client' = client
                /\ \E why \in {"part of a packet", "server ended", "need_reconn"} :
                     /\ failed' = [failed EXCEPT !["client"] = why]
                     /\ why = "need_reconn" => client.so = 1 /\ ~client.handshake_succ
      BY <2>4, ClientStepFirst
    <3>2. CASE failed' = failed /\ client'.so \in {client.so, client.so + 1}
      <4>1. \A m \in Nat : \A n \in {m, m + 1} : m > 1 => n > 1
        OBVIOUS
      <4>2. failed'["client"] = ""
        BY <3>1, <3>2
      <4>. QED
        BY <2>1, <3>2, <4>1, <4>2 DEF ErrorsKnown
    <3>3. ASSUME client' = client,
                 NEW why \in {"part of a packet", "server ended", "need_reconn"},
                 failed' = [failed EXCEPT !["client"] = why],
                 why = "need_reconn" => client.so = 1 /\ ~client.handshake_succ
          PROVE  ErrorsKnown'
      <4>1. failed'["client"] = why /\ failed'["server"] = failed["server"]
        BY <2>1, <3>3
      <4>. QED
        BY <3>3, <4>1 DEF ErrorsKnown
    <3>. QED
      BY <3>1, <3>2, <3>3
  <2>. QED
    BY <2>2, <2>3, <2>4 DEF Next
<1>. QED
  BY <1>1, <1>2, ProgramInvariance, OrderInvariance, FirstInvariance, PTL DEF Spec

-----------------------------------------------------------------------------
(* What follows from the order of the connections *)

\* rdt_client.lua:168: a client that knows it is connected again is served, by
\* the server's session, on its own connection.
THEOREM ReconnectedClientIsServed == Spec => []ReconnectedIsServed
<1>1. ProgramInv /\ OrderlyInv => ReconnectedIsServed
  BY DEF OrderlyInv, Orderly, Both, Serves, ReconnectedIsServed, Served
<1>. QED
  BY <1>1, ProgramInvariance, OrderInvariance, PTL

\* rdt_client.lua:123: while it waits, the client reads only the server's two
\* commands, whatever connections overlap; and a server whose connections do not
\* overlap reads nothing but commands on a connection it serves no session on.
THEOREM FramesAreNotCommands == Spec => []NoFrameIsACommand
<1>1. ASSUME ProgramInv, ~client.enable, down[client.so] # << >>
      PROVE  Reading.cmd \in {"HANDSHAKE_1", "RECONN_HANDSHAKE_2"}
  <2>1. DownFits(down, server.fd2rdt, created["server"]) /\ client.so \in Conns
    BY <1>1, InvFacts DEF ProgramInv, DownOK
  <2>2. Reading.kind = "command" /\ down[client.so] \in Seq(Frames)
    BY <1>1, <2>1 DEF DownFits, Reading
  <2>3. Reading \in Range(down[client.so])
    BY <1>1, <2>2, FramesIn DEF Reading
  <2>4. Reading \in DownCommands(client.so)
    BY <2>1, <2>2, <2>3 DEF DownFits
  <2>. QED
    BY <2>4 DEF DownCommands, Command
<1>2. ASSUME ProgramInv, Orderly, NEW c \in Conns, Raw(c), up[c] # << >>
      PROVE  up[c][1].kind = "command"
  <2>1. server.fd2rdt = {} \/ server.enable = FALSE \/ c \notin server.fd2rdt
    BY <1>2 DEF Raw, ToSession
  <2>2. c <= server.accepted /\ c \notin server.closed
    BY <1>2 DEF Raw, Watched
  <2>3. c \in Nat \ {0} /\ server.accepted \in Nat /\ client.so \in Nat \ {0}
    BY InvFacts, <1>2
  <2>4. c = server.accepted
    <3>1. c < server.accepted => c \in 1 .. server.accepted - 1
      BY <2>3
    <3>. QED
      BY <1>2, <2>2, <2>3, <3>1 DEF Orderly
  <2>5. CASE Arriving
    <3>1. c = client.so - 1 /\ client.so # 1
      BY <2>3, <2>4, <2>5 DEF Arriving
    <3>. QED
      BY <2>1, <2>2, <2>5, <3>1 DEF Arriving, Serves
  <2>6. CASE Asked
    BY <2>4, <2>6 DEF Asked, Command
  <2>7. CASE Told \/ Confirmed
    <3>1. c = 1 /\ (up[1] = << >> \/ up[1] = << Command("HANDSHAKE_2") >>)
      BY <2>4, <2>7 DEF Told, Confirmed
    <3>2. << Command("HANDSHAKE_2") >>[1].kind = "command"
      BY DEF Command
    <3>. QED
      BY <1>2, <3>1, <3>2
  <2>8. CASE Resumed \/ Both
    BY <2>1, <2>4, <2>8 DEF Resumed, Both, Serves
  <2>. QED
    BY <1>2, <2>5, <2>6, <2>7, <2>8 DEF Orderly
<1>3. ProgramInv /\ OrderlyInv => NoFrameIsACommand
  BY <1>1, <1>2 DEF OrderlyInv, NoFrameIsACommand
<1>. QED
  BY <1>3, ProgramInvariance, OrderInvariance, PTL

-----------------------------------------------------------------------------
(* StreamsInv is invariant *)

\* The numbers of both sessions.
LEMMA SessionNumbers ==
  ASSUME ProgramInv, NEW e \in Ends
  PROVE  /\ Sound(sess[e])
         /\ sess[e].sent \in Nat /\ sess[e].rcv_raw_offset \in Nat
         /\ sess[e].remote_rcv_raw_offset \in Nat
         /\ sess[e].received \in Seq(Nat) /\ sess[e].snd_buf \in Seq(Packet)
<1>1. Sound(sess[e])
  BY DEF ProgramInv, SessionsOK, Ends
<1>2. sess[e] \in Session
  BY <1>1 DEF Sound
<1>. QED
  BY <1>1, <1>2, SessionFields

\* An empty frame, which is what a command is to a session.
LEMMA EmptyFrame ==
  ASSUME NEW n \in Nat
  PROVE  /\ << >> \in Seq(Packet) /\ NoData(<< >>) /\ AcksUpTo(<< >>, n) /\ AcksAt(<< >>, n)
         /\ NotFirst(<< >>)
  BY DEF NoData, AcksUpTo, AcksAt, NotFirst

\* A queue with nothing, or with one command, holds no data.
LEMMA CommandsQuiet ==
  ASSUME NEW cmd
  PROVE  Quiet(<< >>) /\ Quiet(<< Command(cmd) >>) /\ Command(cmd).pkts = << >>
<1>1. Range(<< >>) = {} /\ Range(<< Command(cmd) >>) = {Command(cmd)}
  BY FramesIn
<1>2. Command(cmd).pkts = << >>
  BY DEF Command
<1>. QED
  BY <1>1, <1>2 DEF Quiet, NoData

\* A poll of a session whose packets go on where the chain under way ends.
LEMMA PollChain ==
  ASSUME NEW q \in Seq(Frames), NEW a \in Nat, NEW b \in Nat, FrameChain(q, a, b),
         NEW T, Sound(T), NEW c \in Nat, b <= c, Chain(T.snd_buf, b, c)
  PROVE  FrameChain(q \o Polled(T), a, c)
<1>. DEFINE x == Frame(T.snd_buf)
<1>1. \/ Polled(T) = << >> /\ T.snd_buf = << >>
      \/ Polled(T) = << x >> /\ x \in Frames /\ x.pkts = T.snd_buf
  BY PolledFrames
<1>. HIDE DEF x
<1>2. CASE Polled(T) = << >> /\ T.snd_buf = << >>
  <2>1. Chain(<< >>, b, c) /\ Len(<< >>) = 0
    BY <1>2
  <2>2. b = c
    BY <2>1 DEF Chain, Follows
  <2>3. q \o Polled(T) = q
    BY <1>2
  <2>. QED
    BY <2>2, <2>3
<1>3. CASE Polled(T) = << x >> /\ x \in Frames /\ x.pkts = T.snd_buf
  <2>1. FrameChain(Append(q, x), a, c)
    BY <1>3, FramesAppend
  <2>2. q \o Polled(T) = Append(q, x)
    BY <1>3
  <2>. QED
    BY <2>1, <2>2
<1>. QED
  BY <1>1, <1>2, <1>3

\* A poll of a session with no data to send keeps a quiet queue quiet.
LEMMA PollQuiet ==
  ASSUME NEW q \in Seq(Frames), Quiet(q), NEW T, Sound(T), NoData(T.snd_buf)
  PROVE  Quiet(q \o Polled(T))
<1>1. /\ Polled(T) \in Seq(Frames)
      /\ \A x \in Range(Polled(T)) : x.pkts = T.snd_buf
  BY PolledFrames
<1>2. Range(q \o Polled(T)) = Range(q) \cup Range(Polled(T))
  BY <1>1, FramesIn
<1>. QED
  BY <1>1, <1>2 DEF Quiet

\* A client that is not enabled is not connected again yet.
LEMMA NotYet ==
  ASSUME Orderly, ~client.enable
  PROVE  ~client.handshake_succ
BY DEF Orderly, Both

\* A program that ends with an error leaves what is under way.
LEMMA FailStreams ==
  ASSUME ProgramInv, Streams, Raises
  PROVE  Streams'
<1>1. /\ \E e \in Ends, why \in Errors : failed' = [failed EXCEPT ![e] = why]
      /\ failed \in [Ends -> Errors \cup {""}] /\ "server" \in Ends
      /\ UNCHANGED << client, server, sess, created, up, down, open >>
  BY DEF Raises, Fail, ProgramInv, SessionsOK, Ends
<1>2. failed'["server"] = "" => failed["server"] = ""
  BY <1>1 DEF Errors
<1>3. Leaving'
  BY <1>1, <1>2 DEF Streams, Leaving, Runs
<1>4. Whole' /\ Starting' /\ Running' /\ Waiting'
  BY <1>1 DEF Streams, Whole, Starting, Running, Waiting
<1>. QED
  BY <1>3, <1>4 DEF Streams

\* A new connection, accepted: nothing but its command is under way.
LEMMA AcceptStreams ==
  ASSUME ProgramInv, Orderly, Streams, accept, ~server'.overlap
  PROVE  Streams'
<1>1. /\ server.accepted < client.so
      /\ server'.accepted = server.accepted + 1
      /\ UNCHANGED << client, sess, up, down, failed >>
  BY DEF accept, ProgramInv, ServerOK, Servers
<1>2. server.accepted \in Nat /\ client.so \in Nat
  BY InvFacts
<1>3. Arriving
  BY <1>1, <1>2, Accepted DEF Orderly
<1>4. /\ ~client.enable /\ down[client.so] = << >>
      /\ \E cmd : up[client.so] = << Command(cmd) >>
      /\ server'.accepted = client.so
  BY <1>1, <1>2, <1>3 DEF Arriving
<1>5. Quiet(up[client.so]) /\ Range(down[client.so]) = {}
  BY <1>4, CommandsQuiet, FramesIn
<1>6. Waiting'
  BY <1>1, <1>4, <1>5 DEF Waiting
<1>7. Leaving'
  BY <1>1, <1>2, <1>4 DEF Leaving
<1>8. Whole' /\ Starting' /\ Running'
  BY <1>1 DEF Streams, Whole, Starting, Running
<1>. QED
  BY <1>6, <1>7, <1>8 DEF Streams

\* The end of the last connection, with what was left of it.
LEMMA CloseStreams ==
  ASSUME ProgramInv, Orderly, Streams, NEW c \in Conns, close(c)
  PROVE  Streams'
<1>1. UNCHANGED << client, sess, down, failed >>
  BY DEF close
<1>2. /\ Arriving /\ client.so # 1
      /\ server'.accepted = server.accepted /\ server'.fd2rdt = {}
  BY CloseWhere
<1>3. client.so \in Nat
  BY InvFacts
<1>4. server.accepted # client.so /\ ~client.handshake_succ
  <2>1. server.accepted = client.so - 1 /\ ~client.enable
    BY <1>2 DEF Arriving
  <2>. QED
    BY <1>3, <2>1, NotYet
<1>5. Whole'
  BY <1>1 DEF Streams, Whole
<1>6. Starting' /\ Running' /\ Waiting' /\ Leaving'
  BY <1>1, <1>2, <1>4 DEF Starting, Running, Waiting, Leaving
<1>. QED
  BY <1>5, <1>6 DEF Streams

\* Acks up to one number are acks up to a greater one.
LEMMA AcksFurther ==
  ASSUME NEW pkts \in Seq(Packet), NEW a \in Nat, NEW b \in Nat, a <= b, AcksUpTo(pkts, a)
  PROVE  AcksUpTo(pkts, b)
<1>1. ASSUME NEW i \in 1 .. Len(pkts), pkts[i].kind = "ack" PROVE pkts[i].offset <= b
  <2>1. pkts[i] \in Packet
    OBVIOUS
  <2>2. pkts[i].offset \in Nat
    BY <1>1, <2>1 DEF Packet
  <2>3. pkts[i].offset <= a
    BY <1>1 DEF AcksUpTo
  <2>. QED
    BY <2>2, <2>3
<1>. QED
  BY <1>1 DEF AcksUpTo

\* Resent data holds no ack, and not the first byte.
LEMMA ResentFacts ==
  ASSUME NEW q, Resent(q)
  PROVE  AcksUpTo(q, 0) /\ NotFirst(q) /\ \A n : AcksAt(q, n)
<1>1. CASE q = << >>
  BY <1>1 DEF AcksUpTo, NotFirst, AcksAt
<1>2. CASE \E lo \in Nat \ {0}, len \in Nat : q = << DataPacket(lo, len) >>
  <2>1. PICK lo \in Nat \ {0}, len \in Nat : q = << DataPacket(lo, len) >>
    BY <1>2
  <2>2. Len(q) = 1 /\ q[1] = DataPacket(lo, len)
    BY <2>1
  <2>3. q[1].kind = "data" /\ q[1].lo > 0
    BY <2>2 DEF DataPacket
  <2>. QED
    BY <2>2, <2>3 DEF AcksUpTo, NotFirst, AcksAt
<1>. QED
  BY <1>1, <1>2 DEF Resent

\* What is left of the last connection: its data takes the server further along
\* the stream.
LEMMA LeavingInput ==
  ASSUME ProgramInv, Orderly, Streams, NEW c \in Conns, ServerInput(c),
         Arriving, client.so # 1, c = client.so - 1, Serves({c}, TRUE)
  PROVE  Streams'
<1>. DEFINE S == sess["server"]
            C == sess["client"]
            q == up[c]
            pkts == q[1].pkts
            T == rdts_input(S, pkts)
            m == MessagesIn(S, T)
<1>1. /\ Runs("server") /\ q # << >> /\ client' = client
      /\ up' = [up EXCEPT ![c] = Tail(@)]
      /\ ServerPolls(server, T, m, down)
  BY ServerInputFacts DEF ServerTakes, ServerReads
<1>2. /\ client.so \in Nat \ {0} /\ q \in Seq(Frames) /\ up \in [Conns -> Seq(Frames)]
      /\ server.accepted = client.so - 1 /\ ~client.enable
      /\ server.fd2rdt = {c} /\ server.enable
  BY InvFacts DEF ProgramInv, UpOK, Arriving, Serves
<1>3. ~client.handshake_succ /\ server.accepted # client.so /\ client.so \notin server.fd2rdt
  BY <1>2, NotYet
<1>4. /\ Sound(S) /\ S.rcv_raw_offset \in Nat /\ S.enable
      /\ C.sent \in Nat /\ C.remote_rcv_raw_offset \in Nat
  BY SessionNumbers DEF Ends, ProgramInv, ServerOK
<1>5. /\ S.received = Bytes(0, S.rcv_raw_offset) /\ S.snd_buf = << >> /\ C.snd_buf = << >>
      /\ C.remote_rcv_raw_offset <= S.rcv_raw_offset
      /\ FrameChain(q, S.rcv_raw_offset, C.sent)
  BY <1>1, <1>2 DEF Streams, Whole, Leaving
<1>6. pkts \in Seq(Packet)
  BY <1>1, UpTail, FrameFields
<1>. HIDE DEF S, C, q, pkts
<1>7. PICK b \in S.rcv_raw_offset .. C.sent :
         Chain(q[1].pkts, S.rcv_raw_offset, b) /\ FrameChain(Tail(q), b, C.sent)
  BY <1>1, <1>2, <1>4, <1>5, FramesTail
<1>8. /\ b \in Nat /\ S.rcv_raw_offset <= b /\ b <= C.sent
      /\ Chain(pkts, S.rcv_raw_offset, b)
  BY <1>4, <1>7 DEF pkts
<1>9. T.rcv_raw_offset = b /\ T.received = Bytes(0, b)
  BY <1>4, <1>5, <1>6, <1>8, InputChain
<1>10. Sound(T) /\ T.enable
  BY <1>4, <1>6, InputSound
<1>. HIDE DEF T, m
<1>11. /\ server' = server /\ down' = down
       /\ sess'["client"] = C
       /\ \/ ~Runs("server")' /\ sess' = sess
          \/ /\ sess'["server"].snd_buf = << >>
             /\ sess'["server"].rcv_raw_offset = T.rcv_raw_offset
             /\ sess'["server"].received = T.received
  BY <1>1, <1>2, <1>3, <1>10, PollsAway DEF C
<1>12. up'[c] = Tail(q)
  BY <1>1, <1>2 DEF q
<1>13. Whole'
  <2>1. CASE sess' = sess
    BY <2>1 DEF Streams, Whole
  <2>2. CASE sess' # sess
    BY <1>4, <1>5, <1>8, <1>9, <1>11, <2>2 DEF Whole
  <2>. QED
    BY <2>1, <2>2
<1>14. Leaving'
  BY <1>1, <1>7, <1>9, <1>11, <1>12 DEF Leaving
<1>15. Starting' /\ Running' /\ Waiting'
  BY <1>1, <1>3, <1>11 DEF Starting, Running, Waiting
<1>. QED
  BY <1>13, <1>14, <1>15 DEF Streams

\* A frame on the client's connection, given to the session.
LEMMA ServedInput ==
  ASSUME ProgramInv, Orderly, Streams, NEW c \in Conns, ServerInput(c), Both, c = client.so
  PROVE  Streams'
<1>. DEFINE S == sess["server"]
            C == sess["client"]
            q == up[c]
            pkts == q[1].pkts
            T == rdts_input(S, pkts)
            m == MessagesIn(S, T)
<1>1. /\ q # << >> /\ client' = client /\ Watched(c)
      /\ up' = [up EXCEPT ![c] = Tail(@)]
      /\ ServerPolls(server, T, m, down)
  BY ServerInputFacts DEF ServerTakes, ServerReads
<1>2. /\ client.so \in Nat \ {0} /\ q \in Seq(Frames) /\ up \in [Conns -> Seq(Frames)]
      /\ down \in [Conns -> Seq(Frames)]
      /\ server.accepted = client.so /\ client.enable
      /\ server.fd2rdt = {client.so} /\ server.enable
  BY InvFacts DEF ProgramInv, UpOK, DownOK, DownFits, Both, Serves
<1>3. /\ Sound(S) /\ S.rcv_raw_offset \in Nat /\ S.enable
      /\ C.sent \in Nat /\ C.remote_rcv_raw_offset \in Nat
  BY SessionNumbers DEF Ends, ProgramInv, ServerOK
<1>4. /\ S.received = Bytes(0, S.rcv_raw_offset) /\ S.snd_buf = << >> /\ C.snd_buf = << >>
      /\ C.remote_rcv_raw_offset <= S.rcv_raw_offset /\ S.rcv_raw_offset <= C.sent
  BY DEF Streams, Whole
<1>5. pkts \in Seq(Packet)
  BY <1>1, UpTail, FrameFields
<1>. HIDE DEF S, C, pkts
<1>6. Sound(T) /\ T.enable
  BY <1>3, <1>5, InputSound
<1>. HIDE DEF T, m
<1>7. /\ server' = server /\ sess'["client"] = C
      /\ sess'["server"].snd_buf = << >>
      /\ sess'["server"].rcv_raw_offset = T.rcv_raw_offset
      /\ sess'["server"].received = T.received
      /\ ToClient(down, T, m)
  BY <1>1, <1>2, <1>6, PollsToClient DEF C
<1>8. /\ \A x \in Range(down'[c]) :
            \/ x \in Range(down[c]) \/ x.pkts = T.snd_buf
            \/ (m # << >> /\ AcksUpTo(x.pkts, 0))
  BY <1>7 DEF ToClient
<1>9. up'[c] = Tail(q) /\ q[1] \in Range(q) /\ Range(Tail(q)) \subseteq Range(q)
  BY <1>1, <1>2, FramesIn DEF q
<1>10. Leaving'
  BY <1>1, <1>2, <1>7 DEF Leaving
<1>11. CASE client.handshake_succ
  <2>1. /\ ~C.need_ack /\ FrameChain(q, S.rcv_raw_offset, C.sent)
        /\ \A x \in Range(down[c]) : AcksUpTo(x.pkts, S.rcv_raw_offset)
    BY <1>11 DEF Streams, Running, S, C, q
  <2>. HIDE DEF q
  <2>2. PICK b \in S.rcv_raw_offset .. C.sent :
           Chain(q[1].pkts, S.rcv_raw_offset, b) /\ FrameChain(Tail(q), b, C.sent)
    BY <1>1, <1>2, <1>3, <2>1, FramesTail
  <2>3. /\ b \in Nat /\ S.rcv_raw_offset <= b /\ b <= C.sent
        /\ Chain(pkts, S.rcv_raw_offset, b)
    BY <1>3, <2>2 DEF pkts, q
  <2>4. T.rcv_raw_offset = b /\ T.received = Bytes(0, b) /\ AcksUpTo(T.snd_buf, b)
    <3>. DEFINE U == rdts_input(S, pkts)
    <3>1. U.rcv_raw_offset = b /\ U.received = Bytes(0, b) /\ AcksUpTo(U.snd_buf, b)
      BY <1>3, <1>4, <1>5, <2>3, InputChain
    <3>. QED
      BY <3>1 DEF T
  <2>5. Whole'
    BY <1>3, <1>4, <1>7, <2>3, <2>4 DEF Whole
  <2>6. ASSUME NEW x \in Range(down'[c]) PROVE AcksUpTo(x.pkts, b)
    <3>1. \/ AcksUpTo(x.pkts, S.rcv_raw_offset) \/ AcksUpTo(x.pkts, b) \/ AcksUpTo(x.pkts, 0)
      BY <1>8, <2>1, <2>4
    <3>2. x.pkts \in Seq(Packet)
      <4>1. ProgramInv'
        BY ServerInputKeeps
      <4>2. down'[c] \in Seq(Frames)
        BY <4>1 DEF ProgramInv, DownOK, DownFits
      <4>. QED
        BY <4>2, FramesIn, FrameFields
    <3>. QED
      BY <1>3, <2>3, <3>1, <3>2, AcksFurther
  <2>7. Running'
    BY <1>1, <1>7, <1>9, <2>1, <2>2, <2>4, <2>6 DEF Running
  <2>8. Starting' /\ Waiting'
    BY <1>1, <1>11 DEF Starting, Waiting
  <2>. QED
    BY <1>10, <2>5, <2>7, <2>8 DEF Streams
<1>12. CASE ~client.handshake_succ
  <2>1. Quiet(q)
    BY <1>2, <1>12 DEF Streams, Starting, Waiting, q
  <2>2. NoData(pkts) /\ Quiet(up'[c])
    BY <1>9, <2>1 DEF Quiet, pkts
  <2>3. T.received = S.received /\ T.rcv_raw_offset = S.rcv_raw_offset /\ Resent(T.snd_buf)
    BY <1>3, <1>4, <1>5, <2>2, InputQuiet DEF T
  <2>4. m = << >>
    BY <1>3, <2>3, NoMessages DEF m
  <2>5. /\ AcksUpTo(T.snd_buf, 0) /\ AcksAt(T.snd_buf, S.rcv_raw_offset)
        /\ NotFirst(T.snd_buf)
    BY <2>3, ResentFacts
  <2>6. Whole'
    BY <1>3, <1>4, <1>7, <2>3 DEF Whole
  <2>7. Starting'
    BY <1>1, <1>7, <1>8, <1>12, <2>2, <2>4, <2>5 DEF Streams, Starting, C
  <2>8. Waiting'
    BY <1>1, <1>7, <1>8, <1>12, <2>2, <2>3, <2>4, <2>5 DEF Streams, Waiting, C, S
  <2>9. Running'
    BY <1>1, <1>12 DEF Running
  <2>. QED
    BY <1>10, <2>6, <2>7, <2>8, <2>9 DEF Streams
<1>. QED
  BY <1>11, <1>12

\* LOGIN: nothing has been sent yet.
LEMMA ServerLoginStreams ==
  ASSUME ProgramInv, Orderly, Streams, NEW c \in Conns, ServerLogin(c), ~Raises
  PROVE  Streams'
<1>. DEFINE V == [server EXCEPT !.fd2rdt = @ \cup {c}, !.enable = FALSE]
            x == Command("HANDSHAKE_1")
<1>1. Told'
  BY ServerLoginOrder
<1>2. client'.so = 1 /\ server'.accepted = 1 /\ up'[1] = << >> /\ down'[1] = << x >>
  BY <1>1 DEF Told
<1>3. /\ client' = client /\ ~client.handshake_succ
  <2>1. client' = client
    BY DEF ServerLogin, AnswerFails, Raises, Errors, Ends
  <2>2. ~client'.enable
    BY <1>1 DEF Told
  <2>. QED
    BY <2>1, <2>2, NotYet
<1>4. sess' = sess
  <2>1. sess \in [Ends -> Session] /\ server \in Servers
    BY DEF ProgramInv, SessionsOK, ServerOK
  <2>2. V.enable = FALSE
    BY <2>1 DEF Servers
  <2>3. ServerPolls(V, sess["server"], << >>, Written(down, c, << x >>))
    BY DEF ServerLogin, AnswerFails, Raises, Errors, Ends
  <2>. HIDE DEF V
  <2>4. sess' = [sess EXCEPT !["server"] = sess["server"]]
    BY <2>2, <2>3 DEF ServerPolls
  <2>. QED
    BY <2>1, <2>4
<1>5. Quiet(<< >>) /\ x.pkts = << >> /\ AcksUpTo(<< >>, 0) /\ Range(<< x >>) = {x}
  BY CommandsQuiet, EmptyFrame, FramesIn
<1>. HIDE DEF x
<1>6. Whole'
  BY <1>4 DEF Streams, Whole
<1>7. Starting'
  BY <1>2, <1>3, <1>4, <1>5 DEF Streams, Starting
<1>8. Running' /\ Waiting' /\ Leaving'
  BY <1>2, <1>3 DEF Running, Waiting, Leaving
<1>. QED
  BY <1>6, <1>7, <1>8 DEF Streams

\* HANDSHAKE_2: the server's session, which has received nothing, and its first
\* message.
LEMMA ServerHandshake2Streams ==
  ASSUME ProgramInv, Orderly, Streams, NEW c \in Conns, ServerHandshake2(c), ~Raises
  PROVE  Streams'
<1>. DEFINE V == [server EXCEPT !.enable = TRUE]
            T == rdts_send(rdts_create, 1)
            C == sess["client"]
<1>1. /\ RawCommand(c, "HANDSHAKE_2") /\ ServerTakes(c) /\ client' = client
      /\ ServerPolls(V, T, << >>, down)
  BY DEF ServerHandshake2, Raises, Errors, Ends
<1>2. c = client.so /\ Confirmed /\ up'[c] = << >> /\ Watched(client.so)
  BY <1>1, CommandRead DEF RawCommand, ServerReads
<1>3. server \in Servers /\ down \in [Conns -> Seq(Frames)]
  BY DEF ProgramInv, ServerOK, DownOK, DownFits
<1>4. V.accepted = server.accepted /\ V.fd2rdt = server.fd2rdt /\ V.enable
  BY <1>3 DEF Servers
<1>5. /\ Sound(T) /\ T.enable /\ T.rcv_raw_offset = 0 /\ T.received = << >>
      /\ AcksUpTo(T.snd_buf, 0)
  <2>. DEFINE E == rdts_create
              d == DataPacket(E.sent, 1)
              U == rdts_send(E, 1)
  <2>1. /\ Sound(E) /\ E.enable /\ 1 \in Nat \ {0}
        /\ E.rcv_raw_offset = 0 /\ E.received = << >> /\ E.snd_buf = << >>
    BY CreateSound DEF rdts_create
  <2>2. Append(<< >>, d) = << d >> /\ d.kind = "data"
    BY DEF DataPacket
  <2>. HIDE DEF E
  <2>3. /\ Sound(U) /\ U.enable /\ U.rcv_raw_offset = 0 /\ U.received = << >>
        /\ U.snd_buf = << >> \/ U.snd_buf = << d >>
    BY <2>1, <2>2, SendSound
  <2>. HIDE DEF d
  <2>4. AcksUpTo(<< >>, 0) /\ AcksUpTo(<< d >>, 0)
    BY <2>2 DEF AcksUpTo
  <2>. HIDE DEF U
  <2>5. /\ Sound(U) /\ U.enable /\ U.rcv_raw_offset = 0 /\ U.received = << >>
        /\ AcksUpTo(U.snd_buf, 0)
    BY <2>3, <2>4
  <2>. QED
    BY <2>5 DEF U, E
<1>6. /\ c = 1 /\ client.so = 1 /\ client.enable /\ down[1] = << >> /\ server.accepted = 1
      /\ server.fd2rdt = {client.so}
  BY <1>2 DEF Confirmed, Serves
<1>7. ~client.handshake_succ
  <2>1. ~Both
    BY <1>2 DEF Both, Confirmed, Serves
  <2>. QED
    BY <2>1 DEF Orderly
<1>. HIDE DEF V, T
<1>8. /\ server' = V /\ ToClient(down, T, << >>)
      /\ sess'["client"] = C
      /\ sess'["server"].snd_buf = << >>
      /\ sess'["server"].rcv_raw_offset = 0
      /\ sess'["server"].received = << >>
  BY <1>1, <1>2, <1>3, <1>4, <1>5, <1>6, PollsToClient
<1>9. /\ C.sent = 0 /\ ~C.need_ack /\ C.snd_buf = << >> /\ C.remote_rcv_raw_offset <= 0
  <2>1. /\ C.sent = 0 /\ ~C.need_ack /\ C.snd_buf = << >>
        /\ C.remote_rcv_raw_offset <= sess["server"].rcv_raw_offset
        /\ sess["server"].rcv_raw_offset <= C.sent
    BY <1>6, <1>7 DEF Streams, Starting, Whole
  <2>2. C.remote_rcv_raw_offset \in Nat /\ sess["server"].rcv_raw_offset \in Nat
    BY SessionNumbers DEF Ends
  <2>. QED
    BY <2>1, <2>2
<1>10. Whole'
  <2>1. Bytes(0, 0) = << >>
    BY DEF Bytes
  <2>. QED
    BY <1>8, <1>9, <2>1 DEF Whole
<1>11. \A x \in Range(down'[1]) : AcksUpTo(x.pkts, 0)
  <2>1. Range(<< >>) = {}
    BY FramesIn
  <2>. QED
    BY <1>5, <1>6, <1>8, <2>1 DEF ToClient
<1>12. Quiet(up'[1])
  BY <1>2, <1>6, CommandsQuiet
<1>13. Starting'
  BY <1>1, <1>8, <1>9, <1>11, <1>12 DEF Starting
<1>14. Running' /\ Waiting' /\ Leaving'
  BY <1>1, <1>4, <1>6, <1>7, <1>8 DEF Running, Waiting, Leaving
<1>. QED
  BY <1>10, <1>13, <1>14 DEF Streams

\* RECONN_HANDSHAKE_1: the server says how much of the stream it has, and nothing
\* but that.
LEMMA ServerReconnectsStreams ==
  ASSUME ProgramInv, Orderly, Streams, NEW c \in Conns, ServerReconnects(c), ~Raises
  PROVE  Streams'
<1>. DEFINE S == sess["server"]
            C == sess["client"]
            B == disable_session(S)
            T == reconnect_session(B)
            P == pollout(T)
            V == Serve(server, c)
            x == Command("RECONN_HANDSHAKE_2")
            fs == << x >> \o Polled(T)
            D == Written(down, c, fs)
<1>1. /\ RawCommand(c, "RECONN_HANDSHAKE_1") /\ HasSession("server")
  BY ServerHasSession DEF ServerReconnects
<1>2. /\ ServerTakes(c) /\ client' = client
      /\ ServerPolls(V, P, << >>, D)
  BY <1>1 DEF ServerReconnects, AnswerFails, Raises, Errors, Ends
<1>3. c = client.so /\ c # 1 /\ Asked /\ up'[c] = << >> /\ Watched(c)
  BY <1>1, <1>2, CommandRead DEF RawCommand, ServerReads
<1>4. server \in Servers
  BY DEF ProgramInv, ServerOK
<1>5. V.accepted = server.accepted /\ V.fd2rdt = server.fd2rdt \cup {c} /\ V.enable
  BY <1>4 DEF Servers, Serve
<1>6. Sound(S) /\ S.rcv_raw_offset \in Nat
  BY SessionNumbers DEF Ends
<1>7. /\ Sound(B) /\ B.rcv_raw_offset = S.rcv_raw_offset /\ B.received = S.received
  <2>. HIDE DEF S
  <2>. QED
    BY <1>6, DisableSound
<1>8. /\ Sound(T) /\ T.enable
      /\ T.rcv_raw_offset = S.rcv_raw_offset /\ T.received = S.received
      /\ T.snd_buf = << AckPacket(S.rcv_raw_offset) >>
  <2>. HIDE DEF B, S
  <2>. QED
    BY <1>7, ReconnectSound
<1>9. /\ Sound(P) /\ P.enable
      /\ P.rcv_raw_offset = S.rcv_raw_offset /\ P.received = S.received
      /\ P.snd_buf = << >>
  <2>. HIDE DEF T, S
  <2>. QED
    BY <1>8, PolloutSound
<1>10. /\ down[c] = << >> /\ ~client.enable /\ server.accepted = client.so
       /\ server.fd2rdt = {}
  BY <1>3 DEF Asked, Serves
<1>11. ~client.handshake_succ
  BY <1>10, NotYet
<1>. HIDE DEF V, T, P, S, B
<1>12. Polled(T) \in Seq(Frames) /\ \A y \in Range(Polled(T)) : y.pkts = T.snd_buf
  BY <1>8, PolledFrames
<1>13. /\ x \in Frames /\ x.pkts = << >> /\ << x >> \in Seq(Frames) /\ Range(<< x >>) = {x}
  <2>1. x \in Frames /\ x.pkts = << >>
    BY DEF Frames, Commands, Command
  <2>. HIDE DEF x
  <2>. QED
    BY <2>1, FramesIn
<1>. HIDE DEF x
<1>14. fs \in Seq(Frames) /\ Range(fs) = {x} \cup Range(Polled(T))
  BY <1>12, <1>13, FramesIn
<1>15. D \in [Conns -> Seq(Frames)] /\ D[client.so] = fs
  BY <1>3, <1>10, <1>14, FirstWritten
<1>. HIDE DEF D, fs
<1>16. /\ server' = V /\ ToClient(D, P, << >>)
       /\ sess'["client"] = C
       /\ sess'["server"].snd_buf = << >>
       /\ sess'["server"].rcv_raw_offset = S.rcv_raw_offset
       /\ sess'["server"].received = S.received
  BY <1>2, <1>3, <1>5, <1>9, <1>10, <1>15, PollsToClient
<1>17. ASSUME NEW y \in Range(down'[c])
       PROVE  AcksAt(y.pkts, S.rcv_raw_offset) /\ NotFirst(y.pkts)
  <2>1. y.pkts = << >> \/ y.pkts = << AckPacket(S.rcv_raw_offset) >>
    BY <1>3, <1>8, <1>9, <1>12, <1>13, <1>14, <1>15, <1>16, <1>17 DEF ToClient
  <2>2. CASE y.pkts = << >>
    BY <1>6, <2>2, EmptyFrame
  <2>3. CASE y.pkts = << AckPacket(S.rcv_raw_offset) >>
    <3>1. /\ Len(y.pkts) = 1
          /\ y.pkts[1].kind = "ack" /\ y.pkts[1].offset = S.rcv_raw_offset
      BY <2>3 DEF AckPacket
    <3>. QED
      BY <3>1 DEF AcksAt, NotFirst
  <2>. QED
    BY <2>1, <2>2, <2>3
<1>18. Whole'
  BY <1>16 DEF Streams, Whole, S, C
<1>19. Waiting'
  <2>1. Quiet(up'[c])
    BY <1>3, CommandsQuiet
  <2>. QED
    BY <1>2, <1>3, <1>10, <1>16, <1>17, <2>1 DEF Waiting
<1>20. Starting' /\ Running' /\ Leaving'
  <2>1. client.so \in Nat
    BY InvFacts
  <2>. QED
    BY <1>2, <1>3, <1>5, <1>10, <1>11, <1>16, <2>1 DEF Starting, Running, Leaving
<1>. QED
  BY <1>18, <1>19, <1>20 DEF Streams

\* Some message of msgs is the first of the stream, HANDSHAKE_3.
Won(msgs) == \E i \in DOMAIN msgs : msgs[i] = 1

\* What the client's poll of session T leaves.
LEMMA PollLeaves ==
  ASSUME ProgramInv, NEW C \in Clients, C.so = client.so, NEW T, Sound(T), NEW msgs,
         NEW out \in Seq(Frames), ClientPolls(C, T, msgs, out)
  PROVE  /\ server' = server /\ failed' = failed
         /\ sess'["server"] = sess["server"]
         /\ sess'["client"].snd_buf = << >>
         /\ sess'["client"].need_ack = T.need_ack
         /\ sess'["client"].remote_rcv_raw_offset = T.remote_rcv_raw_offset
         /\ sess'["client"].sent = T.sent
         /\ up[client.so] \in Seq(Frames)
         /\ up'[client.so] = (up[client.so] \o out) \o Polled(T)
         /\ up[client.so] \o << >> = up[client.so]
         /\ client'.so = client.so /\ client'.enable = C.enable
         /\ client'.handshake_succ = (C.handshake_succ \/ Won(msgs))
<1>1. /\ sess \in [Ends -> Session] /\ Ends = {"client", "server"}
      /\ up \in [Conns -> Seq(Frames)] /\ client.so \in Conns
  BY InvFacts DEF ProgramInv, SessionsOK, UpOK, Ends
<1>2. /\ client' = IF Won(msgs) THEN [C EXCEPT !.handshake_succ = TRUE,
                                               !.need_reconn = ReconnAfter]
                   ELSE C
      /\ sess' = [sess EXCEPT !["client"] = pollout(T)]
      /\ up' = [up EXCEPT ![C.so] = @ \o out \o Polled(T)]
      /\ server' = server /\ failed' = failed
  BY DEF ClientPolls, Won
<1>3. /\ client'.so = client.so /\ client'.enable = C.enable
      /\ client'.handshake_succ = (C.handshake_succ \/ Won(msgs))
  <2>1. CASE Won(msgs)
    BY <1>2, <2>1 DEF Clients
  <2>2. CASE ~Won(msgs)
    <3>1. C.handshake_succ \in BOOLEAN
      BY DEF Clients
    <3>. QED
      BY <1>2, <2>2, <3>1
  <2>. QED
    BY <2>1, <2>2
<1>4. /\ pollout(T).snd_buf = << >> /\ pollout(T).need_ack = T.need_ack
      /\ pollout(T).remote_rcv_raw_offset = T.remote_rcv_raw_offset
      /\ pollout(T).sent = T.sent
  BY PolloutSound
<1>5. sess'["client"] = pollout(T) /\ sess'["server"] = sess["server"]
  BY <1>1, <1>2
<1>6. up[client.so] \in Seq(Frames) /\ up[client.so] \o << >> = up[client.so]
  BY <1>1
<1>. QED
  BY <1>1, <1>2, <1>3, <1>4, <1>5, <1>6

\* The client reads its session's frames on its own connection.
LEMMA ClientInputStreams ==
  ASSUME ProgramInv, Orderly, Streams, ClientInput
  PROVE  Streams'
<1>. DEFINE S == sess["client"]
            V == sess["server"]
            n == V.rcv_raw_offset
            q == up[client.so]
            pkts == Reading.pkts
            T == rdts_input(S, pkts)
            C == IF CalledBack(S, T) THEN Reconnected(client) ELSE client
            m == MessagesIn(S, T)
            so == client.so
<1>1. /\ ClientPolls(C, T, m, << >>)
      /\ ClientTakes /\ down[so] # << >> /\ client.enable
      /\ Sound(S) /\ Sound(T) /\ T.sent = S.sent
      /\ pkts \in Seq(Packet)
  BY ClientInputFacts
<1>2. Both
  BY <1>1, ReadingWhere DEF Told, Resumed
<1>3. so \in Nat \ {0} /\ server.accepted = so
  BY <1>2, InvFacts DEF Both
<1>4. /\ S.sent \in Nat /\ S.remote_rcv_raw_offset \in Nat /\ n \in Nat
      /\ T.sent \in Nat /\ T.remote_rcv_raw_offset \in Nat
      /\ T.need_ack \in BOOLEAN /\ T.snd_buf \in Seq(Packet)
  BY <1>1, SessionNumbers, SessionFields DEF Ends, Sound
<1>5. /\ V.received = Bytes(0, n) /\ S.snd_buf = << >> /\ V.snd_buf = << >>
      /\ S.remote_rcv_raw_offset <= n /\ n <= S.sent
  BY DEF Streams, Whole
<1>6. /\ Reading \in Range(down[so]) /\ Range(down'[so]) \subseteq Range(down[so])
  BY <1>1, DownTail
<1>7. /\ client \in Clients /\ C \in Clients /\ C.so = so /\ C.enable
      /\ C.handshake_succ = (client.handshake_succ \/ CalledBack(S, T))
  <2>1. client \in Clients /\ ReconnAfter \in {False} \cup 0 .. ReconnAfter
    BY ProgramsAssumption DEF ProgramInv, ClientOK, ProgramsAssumption
  <2>2. /\ Reconnected(client) \in Clients /\ Reconnected(client).so = so
        /\ Reconnected(client).enable = client.enable
        /\ Reconnected(client).handshake_succ = TRUE
    BY <2>1 DEF Reconnected, Clients
  <2>3. client.handshake_succ \in BOOLEAN /\ CalledBack(S, T) \in BOOLEAN
    BY <2>1 DEF Clients, CalledBack
  <2>. QED
    BY <1>1, <2>1, <2>2, <2>3
<1>8. ~S.need_ack => ~T.need_ack /\ NoData(T.snd_buf)
  <2>. HIDE DEF S, pkts
  <2>. QED
    BY <1>1, <1>5, InputServed
<1>9. AcksUpTo(pkts, n) => T.remote_rcv_raw_offset <= n
  <2>. HIDE DEF S, pkts, n
  <2>. QED
    BY <1>1, <1>4, <1>5, InputAcked
<1>10. S.need_ack /\ AcksAt(pkts, n) =>
          IF T.need_ack THEN NoData(T.snd_buf)
          ELSE n <= T.sent /\ Chain(T.snd_buf, n, T.sent)
  <2>. HIDE DEF S, pkts, n
  <2>. QED
    BY <1>1, <1>4, <1>5, InputAwaited
<1>11. NotFirst(pkts) => ~Won(m)
  <2>. HIDE DEF S, pkts
  <2>. QED
    BY <1>1, InputNotFirst DEF Won
<1>. HIDE DEF T, C, m
<1>12. /\ server' = server
       /\ sess'["server"] = V
       /\ sess'["client"].snd_buf = << >>
       /\ sess'["client"].need_ack = T.need_ack
       /\ sess'["client"].remote_rcv_raw_offset = T.remote_rcv_raw_offset
       /\ sess'["client"].sent = T.sent
       /\ q \in Seq(Frames) /\ up'[so] = q \o Polled(T)
       /\ client'.so = so /\ client'.enable = C.enable
       /\ client'.handshake_succ = (C.handshake_succ \/ Won(m))
  <2>1. << >> \in Seq(Frames)
    BY FramesIn
  <2>2. C \in Clients /\ C.so = client.so /\ Sound(T) /\ ClientPolls(C, T, m, << >>)
    BY <1>1, <1>7
  <2>. QED
    BY <2>1, <2>2, PollLeaves
<1>13. Leaving'
  BY <1>3, <1>12 DEF Leaving
<1>. HIDE DEF n, q, S, V, pkts
<1>14. T.remote_rcv_raw_offset <= n => Whole'
  BY <1>1, <1>5, <1>12 DEF Whole, n
<1>15. CASE client.handshake_succ
  <2>1. /\ ~S.need_ack /\ FrameChain(q, n, S.sent)
        /\ \A x \in Range(down[so]) : AcksUpTo(x.pkts, n)
    BY <1>15 DEF Streams, Running, S, V, n, q
  <2>2. AcksUpTo(pkts, n)
    BY <1>6, <2>1 DEF pkts
  <2>3. Chain(T.snd_buf, S.sent, S.sent)
    BY <1>4, <1>8, <2>1, ChainQuiet
  <2>4. FrameChain(q \o Polled(T), n, S.sent)
    BY <1>1, <1>4, <1>12, <2>1, <2>3, PollChain
  <2>5. Running'
    BY <1>1, <1>6, <1>8, <1>12, <2>1, <2>4 DEF Running, n
  <2>6. Starting' /\ Waiting'
    BY <1>7, <1>12, <1>15 DEF Starting, Waiting
  <2>. QED
    BY <1>9, <1>13, <1>14, <2>2, <2>5, <2>6 DEF Streams
<1>16. CASE ~client.handshake_succ /\ so = 1
  <2>1. /\ S.sent = 0 /\ ~S.need_ack /\ Quiet(q)
        /\ \A x \in Range(down[so]) : AcksUpTo(x.pkts, 0)
    BY <1>16 DEF Streams, Starting, S, q
  <2>2. n = 0
    BY <1>4, <1>5, <2>1
  <2>3. AcksUpTo(pkts, n)
    BY <1>6, <2>1, <2>2 DEF pkts
  <2>4. Quiet(q \o Polled(T))
    BY <1>1, <1>8, <1>12, <2>1, PollQuiet
  <2>5. Starting'
    BY <1>1, <1>6, <1>8, <1>12, <1>16, <2>1, <2>4 DEF Starting
  <2>6. FrameChain(q \o Polled(T), 0, 0)
    <3>1. Polled(T) \in Seq(Frames)
      BY <1>1, PolledFrames
    <3>2. q \o Polled(T) \in Seq(Frames)
      BY <1>12, <3>1, FramesIn
    <3>. QED
      BY <2>4, <3>2, FramesQuiet
  <2>7. Running'
    BY <1>1, <1>6, <1>8, <1>12, <2>1, <2>2, <2>6 DEF Running, n
  <2>8. Waiting'
    BY <1>12, <1>16 DEF Waiting
  <2>. QED
    BY <1>9, <1>13, <1>14, <2>3, <2>5, <2>7, <2>8 DEF Streams
<1>17. CASE ~client.handshake_succ /\ so # 1
  <2>1. /\ S.need_ack /\ Quiet(q)
        /\ \A x \in Range(down[so]) : AcksAt(x.pkts, n) /\ NotFirst(x.pkts)
    BY <1>1, <1>3, <1>17 DEF Streams, Waiting, S, V, n, q
  <2>2. AcksAt(pkts, n) /\ NotFirst(pkts)
    BY <1>6, <2>1 DEF pkts
  <2>3. AcksUpTo(pkts, n)
    BY <1>4, <2>2 DEF AcksAt, AcksUpTo
  <2>4. ~Won(m) /\ client'.handshake_succ = CalledBack(S, T)
    BY <1>7, <1>11, <1>12, <1>17, <2>2 DEF CalledBack
  <2>5. CASE T.need_ack
    <3>1. NoData(T.snd_buf)
      BY <1>10, <2>1, <2>2, <2>5
    <3>2. Quiet(q \o Polled(T))
      BY <1>1, <1>12, <2>1, <3>1, PollQuiet
    <3>3. ~client'.handshake_succ
      BY <2>4, <2>5 DEF CalledBack
    <3>4. Waiting'
      BY <1>6, <1>12, <2>1, <2>5, <3>2 DEF Waiting, n
    <3>5. Starting' /\ Running'
      BY <1>12, <1>17, <3>3 DEF Starting, Running
    <3>. QED
      BY <1>9, <1>13, <1>14, <2>3, <3>4, <3>5 DEF Streams
  <2>6. CASE ~T.need_ack
    <3>1. n <= T.sent /\ Chain(T.snd_buf, n, T.sent)
      BY <1>10, <2>1, <2>2, <2>6
    <3>2. FrameChain(q, n, n)
      BY <1>4, <1>12, <2>1, FramesQuiet
    <3>3. FrameChain(q \o Polled(T), n, T.sent)
      BY <1>1, <1>4, <1>12, <3>1, <3>2, PollChain
    <3>4. client'.handshake_succ
      BY <2>1, <2>4, <2>6 DEF CalledBack
    <3>5. \A x \in Range(down'[so]) : AcksUpTo(x.pkts, n)
      BY <1>4, <1>6, <2>1 DEF AcksAt, AcksUpTo
    <3>6. Running'
      BY <1>12, <2>6, <3>3, <3>5 DEF Running, n
    <3>7. Starting' /\ Waiting'
      BY <3>4 DEF Starting, Waiting
    <3>. QED
      BY <1>9, <1>13, <1>14, <2>3, <3>6, <3>7 DEF Streams
  <2>. QED
    BY <2>5, <2>6
<1>. QED
  BY <1>15, <1>16, <1>17

\* HANDSHAKE_1: the client's session, which has sent nothing.
LEMMA ClientHandshake1Streams ==
  ASSUME ProgramInv, Orderly, Streams, ClientHandshake1
  PROVE  Streams'
<1>. DEFINE C == [client EXCEPT !.enable = TRUE]
            x == Command("HANDSHAKE_2")
            q == up[client.so]
            E == rdts_create
            V == sess["server"]
<1>1. /\ client.so = 1 /\ ~client.enable /\ down[client.so] # << >>
      /\ ClientTakes
      /\ ClientPolls(C, E, << >>, << x >>)
      /\ C \in Clients /\ C.so = client.so /\ C.handshake_succ = client.handshake_succ
      /\ Sound(E) /\ << x >> \in Seq(Frames)
  BY ClientHandshake1Facts
<1>2. Told
  BY <1>1, ReadingWhere DEF Both, Resumed
<1>3. ~client.handshake_succ
  BY <1>1, NotYet
<1>4. /\ E.sent = 0 /\ ~E.need_ack /\ E.remote_rcv_raw_offset = 0
      /\ Polled(E) = << >>
  BY DEF rdts_create, Polled
<1>5. /\ V.received = Bytes(0, V.rcv_raw_offset) /\ V.snd_buf = << >>
      /\ V.rcv_raw_offset <= 0 /\ V.rcv_raw_offset \in Nat
      /\ \A y \in Range(down[1]) : AcksUpTo(y.pkts, 0)
  <2>1. V.rcv_raw_offset \in Nat
    BY SessionNumbers DEF Ends
  <2>. QED
    BY <1>1, <1>3, <2>1 DEF Streams, Whole, Starting
<1>6. Range(down'[1]) \subseteq Range(down[1])
  BY <1>1, DownTail
<1>7. ~Won(<< >>)
  BY DEF Won
<1>. HIDE DEF C, E, x
<1>8. /\ server' = server
      /\ sess'["server"] = V
      /\ sess'["client"].snd_buf = << >>
      /\ sess'["client"].need_ack = E.need_ack
      /\ sess'["client"].remote_rcv_raw_offset = E.remote_rcv_raw_offset
      /\ sess'["client"].sent = E.sent
      /\ up'[client.so] = (q \o << x >>) \o Polled(E)
      /\ client'.so = client.so
      /\ client'.handshake_succ = (C.handshake_succ \/ Won(<< >>))
  BY <1>1, PollLeaves
<1>9. up'[1] = << x >>
  <2>1. q = << >>
    BY <1>1, <1>2 DEF Told
  <2>2. (<< >> \o << x >>) \o << >> = << x >>
    OBVIOUS
  <2>. QED
    BY <1>1, <1>4, <1>8, <2>1, <2>2
<1>10. Quiet(up'[1])
  BY <1>9, CommandsQuiet DEF x
<1>11. ~client'.handshake_succ
  BY <1>1, <1>3, <1>7, <1>8
<1>12. Whole'
  BY <1>4, <1>5, <1>8 DEF Whole
<1>13. Starting'
  BY <1>1, <1>4, <1>5, <1>6, <1>8, <1>10 DEF Starting
<1>14. Running' /\ Waiting' /\ Leaving'
  <2>1. server.accepted = 1
    BY <1>2 DEF Told
  <2>. QED
    BY <1>1, <1>8, <1>11, <2>1 DEF Running, Waiting, Leaving
<1>. QED
  BY <1>12, <1>13, <1>14 DEF Streams

\* RECONN_HANDSHAKE_2: the client asks for what it has not been told, and sends
\* nothing but what it has received.
LEMMA ClientHandshake2Streams ==
  ASSUME ProgramInv, Orderly, Streams, ClientHandshake2
  PROVE  Streams'
<1>. DEFINE C == [client EXCEPT !.enable = TRUE]
            S == sess["client"]
            T == reconnect_session(S)
            V == sess["server"]
            q == up[client.so]
            so == client.so
<1>1. /\ so # 1 /\ ~client.enable /\ down[so] # << >>
      /\ ClientTakes
      /\ ClientPolls(C, T, << >>, << >>)
      /\ C \in Clients /\ C.so = so /\ C.handshake_succ = client.handshake_succ
      /\ Sound(T) /\ T.need_ack
      /\ T.remote_rcv_raw_offset = S.remote_rcv_raw_offset /\ T.sent = S.sent
      /\ T.snd_buf = << AckPacket(S.rcv_raw_offset) >>
  BY ClientHandshake2Facts
<1>2. Resumed
  BY <1>1, ReadingWhere DEF Both, Told
<1>3. ~client.handshake_succ
  BY <1>1, NotYet
<1>4. server.accepted = so /\ q = << >> /\ so \in Nat
  BY <1>2, InvFacts DEF Resumed
<1>5. /\ V.received = Bytes(0, V.rcv_raw_offset) /\ V.snd_buf = << >>
      /\ S.remote_rcv_raw_offset <= V.rcv_raw_offset /\ V.rcv_raw_offset <= S.sent
      /\ \A x \in Range(down[so]) : AcksAt(x.pkts, V.rcv_raw_offset) /\ NotFirst(x.pkts)
  BY <1>1, <1>3, <1>4 DEF Streams, Whole, Waiting
<1>6. Range(down'[so]) \subseteq Range(down[so])
  BY <1>1, DownTail
<1>7. NoData(T.snd_buf)
  <2>1. /\ Len(<< AckPacket(S.rcv_raw_offset) >>) = 1
        /\ << AckPacket(S.rcv_raw_offset) >>[1].kind = "ack"
    BY DEF AckPacket
  <2>. QED
    BY <1>1, <2>1 DEF NoData
<1>8. ~Won(<< >>) /\ << >> \in Seq(Frames) /\ Quiet(<< >>)
  <2>1. ~Won(<< >>)
    BY DEF Won
  <2>. QED
    BY <2>1, FramesIn, CommandsQuiet
<1>. HIDE DEF C, T
<1>9. /\ server' = server
      /\ sess'["server"] = V
      /\ sess'["client"].snd_buf = << >>
      /\ sess'["client"].need_ack = T.need_ack
      /\ sess'["client"].remote_rcv_raw_offset = T.remote_rcv_raw_offset
      /\ sess'["client"].sent = T.sent
      /\ up'[so] = (q \o << >>) \o Polled(T) /\ q \o << >> = q
      /\ client'.so = so
      /\ client'.handshake_succ = (C.handshake_succ \/ Won(<< >>))
  BY <1>1, <1>8, PollLeaves
<1>10. Quiet(up'[so])
  <2>1. Quiet(<< >> \o Polled(T))
    BY <1>1, <1>7, <1>8, PollQuiet
  <2>. QED
    BY <1>4, <1>9, <2>1
<1>11. ~client'.handshake_succ
  BY <1>1, <1>3, <1>8, <1>9
<1>12. Whole'
  BY <1>1, <1>5, <1>9 DEF Whole
<1>13. Waiting'
  BY <1>1, <1>5, <1>6, <1>9, <1>10 DEF Waiting
<1>14. Starting' /\ Running' /\ Leaving'
  BY <1>1, <1>4, <1>9, <1>11 DEF Starting, Running, Leaving
<1>. QED
  BY <1>12, <1>13, <1>14 DEF Streams

\* Two messages more lead on from the end of the stream.
LEMMA ClientTimeoutStreams ==
  ASSUME ProgramInv, Orderly, Streams, ClientTimeout
  PROVE  Streams'
<1>. DEFINE S == sess["client"]
            V == sess["server"]
            q == up[client.so]
            so == client.so
<1>1. /\ Counted \in Clients /\ Counted.so = so /\ Counted.enable = client.enable
      /\ Counted.handshake_succ = client.handshake_succ
      /\ \/ /\ client.handshake_succ
            /\ ClientPolls(Counted, Two, << >>, << >>)
            /\ UNCHANGED << down, created >>
         \/ /\ ~client.handshake_succ
            /\ client' = Counted
            /\ UNCHANGED << server, sess, created, up, down, open, failed >>
  BY ClientTimeoutFacts
<1>2. CASE ~client.handshake_succ
  BY <1>1, <1>2 DEF Streams, Whole, Starting, Running, Waiting, Leaving, Runs
<1>3. CASE client.handshake_succ
  <2>1. /\ ~S.need_ack /\ FrameChain(q, V.rcv_raw_offset, S.sent)
        /\ \A x \in Range(down[so]) : AcksUpTo(x.pkts, V.rcv_raw_offset)
        /\ V.received = Bytes(0, V.rcv_raw_offset) /\ V.snd_buf = << >> /\ S.snd_buf = << >>
        /\ S.remote_rcv_raw_offset <= V.rcv_raw_offset /\ V.rcv_raw_offset <= S.sent
    BY <1>3 DEF Streams, Running, Whole
  <2>2. /\ Sound(Two) /\ Two.need_ack = S.need_ack
        /\ Two.remote_rcv_raw_offset = S.remote_rcv_raw_offset
        /\ S.sent <= Two.sent /\ Chain(Two.snd_buf, S.sent, Two.sent)
    BY <2>1, TwoSound
  <2>3. /\ V.rcv_raw_offset \in Nat /\ S.sent \in Nat /\ Two.sent \in Nat
    BY <2>2, SessionNumbers, SessionFields DEF Ends, Sound
  <2>4. ~Won(<< >>) /\ << >> \in Seq(Frames)
    BY FramesIn DEF Won
  <2>5. Both
    BY <1>3 DEF Orderly
  <2>6. server.accepted = so /\ so \in Nat
    BY <2>5, InvFacts DEF Both
  <2>7. /\ server' = server
        /\ sess'["server"] = V
        /\ sess'["client"].snd_buf = << >>
        /\ sess'["client"].need_ack = Two.need_ack
        /\ sess'["client"].remote_rcv_raw_offset = Two.remote_rcv_raw_offset
        /\ sess'["client"].sent = Two.sent
        /\ q \in Seq(Frames)
        /\ up'[so] = (q \o << >>) \o Polled(Two) /\ q \o << >> = q
        /\ client'.so = so
        /\ client'.handshake_succ = (Counted.handshake_succ \/ Won(<< >>))
    <3>1. ClientPolls(Counted, Two, << >>, << >>) /\ Counted \in Clients /\ Counted.so = client.so
      BY <1>1, <1>3
    <3>. QED
      BY <2>2, <2>4, <3>1, PollLeaves
  <2>. HIDE DEF q, V, S
  <2>8. FrameChain(q \o Polled(Two), V.rcv_raw_offset, Two.sent)
    BY <2>1, <2>2, <2>3, <2>7, PollChain
  <2>9. Whole'
    BY <2>1, <2>2, <2>3, <2>7 DEF Whole
  <2>10. Running'
    BY <1>1, <1>3, <2>1, <2>2, <2>7, <2>8 DEF Running
  <2>11. client'.handshake_succ
    BY <1>1, <1>3, <2>7
  <2>12. Starting' /\ Waiting'
    BY <2>11 DEF Starting, Waiting
  <2>13. Leaving'
    BY <2>6, <2>7 DEF Leaving
  <2>. QED
    BY <2>9, <2>10, <2>12, <2>13 DEF Streams
<1>. QED
  BY <1>2, <1>3

\* What the client leaves behind leads to the end of its stream.
LEMMA TestReconnStreams ==
  ASSUME ProgramInv, Orderly, Streams, test_reconn
  PROVE  Streams'
<1>. DEFINE old == client.so
            new == client.so + 1
            S == sess["client"]
            V == sess["server"]
            q == up[old]
            P == pollout(Two)
            T == disable_session(P)
<1>1. /\ old \in Conns /\ new # old
      /\ client.need_reconn = 1
      /\ client'.so = new /\ ~client'.handshake_succ
      /\ sess' = [sess EXCEPT !["client"] = T]
      /\ up'[old] = q \o Polled(Two)
      /\ server' = server
  BY TestReconnFacts
<1>2. client.handshake_succ /\ Both
  BY <1>1 DEF Orderly
<1>3. server.accepted = old /\ old \in Nat \ {0} /\ q \in Seq(Frames)
  BY <1>2, InvFacts DEF Both
<1>4. /\ FrameChain(q, V.rcv_raw_offset, S.sent)
      /\ V.received = Bytes(0, V.rcv_raw_offset) /\ V.snd_buf = << >> /\ S.snd_buf = << >>
      /\ S.remote_rcv_raw_offset <= V.rcv_raw_offset /\ V.rcv_raw_offset <= S.sent
  BY <1>2 DEF Streams, Running, Whole
<1>5. /\ Sound(Two)
      /\ Two.remote_rcv_raw_offset = S.remote_rcv_raw_offset
      /\ S.sent <= Two.sent /\ Chain(Two.snd_buf, S.sent, Two.sent)
  BY <1>4, TwoSound
<1>6. /\ V.rcv_raw_offset \in Nat /\ S.sent \in Nat /\ Two.sent \in Nat
  BY <1>5, SessionNumbers, SessionFields DEF Ends, Sound
<1>7. /\ Sound(P) /\ P.snd_buf = << >> /\ P.sent = Two.sent
      /\ P.remote_rcv_raw_offset = Two.remote_rcv_raw_offset
  BY <1>5, PolloutSound
<1>8. /\ T.snd_buf = << >> /\ T.sent = Two.sent
      /\ T.remote_rcv_raw_offset = Two.remote_rcv_raw_offset
  <2>. HIDE DEF P
  <2>. QED
    BY <1>7, DisableSound
<1>. HIDE DEF T, P
<1>9. sess'["client"] = T /\ sess'["server"] = V
  <2>1. sess \in [Ends -> Session] /\ Ends = {"client", "server"}
    BY DEF ProgramInv, SessionsOK, Ends
  <2>. QED
    BY <1>1, <2>1
<1>. HIDE DEF q, S, V
<1>10. FrameChain(q \o Polled(Two), V.rcv_raw_offset, Two.sent)
  BY <1>3, <1>4, <1>5, <1>6, PollChain
<1>11. Whole'
  BY <1>4, <1>5, <1>6, <1>8, <1>9 DEF Whole
<1>12. Leaving'
  <2>1. new - 1 = old
    BY <1>3
  <2>. QED
    BY <1>1, <1>8, <1>9, <1>10, <2>1 DEF Leaving
<1>13. Starting' /\ Running' /\ Waiting'
  <2>1. new # 1
    BY <1>3
  <2>. QED
    BY <1>1, <1>3, <2>1 DEF Starting, Running, Waiting
<1>. QED
  BY <1>11, <1>12, <1>13 DEF Streams

\* Nothing sent, nothing received.
LEMMA InitStreams ==
  ASSUME ProgramsAssumption, Init
  PROVE  Streams
<1>. DEFINE E == rdts_create
<1>1. /\ sess["client"] = E /\ sess["server"] = E
      /\ client.so = 1 /\ ~client.handshake_succ
      /\ server.fd2rdt = {}
      /\ up[1] = << Command("LOGIN") >> /\ down[1] = << >>
  <2>1. 1 \in Conns
    BY DEF ProgramsAssumption, Conns
  <2>. QED
    BY <2>1 DEF Init, Ends
<1>2. /\ E.received = << >> /\ E.rcv_raw_offset = 0 /\ E.snd_buf = << >> /\ E.sent = 0
      /\ E.remote_rcv_raw_offset = 0 /\ ~E.need_ack
  BY DEF rdts_create
<1>. HIDE DEF E
<1>3. Bytes(0, 0) = << >> /\ Quiet(<< Command("LOGIN") >>) /\ Range(<< >>) = {}
  <2>1. Bytes(0, 0) = << >>
    BY DEF Bytes
  <2>. QED
    BY <2>1, CommandsQuiet, FramesIn
<1>4. Whole
  BY <1>1, <1>2, <1>3 DEF Whole
<1>5. Starting
  BY <1>1, <1>2, <1>3 DEF Starting
<1>6. Running /\ Waiting /\ Leaving
  BY <1>1 DEF Running, Waiting, Leaving
<1>. QED
  BY <1>4, <1>5, <1>6 DEF Streams

\* Every step that lets no connections overlap keeps the streams whole.
LEMMA StepStreams ==
  ASSUME ProgramInv, Orderly, Streams, [Next]_vars, ~server'.overlap
  PROVE  Streams'
<1>0. CASE Raises
  BY <1>0, FailStreams
<1>1. CASE ClientNext /\ ~Raises
  BY <1>1, QuietClient, ClientInputStreams, ClientHandshake1Streams, ClientHandshake2Streams,
     ClientTimeoutStreams, TestReconnStreams
<1>2. ASSUME NEW c \in Conns, ServerInput(c) PROVE Streams'
  <2>1. ServerReads(c) /\ ToSession(c)
    BY <1>2 DEF ServerInput
  <2>2. \/ Arriving /\ client.so # 1 /\ c = client.so - 1 /\ Serves({c}, TRUE)
        \/ Both /\ c = client.so
    BY <1>2, <2>1, InputWhere
  <2>. QED
    BY <1>2, <2>2, LeavingInput, ServedInput
<1>3. ASSUME NEW c \in Conns,
             \/ close(c) \/ ServerLogin(c)
             \/ ServerHandshake2(c) \/ ServerReconnects(c) \/ ServerOther(c),
             ~Raises
      PROVE  Streams'
  BY <1>3, CloseStreams, ServerLoginStreams, ServerHandshake2Streams,
     ServerReconnectsStreams, NoOther
<1>5. CASE UNCHANGED vars
  BY <1>5 DEF vars, Streams, Whole, Starting, Running, Waiting, Leaving, Runs
<1>4. CASE ServerNext /\ ~Raises
  BY <1>2, <1>3, <1>4, <1>5, AcceptStreams, PartChangesNothing DEF ServerNext
<1>. QED
  BY <1>0, <1>1, <1>4, <1>5 DEF Next

\* As long as connections do not overlap, what is under way on the client's
\* connection, or left on the one before, is the rest of the client's stream from
\* where the server is.
THEOREM StreamInvariance == Spec => []StreamsInv
<1>1. Init => StreamsInv
  BY InitStreams, ProgramsAssumption DEF StreamsInv
<1>2. ProgramInv /\ OrderlyInv /\ StreamsInv /\ [Next]_vars => StreamsInv'
  BY StepStreams, OverlapStays DEF OrderlyInv, StreamsInv
<1>. QED
  BY <1>1, <1>2, ProgramInvariance, OrderInvariance, PTL DEF Spec

\* README.md:55: the client's messages reach the server once each and in order,
\* over any number of reconnects in which connections end before the next begins.
THEOREM ClientStreamIsWhole == Spec => []ClientStreamIntact
<1>1. StreamsInv => ClientStreamIntact
  BY DEF StreamsInv, Streams, Whole, ClientStreamIntact, ClientStream
<1>. QED
  BY <1>1, StreamInvariance, PTL

\* When a reconnected client and the sockets have come to rest the server has
\* every message of the client: nothing was lost with the connections it closed.
THEOREM RestedStreamIsComplete == Spec => []RestIsComplete
<1>1. ASSUME ProgramInv, StreamsInv, Rest, ~server.overlap
      PROVE  sess["server"].rcv_raw_offset = sess["client"].sent
  <2>1. client.so \in Conns /\ up[client.so] \in Seq(Frames)
    BY <1>1, InvFacts
  <2>2. sess["server"].rcv_raw_offset \in Nat /\ sess["client"].sent \in Nat
    BY <1>1, SessionNumbers DEF Ends
  <2>3. /\ up[client.so] = << >>
        /\ FrameChain(up[client.so], sess["server"].rcv_raw_offset, sess["client"].sent)
    BY <1>1, <2>1 DEF StreamsInv, Streams, Running, Rest
  <2>. QED
    BY <2>1, <2>2, <2>3, FramesBounds
<1>2. ProgramInv /\ StreamsInv => RestIsComplete
  BY <1>1 DEF RestIsComplete
<1>. QED
  BY <1>2, ProgramInvariance, StreamInvariance, PTL

=============================================================================
