----------------------------- MODULE RdtPrograms -----------------------------
(***************************************************************************)
(* rdt_client.lua and rdt_server.lua: the first handshake, the reconnect   *)
(* test and the two select loops, with the sockets they run over.          *)
(*                                                                         *)
(*   client  LOGIN                -->                                      *)
(*           <--  HANDSHAKE_1         server: fd2rdt, enable = false       *)
(*   client  HANDSHAKE_2          -->     rdt_create, enable = true        *)
(*           <--  HANDSHAKE_3 (the first message of the session)           *)
(*                                                                         *)
(* One client, hence one session id.  A message is one byte of the stream  *)
(* of RdtSession; a frame is what one sendmsgbyso carries: a command, or   *)
(* all packets of one rdt_poll.  Connections are numbered in the order     *)
(* they are made; the number stands for the server's fd too.  The          *)
(* connection of rdt_client.lua:81, never used, is left out.               *)
(*                                                                         *)
(* Nothing orders what two connections deliver: the server may read the    *)
(* new one before the rest of the old, and learn late, after a timeout,    *)
(* that the old one is gone.  overlap remembers whether it ever accepted   *)
(* one before it had seen the last one end.                                *)
(*                                                                         *)
(* A Lua error ends a program, and failed says which: a call or an assert  *)
(* that raises is written as an outcome of the step that makes it, those   *)
(* that should never raise too.  What that step did before is left out:    *)
(* the program is gone, and its peer has seen nothing of it.  That the     *)
(* server goes on after the end of the client is left out as well.         *)
(***************************************************************************)
EXTENDS RdtSession, SequencesExt

CONSTANTS
    ReconnAfter,  \* timeouts before the reconnect test, 5 in rdt_client.lua
    MaxSent,      \* bound: messages each side sends
    MaxConns      \* bound: connections

ASSUME ProgramsAssumption ==
    /\ ReconnAfter \in Nat \ {0}
    /\ MaxSent \in Nat
    /\ MaxConns \in Nat \ {0}

Conns == 1 .. MaxConns

VARIABLES
    client,   \* so, enable, handshake_succ, need_reconn of rdt_client.lua
    server,   \* connections accepted and closed, fd2rdt, enable[sid] of rdt_server.lua;
              \* overlap is a history
    sess,     \* sess[e]: the session, once created
    created,  \* created[e]: has e called rdt_create
    up,       \* up[c]: frames from the client under way on connection c
    down,     \* down[c]: frames from the server under way on c
    open,     \* open[c]: the client has c open
    failed    \* failed[e]: the error that has ended e's program, "" while it runs

vars == << client, server, sess, created, up, down, open, failed >>

Ends == {"client", "server"}

\* What may raise an error: a call into the engine or the socket, an assert, or
\* arithmetic.
Errors == {"no session", "rdt_create", "no socket", "write failed", "server ended",
           "part of a packet", "nothing to send", "need_reconn"}

\* need_reconn before the first handshake is done.
False == -1

Command(cmd) == [kind |-> "command", cmd |-> cmd, pkts |-> << >>]
Frame(pkts)  == [kind |-> "rdt", cmd |-> "", pkts |-> pkts]

Commands == {Command(c) : c \in {"LOGIN", "HANDSHAKE_1", "HANDSHAKE_2",
                                 "RECONN_HANDSHAKE_1", "RECONN_HANDSHAKE_2"}}

IsFrame(f) ==
    f \in Commands \/ (f.kind = "rdt" /\ f.pkts \in Seq(Packet))

Init ==
    /\ client = [so |-> 1, enable |-> FALSE, handshake_succ |-> FALSE,
                 need_reconn |-> False]
    /\ server = [accepted |-> 0, closed |-> {}, fd2rdt |-> {}, enable |-> FALSE,
                 overlap |-> FALSE]
    /\ sess = [e \in Ends |-> rdts_create]
    /\ created = [e \in Ends |-> FALSE]
    /\ up = [c \in Conns |-> IF c = 1 THEN << Command("LOGIN") >> ELSE << >>]
    /\ down = [c \in Conns |-> << >>]
    /\ open = [c \in Conns |-> c = 1]
    /\ failed = [e \in Ends |-> ""]

-----------------------------------------------------------------------------
(* Calls both programs make *)

\* get_session of the Lua modules: anything but a created and enabled session
\* is an error.
HasSession(e) == created[e] /\ sess[e].enable

\* rdts_input on all packets of a frame.
rdts_input(S, pkts) ==
    FoldLeft(LAMBDA T, p : IF p.kind = "ack" THEN rdts_on_rcv_ack(T, p.offset)
                           ELSE rdts_on_rcv_data(T, p.lo, p.len),
             S, pkts)

\* OnSessionReconnected ran between S and T.
CalledBack(S, T) == S.need_ack /\ ~T.need_ack

\* Messages put into raw_rcv_buf between S and T, all taken by the next poll.
MessagesIn(S, T) == SubSeq(T.received, Len(S.received) + 1, Len(T.received))

\* What rdt_poll gives to the socket, as frames: all of snd_buf in one.
Polled(S) == IF S.snd_buf = << >> THEN << >> ELSE << Frame(S.snd_buf) >>

Runs(e) == failed[e] = ""

Fail(e, why) ==
    /\ failed' = [failed EXCEPT ![e] = why]
    /\ UNCHANGED << client, server, sess, created, up, down, open >>

-----------------------------------------------------------------------------
(* rdt_client.lua.  While not enabled the client never reads anything but *)
(* the two commands: see NoFrameIsACommand.                               *)

\* The rest of a client step: poll(so) on session T, after out has been
\* written to so.  In reading order: packets out, then messages in, of which
\* the first of the session is HANDSHAKE_3.
ClientPolls(C, T, msgs, out) ==
    LET won == \E i \in DOMAIN msgs : msgs[i] = 1
    IN  /\ client' = IF won THEN [C EXCEPT !.handshake_succ = TRUE,
                                           !.need_reconn = ReconnAfter]
                     ELSE C
        /\ sess' = [sess EXCEPT !["client"] = pollout(T)]
        /\ up' = [up EXCEPT ![C.so] = @ \o out \o Polled(T)]
        /\ UNCHANGED << server, open, failed >>

Reading == down[client.so][1]

\* The main loop's read, with something to read on so, the one socket of its select:
\* assert(r[1] == so) holds.
ClientReads == Runs("client") /\ down[client.so] # << >>

ClientTakes == down' = [down EXCEPT ![client.so] = Tail(@)]

\* assert(so:recv_packet()): the read gives false when it finds part of a packet.
ClientReadsPart == ClientReads /\ Fail("client", "part of a packet")

\* A server that has ended leaves its client a read that gives nil, a write or
\* a connect that fails.
ClientLosesServer ==
    Runs("client") /\ ~Runs("server") /\ Fail("client", "server ended")

\* OnSessionReconnected
Reconnected(C) == [C EXCEPT !.handshake_succ = TRUE, !.need_reconn = ReconnAfter]

\* enable: the frame goes to the session.
ClientInput ==
    /\ ClientReads
    /\ client.enable
    /\ IF HasSession("client")
       THEN LET S == sess["client"]
                T == rdts_input(S, Reading.pkts)
                C == IF CalledBack(S, T) THEN Reconnected(client) ELSE client
            IN  /\ ClientPolls(C, T, MessagesIn(S, T), << >>)
                /\ ClientTakes
                /\ UNCHANGED created
       ELSE Fail("client", "no session")

ClientHandshake1 ==
    /\ ClientReads
    /\ ~client.enable
    /\ Reading = Command("HANDSHAKE_1")
    /\ ClientPolls([client EXCEPT !.enable = TRUE], rdts_create, << >>,
                   << Command("HANDSHAKE_2") >>)
    /\ ClientTakes
    /\ created' = [created EXCEPT !["client"] = TRUE]

ClientHandshake2 ==
    /\ ClientReads
    /\ ~client.enable
    /\ Reading = Command("RECONN_HANDSHAKE_2")
    /\ IF created["client"]
       THEN /\ ClientPolls([client EXCEPT !.enable = TRUE],
                           reconnect_session(sess["client"]), << >>, << >>)
            /\ ClientTakes
            /\ UNCHANGED created
       ELSE Fail("client", "no session")

\* Nothing has come for a second, though it may be under way.
TimesOut == Runs("client")

Two == rdts_send(rdts_send(sess["client"], 1), 1)

\* The loop's other branch while need_reconn is still false: arithmetic on it
\* raises.
ClientTimesOutEarly ==
    TimesOut /\ client.need_reconn = False /\ Fail("client", "need_reconn")

\* need_reconn is counted down; two messages are sent if the session is up.
ClientTimeout ==
    /\ TimesOut
    /\ client.need_reconn \notin {False, 1}
    /\ LET left == IF client.need_reconn > 0 THEN client.need_reconn - 1 ELSE 0
           C    == [client EXCEPT !.need_reconn = left]
       IN  IF ~client.handshake_succ
           THEN /\ client' = C
                /\ UNCHANGED << server, sess, created, up, down, open, failed >>
           ELSE IF HasSession("client")
           THEN /\ sess["client"].sent + 2 <= MaxSent
                /\ ClientPolls(C, Two, << >>, << >>)
                /\ UNCHANGED << down, created >>
           ELSE Fail("client", "no session")

\* enable left on
Bug_Restarted == [so |-> client.so + 1, enable |-> TRUE, handshake_succ |-> FALSE,
                  need_reconn |-> 0]

\* The client once it has a new connection.
Restarted == [so |-> client.so + 1, enable |-> FALSE, handshake_succ |-> FALSE,
              need_reconn |-> 0]

\* need_reconn reaches 0: test_reconn.  Two last messages go out on the old
\* connection, which is closed at once.
test_reconn ==
    /\ TimesOut
    /\ client.need_reconn = 1
    /\ sess["client"].sent + 2 <= MaxSent
    /\ client.so < MaxConns
    /\ IF HasSession("client")
       THEN LET old == client.so
                new == client.so + 1
            IN  /\ client' = Restarted
                /\ sess' = [sess EXCEPT !["client"] = disable_session(pollout(Two))]
                /\ up' = [up EXCEPT ![old] = @ \o Polled(Two),
                                    ![new] = << Command("RECONN_HANDSHAKE_1") >>]
                /\ down' = [down EXCEPT ![old] = << >>]
                /\ open' = [open EXCEPT ![old] = FALSE, ![new] = TRUE]
                /\ UNCHANGED << server, created, failed >>
       ELSE Fail("client", "no session")

-----------------------------------------------------------------------------
(* rdt_server.lua *)

\* Connections the server's select watches.
Watched(c) == c <= server.accepted /\ c \notin server.closed

accept ==
    /\ Runs("server")
    /\ server.accepted < client.so
    /\ server' = [server EXCEPT
         !.accepted = @ + 1,
         !.overlap  = @ \/ ~(1 .. server.accepted \subseteq server.closed)]
    /\ UNCHANGED << client, sess, created, up, down, open, failed >>

\* The end of connection c, which the rest of what was under way may precede
\* or (reset) not.  The session stays, but is no longer served.
close(c) ==
    /\ Runs("server")
    /\ Watched(c)
    /\ ~open[c]
    /\ server' = [server EXCEPT !.closed = @ \cup {c},
                                !.fd2rdt = @ \ {c},
                                !.enable = @ /\ c \notin server.fd2rdt]
    /\ up' = [up EXCEPT ![c] = << >>]
    /\ UNCHANGED << client, sess, created, down, open, failed >>

\* sendmsgbyso of frames to connection c.
Written(D, c, frames) == IF open[c] THEN [D EXCEPT ![c] = @ \o frames] ELSE D

\* A write to a connection the client has closed may raise "write failed".
WriteFails(c, frames) == ~open[c] /\ frames # << >>

ServerEnds(why) ==
    /\ failed' = [failed EXCEPT !["server"] = why]
    /\ UNCHANGED << server, sess, down >>

\* The reply the main loop sends for the messages of one poll, however many.
Reply(S, msgs) == IF msgs = << >> THEN S ELSE rdts_send(S, 1)

\* The rest of a server step that has left V, session T and D: poll, the
\* reply, poll.  The session's output goes to whichever of its fds pairs(fd2rdt)
\* gives first: assert(fds[fd]).
ServerPolls(V, T, msgs, D) ==
    IF V.enable /\ V.fd2rdt # {}
    THEN \E d \in V.fd2rdt :
           LET R      == Reply(pollout(T), msgs)
               frames == Polled(T) \o Polled(R)
           IN  IF ~T.enable THEN ServerEnds("no session")
               ELSE IF frames # << >> /\ ~Watched(d) THEN ServerEnds("no socket")
               ELSE \/ /\ server' = V
                       /\ sess' = [sess EXCEPT !["server"] = pollout(R)]
                       /\ down' = Written(D, d, frames)
                       /\ UNCHANGED failed
                    \/ WriteFails(d, frames) /\ ServerEnds("write failed")
    ELSE /\ server' = V
         /\ sess' = [sess EXCEPT !["server"] = T]
         /\ down' = D
         /\ UNCHANGED failed

\* The main loop's read on connection c.
ServerReads(c) == Runs("server") /\ Watched(c) /\ up[c] # << >>

ServerTakes(c) == up' = [up EXCEPT ![c] = Tail(@)]

ToSession(c) == c \in server.fd2rdt /\ server.enable

\* The frame goes to the session its fd stands for.
ServerInput(c) ==
    /\ ServerReads(c)
    /\ ToSession(c)
    /\ IF HasSession("server")
       THEN LET S == sess["server"]
                T == rdts_input(S, up[c][1].pkts)
            IN  /\ ServerTakes(c)
                /\ ServerPolls(server, T, MessagesIn(S, T), down)
                /\ UNCHANGED << client, created, open >>
       ELSE Fail("server", "no session")

\* recv_packet gives false for part of a packet: the server polls and goes on.
ServerReadsPart(c) ==
    /\ ServerReads(c)
    /\ ServerPolls(server, sess["server"], << >>, down)
    /\ UNCHANGED << client, created, up, open >>

\* enable left off
Bug_Serve(V, c) == [V EXCEPT !.fd2rdt = @ \cup {c}, !.enable = FALSE]

\* The session's new connection, and the session enabled.
Serve(V, c) == [V EXCEPT !.fd2rdt = @ \cup {c}, !.enable = TRUE]

\* on_recv_raw, one command each.
RawCommand(c, cmd) == ServerReads(c) /\ ~ToSession(c) /\ up[c][1] = Command(cmd)

\* What a command answers on its own connection may fail to be written.
AnswerFails(c, answer) == WriteFails(c, answer) /\ Fail("server", "write failed")

ServerLogin(c) ==
    LET answer == << Command("HANDSHAKE_1") >>
    IN  /\ RawCommand(c, "LOGIN")
        /\ \/ /\ ServerTakes(c)
              /\ ServerPolls([server EXCEPT !.fd2rdt = @ \cup {c}, !.enable = FALSE],
                             sess["server"], << >>, Written(down, c, answer))
              /\ UNCHANGED << client, created, open >>
           \/ AnswerFails(c, answer)

\* rdt_create wants an id of fd2rdt and no session of that id.
ServerHandshake2(c) ==
    /\ RawCommand(c, "HANDSHAKE_2")
    /\ IF c \in server.fd2rdt /\ ~created["server"]
       THEN /\ ServerTakes(c)
            /\ created' = [created EXCEPT !["server"] = TRUE]
            /\ ServerPolls([server EXCEPT !.enable = TRUE], rdts_send(rdts_create, 1),
                           << >>, down)
            /\ UNCHANGED << client, open >>
       ELSE Fail("server", "rdt_create")

\* rdt_disable wants the session, and assert(t == 2) something to send.
ServerReconnects(c) ==
    LET T      == reconnect_session(disable_session(sess["server"]))
        answer == << Command("RECONN_HANDSHAKE_2") >> \o Polled(T)
    IN  /\ RawCommand(c, "RECONN_HANDSHAKE_1")
        /\ IF ~HasSession("server") THEN Fail("server", "no session")
           ELSE IF Polled(T) = << >> THEN Fail("server", "nothing to send")
           ELSE \/ /\ ServerTakes(c)
                   /\ ServerPolls(Serve(server, c), pollout(T), << >>,
                                  Written(down, c, answer))
                   /\ UNCHANGED << client, created, open >>
                \/ AnswerFails(c, answer)

\* Anything else is printed.
ServerOther(c) ==
    /\ ServerReads(c)
    /\ ~ToSession(c)
    /\ up[c][1].kind = "rdt"
    /\ ServerTakes(c)
    /\ ServerPolls(server, sess["server"], << >>, down)
    /\ UNCHANGED << client, created, open >>

-----------------------------------------------------------------------------

ClientNext ==
    \/ ClientInput \/ ClientHandshake1 \/ ClientHandshake2 \/ ClientTimeout
    \/ test_reconn \/ ClientReadsPart \/ ClientTimesOutEarly \/ ClientLosesServer

ServerNext ==
    \/ accept
    \/ \E c \in Conns : \/ close(c) \/ ServerInput(c) \/ ServerLogin(c)
                        \/ ServerHandshake2(c) \/ ServerReconnects(c) \/ ServerOther(c)
                        \/ ServerReadsPart(c)

Next == ClientNext \/ ServerNext

Spec == Init /\ [][Next]_vars

-----------------------------------------------------------------------------
(* Properties *)

TypeOK ==
    /\ client.so \in Conns /\ client.enable \in BOOLEAN /\ client.handshake_succ \in BOOLEAN
    /\ client.need_reconn \in {False} \cup 0 .. ReconnAfter
    /\ server.accepted \in 0 .. MaxConns /\ server.enable \in BOOLEAN
    /\ server.closed \subseteq Conns /\ server.fd2rdt \subseteq Conns
    /\ server.overlap \in BOOLEAN
    /\ sess \in [Ends -> Session]
    /\ failed \in [Ends -> Errors \cup {""}]
    /\ \A c \in Conns : \A i \in DOMAIN up[c] : IsFrame(up[c][i])
    /\ \A c \in Conns : \A i \in DOMAIN down[c] : IsFrame(down[c][i])

\* What ends the client is only the socket, or, before the first handshake is done,
\* the countdown of a need_reconn that is still false (rdt_client.lua:191); what
\* ends the server is only a write to a connection the client has left.  Every call
\* into the engine finds its session (rdt_server.lua:109,131, rdt_client.lua:147,155),
\* and the asserts at rdt_server.lua:139 and 184 hold, however connections overlap.
ErrorsKnown ==
    /\ failed["client"] \in {"", "part of a packet", "server ended", "need_reconn"}
    /\ failed["client"] = "need_reconn" => client.so = 1 /\ ~client.handshake_succ
    /\ failed["server"] \in {"", "write failed"}
    /\ failed["server"] = "write failed" => client.so > 1

\* README.md:55: the client's messages reach the server, once each and in
\* order, over every reconnect in which connections end before the next begins.
ClientStream == sess["server"].received = Bytes(0, sess["server"].rcv_raw_offset)

ClientStreamIntact == ~server.overlap => ClientStream

\* rdt_client.lua:168, README.md:244,270: once OnSessionReconnected has run the
\* session can be used again; the server gives what arrives on the client's
\* connection to it.
Served == client.handshake_succ => client.so \in server.fd2rdt /\ server.enable

ReconnectedIsServed == ~server.overlap => Served

\* rdt_client.lua:123, "packets that do not use rdt, mainly for the handshake":
\* the client, and a server whose connections do not overlap, never read what
\* rdt_poll wrote as a command, which would print the bytes and lose them.
Raw(c) == Watched(c) /\ ~ToSession(c)

NoFrameIsACommand ==
    /\ ~client.enable /\ down[client.so] # << >>
          => Reading.cmd \in {"HANDSHAKE_1", "RECONN_HANDSHAKE_2"}
    /\ ~server.overlap =>
         \A c \in Conns : Raw(c) /\ up[c] # << >> => up[c][1].kind = "command"

\* When a reconnected client and everything under way have come to rest, the
\* server has been given all the client's messages.
Rest == client.handshake_succ /\ \A c \in Conns : up[c] = << >> /\ down[c] = << >>

RestIsComplete ==
    Rest /\ ~server.overlap => sess["server"].rcv_raw_offset = sess["client"].sent

-----------------------------------------------------------------------------
(* What the documentation says and the code does not do *)

\* README.md:55, with connections in any order.
ClientStreamIntactAnyway == ClientStream

\* README.md:244, with connections in any order.
ReconnectedIsServedAnyway == Served
=============================================================================
