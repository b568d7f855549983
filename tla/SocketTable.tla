----------------------------- MODULE SocketTable -----------------------------
(***************************************************************************)
(* Who owns a descriptor.  lsocket.c keeps a descriptor in a Lua object;   *)
(* the object closes it when it is told to, or when Lua collects it.  The  *)
(* kernel gives out the lowest number that is free, so a number comes back *)
(* as soon as it has been closed, while rdt_server.lua keeps sessions and  *)
(* sockets under such numbers and never closes one: it drops the object    *)
(* and leaves the rest to the collector.                                   *)
(*                                                                         *)
(* Several clients (rdt_client.lua) and one server, each a process with    *)
(* descriptors of its own.  A connection is numbered when it is made; the  *)
(* number stands for the lSocket objects at both ends too, and 0 is the    *)
(* server's listening socket.  A session is named by the client that       *)
(* logged in.  What is said on a connection after its first command is in  *)
(* RdtPrograms.                                                            *)
(***************************************************************************)
EXTENDS Integers, Sequences, Functions

CONSTANTS
    Clients,   \* processes that run rdt_client.lua
    Fds,       \* descriptors a process may have, beside the standard streams
    MaxConns   \* bound: connections

ASSUME SocketTableAssumption ==
    /\ "server" \notin Clients /\ "nil" \notin Clients
    /\ Fds \subseteq Nat \ {0}
    /\ MaxConns \in Nat

VARIABLES
    desc,        \* desc[p]: the kernel's table: the socket behind each descriptor
    sockfd,      \* sockfd[p][s]: the field of the object for s
    owner,       \* owner[c]: the client that made connection c
    pending,     \* connections made and not yet accepted
    up,          \* connections whose first command the server has not read
    prog,        \* prog[p]: where rdt_client.lua is, and its two sockets
    readsocket, client, fds, fd2rdt,   \* rdt_server.lua's
    r,           \* what its loop has still to see of what select returned
    held         \* all of what select returned, until the loop ends

clientVars == << owner, pending, up, prog >>
tables     == << readsocket, client, fds, fd2rdt >>
loop       == << r, held >>
vars       == << desc, sockfd, clientVars, tables, loop >>

Processes == Clients \cup {"server"}

Listener == 0
Conns    == 1 .. MaxConns
Sockets  == {Listener} \cup Conns

Free == -1   \* no socket behind this descriptor
Shut == -1   \* the object has no descriptor any more
None == -2   \* no object: not made, or collected
Nil  == -3   \* Lua's nil
NoSession == "nil"   \* and in fd2rdt, whose values are names

-----------------------------------------------------------------------------
(* lsocket.c *)

FreeFds(D, p) == {fd \in Fds : D[p][fd] = Free}

\* What socket() and accept() return.
Lowest(fd, D, p) == fd \in FreeFds(D, p) /\ \A f \in FreeFds(D, p) : fd <= f

Closed(p, fd) == IF fd \in Fds THEN [desc EXCEPT ![p][fd] = Free] ELSE desc

\* An object for socket s of process p is made with descriptor fd.
pushlSocket(p, s, fd) ==
    /\ Lowest(fd, desc, p)
    /\ desc' = [desc EXCEPT ![p][fd] = s]
    /\ sockfd' = [sockfd EXCEPT ![p][s] = fd]

\* the number kept in the object
Bug_AfterClose(p, s) == sockfd

\* s:close() leaves -1 in the object.
AfterClose(p, s) == [sockfd EXCEPT ![p][s] = Shut]

\* the tables weak
Bug_Reachable(p) == IF p = "server" THEN {Listener} \cup held ELSE {prog[p].first, prog[p].so}

\* The objects that a process can still name: both sockets of a client; the
\* server's tables and what select returned.
Reachable(p) ==
    IF p = "server"
    THEN {Listener} \cup readsocket \cup {c \in Conns : client[c] # Nil} \cup Range(fds)
           \cup held
    ELSE {prog[p].first, prog[p].so}

\* Lua collects an object that nothing refers to; its descriptor is closed if
\* it still has one.
gc(p, s) ==
    /\ sockfd[p][s] # None
    /\ s \notin Reachable(p)
    /\ desc' = Closed(p, sockfd[p][s])
    /\ sockfd' = [sockfd EXCEPT ![p][s] = None]
    /\ UNCHANGED << clientVars, tables, loop >>

-----------------------------------------------------------------------------
(* rdt_client.lua *)

Open(p, c) == \E fd \in Fds : desc[p][fd] = c

NextConn == Len(owner) + 1

\* A connection is made; the kernel keeps it until the server accepts it.
connect(p) ==
    /\ NextConn <= MaxConns
    /\ owner' = Append(owner, p)
    /\ pending' = Append(pending, NextConn)

\* Lines 81, 146 and 148: the client connects twice, and logs in on the second.
ConnectFirst(p) ==
    /\ prog[p].at = "start"
    /\ connect(p)
    /\ \E fd \in Fds : pushlSocket(p, NextConn, fd)
    /\ prog' = [prog EXCEPT ![p].at = "first", ![p].first = NextConn]
    /\ UNCHANGED << up, tables, loop >>

Login(p) ==
    /\ prog[p].at = "first"
    /\ connect(p)
    /\ \E fd \in Fds : pushlSocket(p, NextConn, fd)
    /\ up' = up \cup {NextConn}
    /\ prog' = [prog EXCEPT ![p].at = "waits", ![p].so = NextConn]
    /\ UNCHANGED << tables, loop >>

\* HANDSHAKE_1 or RECONN_HANDSHAKE_2 has come: the server has read the command.
Answered(p) ==
    /\ prog[p].at = "waits"
    /\ \E fd \in Fds : desc["server"][fd] = prog[p].so /\ fd2rdt[fd] = p
    /\ prog' = [prog EXCEPT ![p].at = "up"]
    /\ UNCHANGED << desc, sockfd, owner, pending, up, tables, loop >>

\* so:close(), and a new connection, which may be given the number just freed.
test_reconn(p) ==
    LET old == prog[p].so
        D   == Closed(p, sockfd[p][old])
    IN  /\ prog[p].at = "up"
        /\ connect(p)
        /\ \E fd \in Fds :
             /\ Lowest(fd, D, p)
             /\ desc' = [D EXCEPT ![p][fd] = NextConn]
             /\ sockfd' = [AfterClose(p, old) EXCEPT ![p][NextConn] = fd]
        /\ up' = up \cup {NextConn}
        /\ prog' = [prog EXCEPT ![p].at = "waits", ![p].so = NextConn]
        /\ UNCHANGED << tables, loop >>

\* The program ends; the kernel closes what it had.
Exit(p) ==
    /\ prog[p].at # "ended"
    /\ desc' = [desc EXCEPT ![p] = [fd \in Fds |-> Free]]
    /\ sockfd' = [sockfd EXCEPT ![p] = [s \in Sockets |-> None]]
    /\ prog' = [prog EXCEPT ![p] = [at |-> "ended", first |-> Nil, so |-> Nil]]
    /\ UNCHANGED << owner, pending, up, tables, loop >>

-----------------------------------------------------------------------------
(* rdt_server.lua *)

\* SOCKET.bind has given the listening socket the lowest number.
Init ==
    /\ \E fd \in Fds :
         /\ \A f \in Fds : fd <= f
         /\ desc = [p \in Processes |-> [f \in Fds |->
                      IF p = "server" /\ f = fd THEN Listener ELSE Free]]
         /\ sockfd = [p \in Processes |-> [s \in Sockets |->
                        IF p = "server" /\ s = Listener THEN fd ELSE None]]
    /\ owner = << >> /\ pending = << >> /\ up = {}
    /\ prog = [p \in Clients |-> [at |-> "start", first |-> Nil, so |-> Nil]]
    /\ readsocket = {Listener}
    /\ client = [c \in Conns |-> Nil]
    /\ fds = [fd \in Fds |-> Nil]
    /\ fd2rdt = [fd \in Fds |-> NoSession]
    /\ r = {} /\ held = {}

\* The client has sent something, or has closed its end.
Readable(c) == c \in up \/ ~Open(owner[c], c)

\* Of the numbers in S, those the kernel's select reports.
ReadyFds(S) ==
    {fd \in S \cap Fds :
        LET s == desc["server"][fd]
        IN  IF s = Listener THEN pending # << >> ELSE s \in Conns /\ Readable(s)}

\* select is called with the numbers of the sockets in a table, and its answer
\* is a table of the sockets with the numbers it gives back.
table2fd_set(T) == {sockfd["server"][s] : s \in T} \ {Shut}

fd_set2table(T, S) == {CHOOSE s \in T : sockfd["server"][s] = fd : fd \in S}

\* It waits until there is one.
select ==
    LET ready == ReadyFds(table2fd_set(readsocket))
    IN  /\ r = {}
        /\ ready # {}
        /\ r' = fd_set2table(readsocket, ready)
        /\ held' = fd_set2table(readsocket, ready)
        /\ UNCHANGED << desc, sockfd, clientVars, tables >>

\* The loop comes to socket s, lowest number first.
Step(s) ==
    /\ s \in r
    /\ \A t \in r : sockfd["server"][s] <= sockfd["server"][t]
    /\ r' = r \ {s}
    /\ held' = IF r = {s} THEN {} ELSE held

\* the two tables mixed up
Bug_Accepted(c, fd) ==
    /\ readsocket' = readsocket \cup {c}
    /\ client' = [client EXCEPT ![c] = c]
    /\ fds' = [fds EXCEPT ![fd] = c]

\* The tables with socket c, whose number is fd.
Accepted(c, fd) ==
    /\ readsocket' = readsocket \cup {c}
    /\ client' = [client EXCEPT ![c] = fd]
    /\ fds' = [fds EXCEPT ![fd] = c]

\* With no descriptor left accept fails, and the connection goes on waiting.
accept ==
    /\ Step(Listener)
    /\ IF pending = << >> \/ FreeFds(desc, "server") = {}
       THEN UNCHANGED << desc, sockfd, pending, tables >>
       ELSE /\ \E fd \in Fds : /\ pushlSocket("server", Head(pending), fd)
                               /\ Accepted(Head(pending), fd)
            /\ pending' = Tail(pending)
            /\ UNCHANGED fd2rdt
    /\ UNCHANGED << owner, up, prog >>

\* recv: LOGIN and RECONN_HANDSHAKE_1 put the session under the socket's number,
\* unless one is there already: then the command is given to that one.
recv(c) ==
    /\ Step(c)
    /\ c \in up
    /\ up' = up \ {c}
    /\ fd2rdt' = [fd2rdt EXCEPT ![client[c]] = IF @ = NoSession THEN owner[c] ELSE @]
    /\ UNCHANGED << desc, sockfd, owner, pending, prog, readsocket, client, fds >>

\* fds keeps the socket
Bug_DroppedNotFds(c) ==
    /\ readsocket' = readsocket \ {c}
    /\ client' = [client EXCEPT ![c] = Nil]
    /\ fd2rdt' = [fd2rdt EXCEPT ![client[c]] = NoSession]
    /\ UNCHANGED fds

\* fd2rdt keeps the number
Bug_Dropped(c) ==
    /\ readsocket' = readsocket \ {c}
    /\ client' = [client EXCEPT ![c] = Nil]
    /\ fds' = [fds EXCEPT ![client[c]] = Nil]
    /\ UNCHANGED fd2rdt

\* The tables without socket c.
Dropped(c) ==
    /\ readsocket' = readsocket \ {c}
    /\ client' = [client EXCEPT ![c] = Nil]
    /\ fds' = [fds EXCEPT ![client[c]] = Nil]
    /\ fd2rdt' = [fd2rdt EXCEPT ![client[c]] = NoSession]

\* The end of a connection; the object is only forgotten.
close(c) ==
    /\ Step(c)
    /\ c \notin up
    /\ Dropped(c)
    /\ UNCHANGED << desc, sockfd, clientVars >>

-----------------------------------------------------------------------------

ClientNext(p) ==
    ConnectFirst(p) \/ Login(p) \/ Answered(p) \/ test_reconn(p) \/ Exit(p)

Loop == select \/ accept \/ \E c \in Conns : recv(c) \/ close(c)

Next ==
    \/ \E p \in Clients : ClientNext(p)
    \/ Loop
    \/ \E p \in Processes, s \in Sockets : gc(p, s)

Spec == Init /\ [][Next]_vars

\* The server's loop turns while select has something to return, and each turn
\* makes tables, so that Lua's collector goes on too.
FairSpec ==
    /\ Spec
    /\ WF_vars(Loop)
    /\ \A s \in Sockets : WF_vars(gc("server", s))

-----------------------------------------------------------------------------
(* Properties *)

TypeOK ==
    /\ desc \in [Processes -> [Fds -> {Free} \cup Sockets]]
    /\ sockfd \in [Processes -> [Sockets -> {None, Shut} \cup Fds]]
    /\ owner \in Seq(Clients) /\ Len(owner) <= MaxConns
    /\ pending \in Seq(Conns)
    /\ up \subseteq Conns
    /\ prog \in [Clients -> [at    : {"start", "first", "waits", "up", "ended"},
                             first : {Nil} \cup Conns,
                             so    : {Nil} \cup Conns]]
    /\ readsocket \subseteq Sockets
    /\ client \in [Conns -> {Nil} \cup Fds]
    /\ fds \in [Fds -> {Nil} \cup Conns]
    /\ fd2rdt \in [Fds -> {NoSession} \cup Clients]
    /\ r \subseteq Sockets /\ held \subseteq Sockets

\* lsocket.c:147-154, 1042-1048: a descriptor belongs to one object, the one of
\* the socket behind it, and an object to no other, through every order of
\* closing, collecting and giving a number out again: no object ever closes the
\* descriptor of another, and none stays open that no object would close.
OneOwner ==
    \A p \in Processes, fd \in Fds, s \in Sockets :
        desc[p][fd] = s <=> sockfd[p][s] = fd

\* rdt_server.lua:78-99: the server's four tables agree with each other and with
\* the kernel, although a number is used again.  In particular assert(fds[fd])
\* (line 184) holds, and poll writes a session's output to a connection of that
\* session's own client.
TablesAgree ==
    /\ readsocket = {Listener} \cup {c \in Conns : client[c] # Nil}
    /\ \A c \in Conns : client[c] # Nil =>
          fds[client[c]] = c /\ desc["server"][client[c]] = c
    /\ \A fd \in Fds : fds[fd] # Nil => client[fds[fd]] = fd
    /\ \A fd \in Fds : fd2rdt[fd] # NoSession =>
          fds[fd] # Nil /\ owner[fds[fd]] = fd2rdt[fd]

\* rdt_client.lua:157-158: what the collector and the other sockets do never
\* takes a connection away from a program that uses it.
CurrentIsOpen ==
    \A p \in Clients : prog[p].at \in {"waits", "up"} => Open(p, prog[p].so)

\* rdt_server.lua:159-163: the server closes its end of a connection only after
\* the client has closed its own.
ServerEndStays ==
    [][\A c \in 1 .. Len(owner) :
          Open("server", c) /\ ~Open("server", c)' => ~Open(owner[c], c)]_vars

\* rdt_server.lua:207-208: a server out of descriptors recovers.  Sooner or later
\* it accepts a waiting connection, unless all its descriptors are those of
\* connections in use.
InUse == \A fd \in Fds :
    LET s == desc["server"][fd]
    IN  s = Listener \/ (s \in Conns /\ Open(owner[s], s))

PendingIsAccepted ==
    \A c \in Conns : c \in Range(pending) ~> (c \notin Range(pending) \/ InUse)
=============================================================================
