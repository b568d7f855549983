---------------------------- MODULE SocketProofs ----------------------------
(***************************************************************************)
(* lsocket.c, from both sides.  For any number of clients, descriptors and *)
(* connections: no descriptor has two owners, and the server's tables      *)
(* agree with the kernel's (SocketTable).  Packets come out of a           *)
(* connection as they were written, whatever their sizes and however the   *)
(* network cuts the stream, as long as no send of sendmsgbyso is partial   *)
(* (LSocket).                                                              *)
(***************************************************************************)
EXTENDS SocketTable, LSocket, FoldLemmas

-----------------------------------------------------------------------------
(* The sockets and tables *)

\* A connection exists from connect on, and the server has an object for it
\* from accept on, which happens once.
Made ==
    /\ \A p \in Clients, s \in Sockets : sockfd[p][s] # None =>
          s \in 1 .. Len(owner) /\ owner[s] = p
    /\ \A c \in Conns : sockfd["server"][c] # None => c \in 1 .. Len(owner)
    /\ \A i \in 1 .. Len(pending) :
          pending[i] \in 1 .. Len(owner) /\ sockfd["server"][pending[i]] = None
    /\ \A i, j \in 1 .. Len(pending) : i # j => pending[i] # pending[j]

\* What the loop has still to see can be read, and is not collected.
LoopInv ==
    /\ r \subseteq readsocket \cap held
    /\ \A c \in r \ {Listener} : Readable(c)

\* A client that waits or is up has the descriptor of its connection.
CurrentInv ==
    \A p \in Clients : prog[p].at \in {"waits", "up"} =>
        prog[p].so \in Conns /\ sockfd[p][prog[p].so] \in Fds

\* The server forgets a connection only when the client has closed it.
ClosedInv ==
    \A c \in Conns : sockfd["server"][c] \in Fds /\ client[c] = Nil => ~Open(owner[c], c)

Inv ==
    /\ TypeOK /\ OneOwner /\ TablesAgree
    /\ Made /\ LoopInv /\ CurrentInv /\ ClosedInv

-----------------------------------------------------------------------------
(* Descriptors *)

Desc == [Processes -> [Fds -> {Free} \cup Sockets]]
SockFd == [Processes -> [Sockets -> {None, Shut} \cup Fds]]

Progs == [Clients -> [at    : {"start", "first", "waits", "up", "ended"},
                      first : {Nil} \cup Conns,
                      so    : {Nil} \cup Conns]]

Owned(D, K) == \A p \in Processes, fd \in Fds, s \in Sockets : D[p][fd] = s <=> K[p][s] = fd

\* The two directions of the table, at one place.
LEMMA OwnedAt ==
  ASSUME NEW D, NEW K, Owned(D, K),
         NEW p \in Processes, NEW fd \in Fds, NEW s \in Sockets
  PROVE  D[p][fd] = s <=> K[p][s] = fd
  BY DEF Owned

\* A free descriptor given to an object without one.
LEMMA OpenKeeps ==
  ASSUME SocketTableAssumption,
         NEW D \in Desc, NEW K \in SockFd, Owned(D, K),
         NEW p \in Processes, NEW s \in Sockets, NEW fd \in Fds,
         D[p][fd] = Free, K[p][s] \notin Fds
  PROVE  /\ Owned([D EXCEPT ![p][fd] = s], [K EXCEPT ![p][s] = fd])
         /\ [D EXCEPT ![p][fd] = s] \in Desc
         /\ [K EXCEPT ![p][s] = fd] \in SockFd
<1>1. Free \notin Sockets
  BY DEF Free, Sockets, Listener, Conns, SocketTableAssumption
<1>. QED
  BY <1>1 DEF Owned, Desc, SockFd

\* An object that gives up its descriptor, if it has one.
LEMMA ShutKeeps ==
  ASSUME SocketTableAssumption,
         NEW D \in Desc, NEW K \in SockFd, Owned(D, K),
         NEW p \in Processes, NEW s \in Sockets, NEW v \in {None, Shut},
         NEW E, E = IF K[p][s] \in Fds THEN [D EXCEPT ![p][K[p][s]] = Free] ELSE D
  PROVE  /\ Owned(E, [K EXCEPT ![p][s] = v])
         /\ E \in Desc
         /\ [K EXCEPT ![p][s] = v] \in SockFd
<1>1. Free \notin Sockets /\ v \notin Fds
  BY DEF Free, None, Shut, Sockets, Listener, Conns, SocketTableAssumption
<1>2. CASE K[p][s] \in Fds
  <2>. DEFINE fd == K[p][s]
  <2>1. E = [D EXCEPT ![p][fd] = Free] /\ D[p][fd] = s
    BY <1>2 DEF Owned
  <2>2. \A t \in Sockets : t # s => K[p][t] # fd
    BY <1>2, <2>1 DEF Owned
  <2>. QED
    BY <1>1, <1>2, <2>1, <2>2 DEF Owned, Desc, SockFd
<1>3. CASE K[p][s] \notin Fds
  BY <1>1, <1>3 DEF Owned, Desc, SockFd
<1>. QED
  BY <1>2, <1>3

-----------------------------------------------------------------------------
(* Each step keeps the invariant *)

\* The types of the variables.
LEMMA Types ==
  ASSUME Inv
  PROVE  /\ desc \in Desc /\ sockfd \in SockFd /\ Owned(desc, sockfd)
         /\ "server" \in Processes /\ Clients \subseteq Processes
         /\ Len(owner) \in Nat /\ Len(owner) <= MaxConns
         /\ \A c \in 1 .. Len(owner) : owner[c] \in Clients /\ c \in Conns
  BY SocketTableAssumption DEF Inv, TypeOK, OneOwner, Owned, Desc, SockFd, Processes, Conns

\* What the server has under a number, and what its loop comes to.
LEMMA Served ==
  ASSUME Inv, SocketTableAssumption
  PROVE  /\ client \in [Conns -> {Nil} \cup Fds] /\ Nil \notin Fds
         /\ \A c \in Conns : client[c] # Nil =>
              /\ client[c] \in Fds /\ desc["server"][client[c]] = c
              /\ sockfd["server"][c] = client[c]
              /\ c \in 1 .. Len(owner) /\ owner[c] \in Clients
         /\ \A c \in r \ {Listener} : c \in Conns /\ client[c] # Nil
<1>1. Nil \notin Fds /\ None \notin Fds
  BY DEF Nil, None, SocketTableAssumption
<1>2. /\ client \in [Conns -> {Nil} \cup Fds]
      /\ \A c \in Conns : client[c] # Nil => desc["server"][client[c]] = c
      /\ \A c \in r \ {Listener} : c \in Conns /\ client[c] # Nil
  BY DEF Inv, TypeOK, TablesAgree, LoopInv, Sockets
<1>3. ASSUME NEW c \in Conns, client[c] # Nil
      PROVE  sockfd["server"][c] = client[c] /\ c \in 1 .. Len(owner) /\ owner[c] \in Clients
  <2>1. client[c] \in Fds /\ desc["server"][client[c]] = c
    BY <1>2, <1>3
  <2>2. "server" \in Processes /\ c \in Sockets /\ Owned(desc, sockfd)
    BY Types DEF Sockets
  <2>3. sockfd["server"][c] = client[c]
    <3>1. PICK fd \in Fds : fd = client[c]
      BY <2>1
    <3>2. desc["server"][fd] = c
      BY <2>1, <3>1
    <3>3. sockfd["server"][c] = fd
      BY <2>2, <3>2, OwnedAt
    <3>. QED
      BY <3>1, <3>3
  <2>. QED
    BY <1>1, <2>1, <2>3, Types DEF Inv, Made
<1>. QED
  BY <1>1, <1>2, <1>3

\* The collector touches only what the programs have let go.
LEMMA GcKeeps ==
  ASSUME Inv, SocketTableAssumption, NEW p \in Processes, NEW s \in Sockets, gc(p, s)
  PROVE  Inv'
<1>. USE DEF gc
<1>1. desc \in Desc /\ sockfd \in SockFd /\ Owned(desc, sockfd)
  BY Types
<1>2. desc' = IF sockfd[p][s] \in Fds THEN [desc EXCEPT ![p][sockfd[p][s]] = Free] ELSE desc
  BY DEF Closed
<1>3. Owned(desc', sockfd') /\ desc' \in Desc /\ sockfd' \in SockFd
  BY <1>1, <1>2, ShutKeeps
<1>4. TypeOK'
  BY <1>3 DEF Inv, TypeOK, Desc, SockFd, clientVars, tables, loop
<1>5. OneOwner'
  BY <1>3 DEF OneOwner, Owned
<1>6. \A q \in Processes, c \in Sockets :
          /\ Open(q, c)' => Open(q, c)
          /\ ~(q = p /\ c = s) => sockfd'[q][c] = sockfd[q][c]
          /\ \A fd \in Fds : desc[q][fd] = c /\ ~(q = p /\ c = s) => desc'[q][fd] = c
  <2>1. Free \notin Sockets
    BY DEF Free, Sockets, Listener, Conns
  <2>. QED
    BY <1>1, <1>2, <2>1 DEF Open, Owned, Desc, SockFd
<1>7. TablesAgree'
  <2>1. \A c \in Conns : client[c] # Nil => ~("server" = p /\ c = s)
    BY DEF Reachable
  <2>2. \A c \in Conns : client[c] # Nil => desc'["server"][client[c]] = c
    BY <1>6, <2>1, Types, Served DEF Sockets
  <2>. QED
    BY <2>2 DEF Inv, TablesAgree, clientVars, tables
<1>8. Made'
  BY <1>1, <1>6, Types DEF Inv, Made, clientVars, Sockets, SockFd, None
<1>9. LoopInv'
  <2>1. \A c \in r \ {Listener} : owner[c] \in Processes /\ c \in Sockets
    BY Served, Types DEF Sockets
  <2>. QED
    BY <1>6, <2>1 DEF Inv, LoopInv, Readable, clientVars, tables, loop
<1>10. CurrentInv'
  BY <1>6, Types, SocketTableAssumption DEF Inv, CurrentInv, Reachable, clientVars, Sockets, Processes
<1>11. ClosedInv'
  BY <1>1, <1>6, Types DEF Inv, ClosedInv, Made, clientVars, tables, Sockets, SockFd, None
<1>. QED
  BY <1>4, <1>5, <1>7, <1>8, <1>9, <1>10, <1>11 DEF Inv

\* A new connection of client p: what every way to make one has in common.
\* The object for it is new, and nobody else's descriptors are touched.
LEMMA ConnectKeeps ==
  ASSUME Inv, SocketTableAssumption, NEW p \in Clients, connect(p),
         NEW D \in Desc, NEW K \in SockFd, Owned(D, K),
         \A q \in Processes, s \in Sockets : q # p => D[q] = desc[q] /\ K[q] = sockfd[q],
         \A s \in Sockets : K[p][s] # None => sockfd[p][s] # None,
         \A c \in Conns : (\E fd \in Fds : D[p][fd] = c) => Open(p, c),
         NEW fd \in Fds, D[p][fd] = Free,
         desc' = [D EXCEPT ![p][fd] = NextConn],
         sockfd' = [K EXCEPT ![p][NextConn] = fd],
         prog' \in Progs, \A q \in Clients : q # p => prog'[q] = prog[q],
         prog'[p].at \in {"waits", "up"} => prog'[p].so = NextConn,
         up' \in {up, up \cup {NextConn}},
         UNCHANGED << tables, loop >>
  PROVE  Inv'
<1>. USE DEF connect, NextConn
<1>1. /\ NextConn \in Conns /\ NextConn \notin 1 .. Len(owner)
      /\ p \in Processes /\ p # "server" /\ NextConn \in Sockets
  BY Types, SocketTableAssumption DEF Conns, Sockets
<1>2. /\ owner' \in Seq(Clients) /\ Len(owner') = Len(owner) + 1
      /\ owner'[NextConn] = p
      /\ \A c \in 1 .. Len(owner) : owner'[c] = owner[c] /\ c \in 1 .. Len(owner')
      /\ NextConn \in 1 .. Len(owner')
  BY Types DEF Inv, TypeOK
<1>3. /\ pending' \in Seq(Conns) /\ Len(pending') = Len(pending) + 1
      /\ pending'[Len(pending) + 1] = NextConn
      /\ \A i \in 1 .. Len(pending) : pending'[i] = pending[i]
  BY <1>1 DEF Inv, TypeOK
<1>4. sockfd[p][NextConn] = None /\ sockfd["server"][NextConn] = None
  BY <1>1 DEF Inv, Made
<1>5. K[p][NextConn] = None /\ K[p][NextConn] \notin Fds
  BY <1>1, <1>4, SocketTableAssumption DEF None
<1>6. Owned(desc', sockfd') /\ desc' \in Desc /\ sockfd' \in SockFd
  BY <1>1, <1>5, OpenKeeps
<1>7. desc'["server"] = desc["server"] /\ sockfd'["server"] = sockfd["server"]
  BY <1>1, Types DEF Desc, SockFd
<1>8. \A q \in Clients, c \in Sockets :
          /\ Open(q, c)' /\ c # NextConn /\ c \in Conns => Open(q, c)
          /\ ~(q = p /\ c = NextConn) => sockfd'[q][c] = K[q][c]
          /\ q # p => K[q] = sockfd[q]
  <2>1. ASSUME NEW q \in Clients, q # p
        PROVE  desc'[q] = desc[q] /\ sockfd'[q] = K[q] /\ K[q] = sockfd[q]
    BY <1>1, <2>1, Types
  <2>2. \A n \in Fds : desc'[p][n] = IF n = fd THEN NextConn ELSE D[p][n]
    BY <1>1 DEF Desc
  <2>3. \A c \in Sockets : sockfd'[p][c] = IF c = NextConn THEN fd ELSE K[p][c]
    BY <1>1 DEF SockFd
  <2>. QED
    <3>1. \A q \in Clients, c \in Sockets :
            Open(q, c)' /\ c # NextConn /\ c \in Conns => Open(q, c)
      BY <2>1, <2>2 DEF Open
    <3>. QED
      BY <2>1, <2>3, <3>1
<1>9. \A c \in 1 .. Len(owner) : ~Open(owner[c], c) => ~Open(owner[c], c)'
  BY <1>1, <1>8, Types DEF Sockets
<1>10. TypeOK'
  BY <1>1, <1>2, <1>3, <1>6, Types DEF Inv, TypeOK, Desc, SockFd, Progs, tables, loop
<1>11. OneOwner'
  BY <1>6 DEF OneOwner, Owned
<1>12. TablesAgree'
  <2>1. \A n \in Fds : fd2rdt[n] # NoSession => fds[n] \in 1 .. Len(owner)
    BY Served DEF Inv, TypeOK, TablesAgree
  <2>. QED
    BY <1>2, <1>7, <2>1 DEF Inv, TablesAgree, tables
<1>13. Made'
  <2>1. \A q \in Clients, s \in Sockets : sockfd'[q][s] # None =>
            s \in 1 .. Len(owner') /\ owner'[s] = q
    <3>1. \A q \in Clients, s \in Sockets : ~(q = p /\ s = NextConn) =>
              (sockfd'[q][s] # None => sockfd[q][s] # None)
      BY <1>8
    <3>. QED
      BY <1>2, <3>1 DEF Inv, Made
  <2>2. \A i \in 1 .. Len(pending') : pending'[i] \in 1 .. Len(owner')
            /\ sockfd'["server"][pending'[i]] = None
    BY <1>2, <1>3, <1>4, <1>7 DEF Inv, Made, TypeOK
  <2>3. \A i, j \in 1 .. Len(pending') : i # j => pending'[i] # pending'[j]
    BY <1>1, <1>3 DEF Inv, Made, TypeOK
  <2>. QED
    BY <1>2, <1>7, <2>1, <2>2, <2>3 DEF Inv, Made
<1>14. LoopInv'
  <2>1. \A c \in r \ {Listener} : Readable(c)'
    BY <1>2, <1>9, Served DEF Inv, LoopInv, Readable
  <2>. QED
    BY <2>1 DEF Inv, LoopInv, tables, loop
<1>15. CurrentInv'
  <2>1. sockfd'[p][NextConn] = fd
    BY <1>1 DEF SockFd
  <2>2. ASSUME NEW q \in Clients, prog'[q].at \in {"waits", "up"}
        PROVE  prog'[q].so \in Conns /\ sockfd'[q][prog'[q].so] \in Fds
    <3>1. CASE q = p
      BY <1>1, <2>1, <2>2, <3>1
    <3>2. CASE q # p
      <4>1. prog'[q] = prog[q] /\ sockfd'[q] = sockfd[q]
        BY <1>1, <3>2, Types DEF SockFd, Processes
      <4>. QED
        BY <2>2, <4>1 DEF Inv, CurrentInv
    <3>. QED
      BY <3>1, <3>2
  <2>. QED
    BY <2>2 DEF CurrentInv
<1>16. ClosedInv'
  <2>1. \A c \in Conns : sockfd["server"][c] \in Fds => c \in 1 .. Len(owner)
    BY SocketTableAssumption DEF Inv, Made, None
  <2>. QED
    BY <1>2, <1>7, <1>9, <2>1 DEF Inv, ClosedInv, tables
<1>. QED
  BY <1>10, <1>11, <1>12, <1>13, <1>14, <1>15, <1>16 DEF Inv

\* The first connect of a client.
LEMMA FirstKeeps ==
  ASSUME Inv, SocketTableAssumption, NEW p \in Clients, ConnectFirst(p)
  PROVE  Inv'
<1>1. PICK fd \in Fds : pushlSocket(p, NextConn, fd)
  BY DEF ConnectFirst
<1>2. /\ connect(p) /\ up' = up /\ UNCHANGED << tables, loop >>
      /\ prog' = [prog EXCEPT ![p].at = "first", ![p].first = NextConn]
  BY DEF ConnectFirst
<1>3. desc[p][fd] = Free
  BY <1>1 DEF pushlSocket, Lowest, FreeFds
<1>4. NextConn \in Conns /\ prog \in Progs
  BY <1>2, Types DEF connect, NextConn, Conns, Inv, TypeOK, Progs
<1>5. /\ prog' \in Progs /\ prog'[p].at = "first"
      /\ \A q \in Clients : q # p => prog'[q] = prog[q]
  BY <1>2, <1>4 DEF Progs
<1>6. desc' = [desc EXCEPT ![p][fd] = NextConn] /\ sockfd' = [sockfd EXCEPT ![p][NextConn] = fd]
  BY <1>1 DEF pushlSocket
<1>. QED
  BY <1>2, <1>3, <1>5, <1>6, Types, ConnectKeeps DEF Open

\* The client connects with its first socket still open.
LEMMA LoginKeeps ==
  ASSUME Inv, SocketTableAssumption, NEW p \in Clients, Login(p)
  PROVE  Inv'
<1>1. PICK fd \in Fds : pushlSocket(p, NextConn, fd)
  BY DEF Login
<1>2. /\ connect(p) /\ up' = up \cup {NextConn} /\ UNCHANGED << tables, loop >>
      /\ prog' = [prog EXCEPT ![p].at = "waits", ![p].so = NextConn]
  BY DEF Login
<1>3. desc[p][fd] = Free
  BY <1>1 DEF pushlSocket, Lowest, FreeFds
<1>4. NextConn \in Conns /\ prog \in Progs
  BY <1>2, Types DEF connect, NextConn, Conns, Inv, TypeOK, Progs
<1>5. /\ prog' \in Progs /\ prog'[p].so = NextConn
      /\ \A q \in Clients : q # p => prog'[q] = prog[q]
  BY <1>2, <1>4 DEF Progs
<1>6. desc' = [desc EXCEPT ![p][fd] = NextConn] /\ sockfd' = [sockfd EXCEPT ![p][NextConn] = fd]
  BY <1>1 DEF pushlSocket
<1>. QED
  BY <1>2, <1>3, <1>5, <1>6, Types, ConnectKeeps DEF Open

\* The descriptor of the old connection is given up first; the new one may get it.
LEMMA ReconnKeeps ==
  ASSUME Inv, SocketTableAssumption, NEW p \in Clients, test_reconn(p)
  PROVE  Inv'
<1>. DEFINE old == prog[p].so
            D   == Closed(p, sockfd[p][old])
            K   == AfterClose(p, old)
<1>1. PICK fd \in Fds : /\ Lowest(fd, D, p)
                        /\ desc' = [D EXCEPT ![p][fd] = NextConn]
                        /\ sockfd' = [K EXCEPT ![p][NextConn] = fd]
  BY DEF test_reconn
<1>2. /\ connect(p) /\ up' = up \cup {NextConn} /\ UNCHANGED << tables, loop >>
      /\ prog' = [prog EXCEPT ![p].at = "waits", ![p].so = NextConn]
      /\ prog[p].at = "up"
  BY DEF test_reconn
<1>3. D[p][fd] = Free
  BY <1>1 DEF Lowest, FreeFds
<1>4. NextConn \in Conns /\ prog \in Progs
  BY <1>2, Types DEF connect, NextConn, Conns, Inv, TypeOK, Progs
<1>5. /\ prog' \in Progs /\ prog'[p].so = NextConn
      /\ \A q \in Clients : q # p => prog'[q] = prog[q]
  BY <1>2, <1>4 DEF Progs
<1>6. old \in Sockets /\ sockfd[p][old] \in Fds /\ p \in Processes
  BY <1>2, Types DEF Inv, CurrentInv, Sockets
<1>7. /\ D = IF sockfd[p][old] \in Fds THEN [desc EXCEPT ![p][sockfd[p][old]] = Free] ELSE desc
      /\ K = [sockfd EXCEPT ![p][old] = Shut]
  BY DEF Closed, AfterClose
<1>. HIDE DEF old, D, K
<1>8. D \in Desc /\ K \in SockFd /\ Owned(D, K)
  BY <1>6, <1>7, Types, ShutKeeps
<1>9. /\ \A q \in Processes, s \in Sockets : q # p => D[q] = desc[q] /\ K[q] = sockfd[q]
      /\ \A s \in Sockets : K[p][s] # None => sockfd[p][s] # None
  BY <1>6, <1>7, Types, SocketTableAssumption DEF Desc, SockFd, None
<1>10. \A c \in Conns : (\E n \in Fds : D[p][n] = c) => Open(p, c)
  <2>1. Free \notin Conns
    BY DEF Free, Conns
  <2>. QED
    BY <1>6, <1>7, <2>1, Types DEF Open, Desc
<1>. QED
  BY <1>1, <1>2, <1>3, <1>5, <1>8, <1>9, <1>10, ConnectKeeps

\* The end of a client leaves it without objects and descriptors.
LEMMA ExitKeeps ==
  ASSUME Inv, SocketTableAssumption, NEW p \in Clients, Exit(p)
  PROVE  Inv'
<1>. USE DEF Exit
<1>1. p \in Processes /\ p # "server"
  BY Types, SocketTableAssumption
<1>2. \A q \in Processes : q # p => desc'[q] = desc[q] /\ sockfd'[q] = sockfd[q]
  BY <1>1, Types DEF Desc, SockFd
<1>3. /\ \A fd \in Fds : desc'[p][fd] = Free
      /\ \A s \in Sockets : sockfd'[p][s] = None
  BY <1>1, Types DEF Desc, SockFd
<1>4. Free \notin Sockets /\ None \notin Fds /\ Nil # 0
  BY SocketTableAssumption DEF Free, Sockets, Listener, Conns, None, Nil
<1>5. desc' \in Desc /\ sockfd' \in SockFd
  BY <1>1, Types DEF Desc, SockFd
<1>6. prog' \in Progs /\ prog'[p].at = "ended" /\ \A q \in Clients : q # p => prog'[q] = prog[q]
  BY DEF Inv, TypeOK, Progs
<1>7. TypeOK'
  BY <1>5, <1>6 DEF Inv, TypeOK, Desc, SockFd, Progs, tables, loop
<1>8. OneOwner'
  BY <1>2, <1>3, <1>4 DEF Inv, OneOwner
<1>9. TablesAgree'
  BY <1>1, <1>2, Types DEF Inv, TablesAgree, tables
<1>10. Made'
  BY <1>1, <1>2, <1>3, Types DEF Inv, Made
<1>11. \A q \in Clients, c \in Conns : Open(q, c)' => Open(q, c)
  BY <1>2, <1>3, <1>4, Types DEF Open, Sockets
<1>12. LoopInv'
  BY <1>11, Served DEF Inv, LoopInv, Readable, tables, loop
<1>13. CurrentInv'
  BY <1>2, <1>6, Types DEF Inv, CurrentInv
<1>14. ClosedInv'
  <2>1. \A c \in Conns : sockfd["server"][c] \in Fds => owner[c] \in Clients
    BY <1>4, Types DEF Inv, Made
  <2>. QED
    BY <1>1, <1>2, <1>11, <2>1, Types DEF Inv, ClosedInv, tables
<1>. QED
  BY <1>7, <1>8, <1>9, <1>10, <1>12, <1>13, <1>14 DEF Inv

\* The server has answered: the client is up.
LEMMA AnsweredKeeps ==
  ASSUME Inv, SocketTableAssumption, NEW p \in Clients, Answered(p)
  PROVE  Inv'
<1>. USE DEF Answered
<1>1. /\ prog' \in Progs /\ prog[p].at = "waits" /\ prog'[p].so = prog[p].so
      /\ \A q \in Clients : q # p => prog'[q] = prog[q]
  BY DEF Inv, TypeOK, Progs
<1>2. TypeOK'
  BY <1>1 DEF Inv, TypeOK, Progs, tables, loop
<1>3. CurrentInv'
  BY <1>1 DEF Inv, CurrentInv
<1>4. OneOwner' /\ TablesAgree' /\ Made' /\ LoopInv' /\ ClosedInv'
  BY DEF Inv, OneOwner, TablesAgree, Made, LoopInv, ClosedInv, Readable, Open, tables, loop
<1>. QED
  BY <1>2, <1>3, <1>4 DEF Inv

-----------------------------------------------------------------------------
(* The server's loop *)

\* select returns sockets of the table it is given, each with something to read.
LEMMA SelectKeeps ==
  ASSUME Inv, SocketTableAssumption, select
  PROVE  Inv'
<1>. DEFINE ready == ReadyFds(table2fd_set(readsocket))
<1>1. r' = fd_set2table(readsocket, ready) /\ held' = r'
  BY DEF select
<1>2. \A fd \in ready :
          LET s == CHOOSE t \in readsocket : sockfd["server"][t] = fd
          IN  s \in readsocket /\ sockfd["server"][s] = fd
  BY DEF ReadyFds, table2fd_set
<1>3. \A s \in r' : s \in readsocket /\ sockfd["server"][s] \in ready
  BY <1>1, <1>2 DEF fd_set2table
<1>4. \A c \in r' \ {Listener} : Readable(c)
  <2>1. SUFFICES ASSUME NEW c \in r', c # Listener PROVE Readable(c)
    OBVIOUS
  <2>2. PICK fd \in ready : fd = sockfd["server"][c]
    BY <1>3, <2>1
  <2>3. c \in Sockets /\ fd \in Fds
    BY <1>3, <2>1 DEF Inv, TypeOK, ReadyFds
  <2>4. desc["server"][fd] = c
    BY <2>2, <2>3, Types, OwnedAt
  <2>. QED
    BY <2>1, <2>4 DEF ReadyFds
<1>5. r' \subseteq Sockets
  BY <1>3 DEF Inv, TypeOK
<1>. HIDE DEF ready
<1>6. TypeOK' /\ LoopInv'
  BY <1>1, <1>3, <1>4, <1>5 DEF select, Inv, TypeOK, LoopInv, Readable, Open, clientVars, tables
<1>7. OneOwner' /\ TablesAgree' /\ Made' /\ CurrentInv' /\ ClosedInv'
  BY DEF select, Inv, OneOwner, TablesAgree, Made, CurrentInv, ClosedInv, Open, clientVars, tables
<1>. QED
  BY <1>6, <1>7 DEF Inv

\* A step of the loop leaves less to see.
LEMMA StepFacts ==
  ASSUME Inv, NEW s, Step(s)
  PROVE  /\ s \in r /\ s \in Sockets
         /\ r' = r \ {s} /\ r' \subseteq held' /\ held' \subseteq Sockets
         /\ r' \subseteq Sockets
  BY DEF Inv, TypeOK, LoopInv, Step

\* The server accepts the oldest pending connection.
LEMMA AcceptKeeps ==
  ASSUME Inv, SocketTableAssumption, accept
  PROVE  Inv'
<1>1. /\ Step(Listener) /\ UNCHANGED << owner, up, prog >>
  BY DEF accept
<1>2. CASE UNCHANGED << desc, sockfd, pending, tables >>
  <2>1. TypeOK' /\ LoopInv'
    BY <1>1, <1>2, StepFacts DEF Inv, TypeOK, LoopInv, Readable, Open, tables
  <2>2. OneOwner' /\ TablesAgree' /\ Made' /\ CurrentInv' /\ ClosedInv'
    BY <1>1, <1>2 DEF Inv, OneOwner, TablesAgree, Made, CurrentInv, ClosedInv, Open, tables
  <2>. QED
    BY <2>1, <2>2 DEF Inv
<1>3. CASE pending # << >> /\ \E fd \in Fds : /\ pushlSocket("server", Head(pending), fd)
                                              /\ Accepted(Head(pending), fd)
                                              /\ pending' = Tail(pending)
                                              /\ UNCHANGED fd2rdt
  <2>. DEFINE c == Head(pending)
  <2>1. PICK fd \in Fds : /\ pushlSocket("server", c, fd) /\ Accepted(c, fd)
                          /\ pending' = Tail(pending) /\ UNCHANGED fd2rdt
    BY <1>3
  <2>2. /\ 1 \in 1 .. Len(pending) /\ c = pending[1] /\ Len(pending') = Len(pending) - 1
        /\ \A i \in 1 .. Len(pending') : pending'[i] = pending[i + 1] /\ i + 1 \in 1 .. Len(pending)
        /\ pending' \in Seq(Conns)
    BY <1>3, <2>1 DEF Inv, TypeOK
  <2>3. /\ c \in 1 .. Len(owner) /\ c \in Conns /\ c \in Sockets /\ c # Listener
        /\ sockfd["server"][c] = None
    BY <2>2, Types DEF Inv, Made, Sockets, Conns, Listener
  <2>. HIDE DEF c
  <2>4. /\ desc["server"][fd] = Free
        /\ desc' = [desc EXCEPT !["server"][fd] = c]
        /\ sockfd' = [sockfd EXCEPT !["server"][c] = fd]
    BY <2>1 DEF pushlSocket, Lowest, FreeFds
  <2>5. /\ readsocket' = readsocket \cup {c} /\ client' = [client EXCEPT ![c] = fd]
        /\ fds' = [fds EXCEPT ![fd] = c] /\ fd2rdt' = fd2rdt
    BY <2>1 DEF Accepted
  <2>6. None \notin Fds /\ Nil \notin Fds /\ Nil \notin Conns /\ Free \notin Sockets
    BY SocketTableAssumption DEF None, Nil, Free, Conns, Sockets, Listener
  <2>7. Owned(desc', sockfd') /\ desc' \in Desc /\ sockfd' \in SockFd
    BY <2>3, <2>4, <2>6, Types, OpenKeeps
  <2>8. \A q \in Clients : desc'[q] = desc[q] /\ sockfd'[q] = sockfd[q]
    BY <2>4, Types, SocketTableAssumption DEF Desc, SockFd
  <2>9. /\ \A n \in Fds : desc'["server"][n] = IF n = fd THEN c ELSE desc["server"][n]
        /\ \A s \in Sockets : sockfd'["server"][s] = IF s = c THEN fd ELSE sockfd["server"][s]
    BY <2>3, <2>4, Types DEF Desc, SockFd
  <2>10. client[c] = Nil
    BY <2>3, <2>6, Served
  <2>11. fds[fd] = Nil
    <3>1. SUFFICES ASSUME fds[fd] # Nil PROVE FALSE
      OBVIOUS
    <3>2. PICK d \in Conns : d = fds[fd]
      BY <3>1 DEF Inv, TypeOK
    <3>3. client[d] = fd
      BY <3>1, <3>2 DEF Inv, TablesAgree
    <3>4. desc["server"][fd] = d
      BY <2>6, <3>3, Served
    <3>. QED
      BY <2>4, <2>6, <3>4 DEF Sockets
  <2>12. TypeOK'
    BY <1>1, <2>2, <2>3, <2>5, <2>7, StepFacts DEF Inv, TypeOK, Desc, SockFd
  <2>13. OneOwner'
    BY <2>7 DEF OneOwner, Owned
  <2>14. TablesAgree'
    <3>1. client' \in [Conns -> {Nil} \cup Fds] /\ client'[c] = fd
          /\ \A d \in Conns : d # c => client'[d] = client[d]
      BY <2>3, <2>5 DEF Inv, TypeOK
    <3>2. fds'[fd] = c /\ \A n \in Fds : n # fd => fds'[n] = fds[n]
      BY <2>5 DEF Inv, TypeOK
    <3>3. readsocket' = {Listener} \cup {d \in Conns : client'[d] # Nil}
      BY <2>3, <2>5, <2>6, <2>10, <3>1 DEF Inv, TablesAgree
    <3>4. \A d \in Conns : client'[d] # Nil =>
              fds'[client'[d]] = d /\ desc'["server"][client'[d]] = d
      <4>1. ASSUME NEW d \in Conns, client'[d] # Nil, d # c
            PROVE  fds'[client'[d]] = d /\ desc'["server"][client'[d]] = d
        <5>1. client'[d] = client[d] /\ client[d] \in Fds /\ fds[client[d]] = d
              /\ desc["server"][client[d]] = d
          BY <3>1, <4>1, Served DEF Inv, TablesAgree
        <5>2. client[d] # fd
          BY <2>4, <2>6, <5>1, <4>1 DEF Sockets
        <5>. QED
          BY <2>9, <3>2, <5>1, <5>2
      <4>. QED
        BY <2>9, <3>1, <3>2, <4>1
    <3>5. \A n \in Fds : fds'[n] # Nil => client'[fds'[n]] = n
      <4>1. ASSUME NEW n \in Fds, n # fd, fds'[n] # Nil PROVE client'[fds'[n]] = n
        <5>1. fds'[n] = fds[n] /\ fds[n] \in Conns /\ client[fds[n]] = n
          BY <3>2, <4>1 DEF Inv, TypeOK, TablesAgree
        <5>2. fds[n] # c
          BY <2>6, <2>10, <5>1
        <5>. QED
          BY <3>1, <5>1, <5>2
      <4>. QED
        BY <3>1, <3>2, <4>1
    <3>6. \A n \in Fds : fd2rdt'[n] # NoSession =>
              fds'[n] # Nil /\ owner'[fds'[n]] = fd2rdt'[n]
      BY <1>1, <2>5, <2>11, <3>2 DEF Inv, TablesAgree
    <3>. QED
      BY <3>3, <3>4, <3>5, <3>6 DEF TablesAgree
  <2>15. Made'
    <3>1. \A q \in Clients, s \in Sockets : sockfd'[q][s] # None =>
              s \in 1 .. Len(owner') /\ owner'[s] = q
      BY <1>1, <2>8 DEF Inv, Made
    <3>2. \A d \in Conns : sockfd'["server"][d] # None => d \in 1 .. Len(owner')
      BY <1>1, <2>3, <2>9 DEF Inv, Made, Sockets
    <3>3. \A i \in 1 .. Len(pending') : pending'[i] \in 1 .. Len(owner')
              /\ sockfd'["server"][pending'[i]] = None
      <4>1. SUFFICES ASSUME NEW i \in 1 .. Len(pending')
                     PROVE  pending'[i] \in 1 .. Len(owner) /\ sockfd'["server"][pending'[i]] = None
        BY <1>1
      <4>2. /\ pending'[i] = pending[i + 1] /\ i + 1 \in 1 .. Len(pending) /\ i + 1 # 1
        BY <2>2
      <4>3. pending'[i] # c /\ pending'[i] \in 1 .. Len(owner) /\ pending'[i] \in Sockets
            /\ sockfd["server"][pending'[i]] = None
        BY <2>2, <4>2, Types DEF Inv, Made, Sockets
      <4>. QED
        BY <2>9, <4>3
    <3>4. ASSUME NEW i \in 1 .. Len(pending'), NEW j \in 1 .. Len(pending'), i # j
          PROVE  pending'[i] # pending'[j]
      <4>1. /\ pending'[i] = pending[i + 1] /\ i + 1 \in 1 .. Len(pending)
            /\ pending'[j] = pending[j + 1] /\ j + 1 \in 1 .. Len(pending)
        BY <2>2
      <4>2. i + 1 # j + 1
        BY <3>4
      <4>. QED
        BY <4>1, <4>2 DEF Inv, Made
    <3>. QED
      BY <3>1, <3>2, <3>3, <3>4 DEF Made
  <2>16. LoopInv'
    <3>1. \A d \in r \ {Listener} : owner[d] \in Clients
      BY Served
    <3>2. \A d \in r \ {Listener} : Readable(d)'
      BY <1>1, <2>8, <3>1 DEF Inv, LoopInv, Readable, Open
    <3>. QED
      BY <1>1, <2>5, <3>2, StepFacts DEF Inv, LoopInv
  <2>17. CurrentInv'
    BY <1>1, <2>8 DEF Inv, CurrentInv
  <2>18. ClosedInv'
    <3>1. \A d \in Conns : d # c => client'[d] = client[d] /\ sockfd'["server"][d] = sockfd["server"][d]
      BY <2>5, <2>9 DEF Inv, TypeOK, Sockets
    <3>2. client'[c] # Nil
      BY <2>3, <2>5, <2>6 DEF Inv, TypeOK
    <3>3. \A d \in Conns : sockfd["server"][d] \in Fds => owner[d] \in Clients
      BY <2>6, Types DEF Inv, Made
    <3>. QED
      BY <1>1, <2>8, <3>1, <3>2, <3>3 DEF Inv, ClosedInv, Open
  <2>. QED
    BY <2>12, <2>13, <2>14, <2>15, <2>16, <2>17, <2>18 DEF Inv
<1>. QED
  BY <1>2, <1>3 DEF accept

\* The session of the client that made the connection is put under its number.
LEMMA RecvKeeps ==
  ASSUME Inv, SocketTableAssumption, NEW c \in Conns, recv(c)
  PROVE  Inv'
<1>1. /\ Step(c) /\ up' = up \ {c}
      /\ fd2rdt' = [fd2rdt EXCEPT ![client[c]] = IF @ = NoSession THEN owner[c] ELSE @]
      /\ UNCHANGED << desc, sockfd, owner, pending, prog, readsocket, client, fds >>
  BY DEF recv
<1>2. c # Listener /\ c \in r
  BY <1>1, StepFacts DEF Conns, Listener
<1>3. PICK fd \in Fds : fd = client[c]
  BY <1>2, Served
<1>4. fds[fd] = c /\ owner[c] \in Clients
  BY <1>2, <1>3, Served DEF Inv, TablesAgree
<1>5. /\ fd2rdt'[fd] \in {fd2rdt[fd], owner[c]}
      /\ \A n \in Fds : n # fd => fd2rdt'[n] = fd2rdt[n]
      /\ fd2rdt' \in [Fds -> {NoSession} \cup Clients]
  BY <1>1, <1>3, <1>4 DEF Inv, TypeOK
<1>6. TypeOK'
  BY <1>1, <1>5, StepFacts DEF Inv, TypeOK
<1>7. LoopInv'
  BY <1>1, <1>2, StepFacts DEF Inv, LoopInv, Readable, Open
<1>8. TablesAgree'
  <2>1. Nil \notin Conns
    BY DEF Nil, Conns
  <2>. QED
    BY <1>1, <1>4, <1>5, <2>1 DEF Inv, TablesAgree
<1>9. OneOwner' /\ Made' /\ CurrentInv' /\ ClosedInv'
  BY <1>1 DEF Inv, OneOwner, Made, CurrentInv, ClosedInv, Open
<1>. QED
  BY <1>6, <1>7, <1>8, <1>9 DEF Inv

\* A socket is forgotten under its number everywhere, and only when its client
\* has closed the connection.
LEMMA CloseKeeps ==
  ASSUME Inv, SocketTableAssumption, NEW c \in Conns, close(c)
  PROVE  Inv'
<1>1. /\ Step(c) /\ c \notin up /\ UNCHANGED << desc, sockfd, clientVars >>
      /\ readsocket' = readsocket \ {c} /\ client' = [client EXCEPT ![c] = Nil]
      /\ fds' = [fds EXCEPT ![client[c]] = Nil]
      /\ fd2rdt' = [fd2rdt EXCEPT ![client[c]] = NoSession]
  BY DEF close, Dropped
<1>2. c # Listener /\ c \in r /\ c \in Sockets
  BY <1>1, StepFacts DEF Conns, Listener
<1>3. PICK fd \in Fds : fd = client[c]
  BY <1>2, Served
<1>4. fds[fd] = c /\ ~Open(owner[c], c)
  BY <1>1, <1>2, <1>3, Served DEF Inv, TablesAgree, LoopInv, Readable
<1>5. /\ client'[c] = Nil /\ \A d \in Conns : d # c => client'[d] = client[d]
      /\ fds'[fd] = Nil /\ \A n \in Fds : n # fd => fds'[n] = fds[n]
      /\ fd2rdt'[fd] = NoSession /\ \A n \in Fds : n # fd => fd2rdt'[n] = fd2rdt[n]
  BY <1>1, <1>3 DEF Inv, TypeOK
<1>6. TypeOK'
  <2>1. client' \in [Conns -> {Nil} \cup Fds] /\ fds' \in [Fds -> {Nil} \cup Conns]
        /\ fd2rdt' \in [Fds -> {NoSession} \cup Clients]
    BY <1>1, <1>3 DEF Inv, TypeOK
  <2>. QED
    BY <1>1, <2>1, StepFacts DEF Inv, TypeOK, clientVars
<1>7. LoopInv'
  BY <1>1, <1>2, StepFacts DEF Inv, LoopInv, Readable, Open, clientVars
<1>8. TablesAgree'
  <2>1. readsocket' = {Listener} \cup {d \in Conns : client'[d] # Nil}
    BY <1>1, <1>2, <1>5 DEF Inv, TablesAgree
  <2>2. ASSUME NEW d \in Conns, client'[d] # Nil
        PROVE  fds'[client'[d]] = d /\ desc'["server"][client'[d]] = d
    <3>1. d # c /\ client'[d] = client[d]
      BY <1>5, <2>2
    <3>2. PICK n \in Fds : n = client[d]
      BY <2>2, <3>1, Served
    <3>3. fds[n] = d /\ desc["server"][n] = d
      BY <2>2, <3>1, <3>2 DEF Inv, TablesAgree
    <3>4. n # fd
      BY <1>4, <3>1, <3>3
    <3>. QED
      BY <1>1, <1>5, <3>1, <3>2, <3>3, <3>4
  <2>3. ASSUME NEW n \in Fds, fds'[n] # Nil PROVE client'[fds'[n]] = n
    <3>1. n # fd /\ fds'[n] = fds[n] /\ fds[n] \in Conns /\ client[fds[n]] = n
      BY <1>5, <2>3 DEF Inv, TypeOK, TablesAgree
    <3>2. fds[n] # c
      BY <1>3, <3>1
    <3>. QED
      BY <1>5, <3>1, <3>2
  <2>4. \A n \in Fds : fd2rdt'[n] # NoSession =>
            fds'[n] # Nil /\ owner'[fds'[n]] = fd2rdt'[n]
    BY <1>1, <1>5 DEF Inv, TablesAgree, clientVars
  <2>. QED
    BY <2>1, <2>2, <2>3, <2>4 DEF TablesAgree
<1>9. ClosedInv'
  BY <1>1, <1>4, <1>5 DEF Inv, ClosedInv, Open, clientVars
<1>10. OneOwner' /\ Made' /\ CurrentInv'
  BY <1>1 DEF Inv, OneOwner, Made, CurrentInv, clientVars
<1>. QED
  BY <1>6, <1>7, <1>8, <1>9, <1>10 DEF Inv

-----------------------------------------------------------------------------
(* The theorems *)

\* The listening socket is open and nothing else.
LEMMA InitInv == Init /\ SocketTableAssumption => Inv
<1>. SUFFICES ASSUME Init, SocketTableAssumption PROVE Inv
  OBVIOUS
<1>1. PICK fd \in Fds :
        /\ desc = [p \in Processes |-> [f \in Fds |->
                     IF p = "server" /\ f = fd THEN Listener ELSE Free]]
        /\ sockfd = [p \in Processes |-> [s \in Sockets |->
                       IF p = "server" /\ s = Listener THEN fd ELSE None]]
  BY DEF Init
<1>2. None \notin Fds /\ Free \notin Sockets /\ Listener \notin Conns /\ Listener \in Sockets
      /\ Conns \subseteq Sockets
  BY SocketTableAssumption DEF None, Free, Sockets, Conns, Listener
<1>3. /\ << >> \in Seq(Clients) /\ << >> \in Seq(Conns) /\ Len(<< >>) = 0
      /\ 0 <= MaxConns
  BY SocketTableAssumption
<1>4. TypeOK
  <2>1. desc \in Desc /\ sockfd \in SockFd
    BY <1>1, <1>2 DEF Desc, SockFd
  <2>2. prog \in Progs
    BY DEF Init, Progs
  <2>. QED
    BY <1>2, <1>3, <2>1, <2>2 DEF Init, TypeOK, Desc, SockFd, Progs
<1>5. OneOwner
  BY <1>1, <1>2 DEF OneOwner
<1>6. TablesAgree
  BY DEF Init, TablesAgree
<1>7. Made
  BY <1>1, <1>2, <1>3, SocketTableAssumption DEF Init, Made, Processes
<1>8. LoopInv /\ CurrentInv
  BY DEF Init, LoopInv, CurrentInv
<1>9. ClosedInv
  BY <1>1, <1>2 DEF Init, ClosedInv, Processes
<1>. QED
  BY <1>4, <1>5, <1>6, <1>7, <1>8, <1>9 DEF Inv

\* Every step of the clients, the server's loop and the collector.
LEMMA NextInv == Inv /\ SocketTableAssumption /\ [Next]_vars => Inv'
<1>. SUFFICES ASSUME Inv, SocketTableAssumption, [Next]_vars PROVE Inv'
  OBVIOUS
<1>1. CASE \E p \in Clients : ClientNext(p)
  BY <1>1, FirstKeeps, LoginKeeps, AnsweredKeeps, ReconnKeeps, ExitKeeps DEF ClientNext
<1>2. CASE Loop
  BY <1>2, SelectKeeps, AcceptKeeps, RecvKeeps, CloseKeeps DEF Loop
<1>3. CASE \E p \in Processes, s \in Sockets : gc(p, s)
  BY <1>3, GcKeeps
<1>4. CASE UNCHANGED vars
  BY <1>4 DEF vars, clientVars, tables, loop, Inv, TypeOK, OneOwner, TablesAgree, Made,
              LoopInv, CurrentInv, ClosedInv, Readable, Open
<1>. QED
  BY <1>1, <1>2, <1>3, <1>4 DEF Next

\* The invariant behind the theorems below, for any number of clients,
\* descriptors and connections.
THEOREM SocketInvariance == Spec => []Inv
<1>1. Init => Inv
  BY InitInv, SocketTableAssumption
<1>2. Inv /\ [Next]_vars => Inv'
  BY NextInv, SocketTableAssumption
<1>. QED
  BY <1>1, <1>2, PTL DEF Spec

\* lsocket.c:135-154, rdt_server.lua:78-99: a descriptor number is free or refers
\* to a socket that exists, an object has a number, has shut or never had one, and
\* the tables hold numbers, sessions and sockets of the right kind, whoever steps.
THEOREM SocketTypeCorrect == Spec => []TypeOK
<1>1. Inv => TypeOK
  BY DEF Inv
<1>. QED
  BY <1>1, SocketInvariance, PTL

\* lsocket.c:147-154, 1042-1048: no object closes the descriptor of another, and
\* no descriptor is left that no object would close.
THEOREM DescriptorsOwned == Spec => []OneOwner
<1>1. Inv => OneOwner
  BY DEF Inv
<1>. QED
  BY <1>1, SocketInvariance, PTL

\* rdt_server.lua:78-99: the tables agree with each other and with the kernel,
\* however often a number has been used.
THEOREM TablesNeverStale == Spec => []TablesAgree
<1>1. Inv => TablesAgree
  BY DEF Inv
<1>. QED
  BY <1>1, SocketInvariance, PTL

\* rdt_client.lua:157-158: a connection in use is never closed by something else.
THEOREM ConnectionKept == Spec => []CurrentIsOpen
<1>1. ASSUME Inv PROVE CurrentIsOpen
  <2>1. SUFFICES ASSUME NEW p \in Clients, prog[p].at \in {"waits", "up"}
                 PROVE  Open(p, prog[p].so)
    BY DEF CurrentIsOpen
  <2>2. prog[p].so \in Sockets /\ p \in Processes
    BY <1>1, <2>1, Types DEF Inv, CurrentInv, Sockets
  <2>3. PICK fd \in Fds : fd = sockfd[p][prog[p].so]
    BY <1>1, <2>1 DEF Inv, CurrentInv
  <2>4. desc[p][fd] = prog[p].so
    BY <1>1, <2>2, <2>3, Types, OwnedAt
  <2>. QED
    BY <2>4 DEF Open
<1>. QED
  BY <1>1, SocketInvariance, PTL

\* Only the collector takes a descriptor from the server.
LEMMA ServerCloses ==
  ASSUME Inv, SocketTableAssumption, [Next]_vars, NEW c \in 1 .. Len(owner),
         Open("server", c), ~Open("server", c)'
  PROVE  gc("server", c)
<1>1. PICK fd \in Fds : desc["server"][fd] = c /\ desc'["server"][fd] # c
  BY DEF Open
<1>2. c \in Conns /\ c \in Sockets /\ Free \notin Sockets
  BY Types DEF Sockets, Free, Listener, Conns
<1>3. "server" \notin Clients /\ "server" \in Processes /\ Clients \subseteq Processes
      /\ desc \in Desc
  BY Types, SocketTableAssumption
<1>4. ~\E p \in Clients : ClientNext(p)
  <2>1. SUFFICES ASSUME NEW p \in Clients, ClientNext(p) PROVE FALSE
    OBVIOUS
  <2>2. p # "server"
    BY <1>3
  <2>3. desc'["server"] = desc["server"]
    BY <1>3, <2>1, <2>2 DEF ClientNext, ConnectFirst, Login, Answered, test_reconn, Exit,
                            pushlSocket, Closed, Desc
  <2>. QED
    BY <1>1, <2>3
<1>5. ~Loop
  <2>1. ~select /\ \A d \in Conns : ~recv(d) /\ ~close(d)
    BY <1>1 DEF select, recv, close
  <2>2. ~accept
    <3>1. SUFFICES ASSUME accept PROVE FALSE
      OBVIOUS
    <3>2. PICK n \in Fds : desc["server"][n] = Free
                           /\ desc' = [desc EXCEPT !["server"][n] = Head(pending)]
      BY <1>1, <3>1 DEF accept, pushlSocket, Lowest, FreeFds
    <3>. QED
      BY <1>1, <1>2, <1>3, <3>2 DEF Desc
  <2>. QED
    BY <2>1, <2>2 DEF Loop
<1>6. PICK p \in Processes, s \in Sockets : gc(p, s)
  BY <1>1, <1>4, <1>5 DEF Next, vars
<1>7. desc' = IF sockfd[p][s] \in Fds THEN [desc EXCEPT ![p][sockfd[p][s]] = Free] ELSE desc
  BY <1>6 DEF gc, Closed
<1>8. p = "server" /\ sockfd[p][s] = fd
  BY <1>1, <1>3, <1>7 DEF Desc
<1>9. s = c
  BY <1>1, <1>2, <1>3, <1>8, Types, OwnedAt
<1>. QED
  BY <1>6, <1>8, <1>9

\* rdt_server.lua:159-163: the server closes its end of a connection only after
\* the client has closed its own.
THEOREM ServerOutlasts == Spec => ServerEndStays
<1>. DEFINE Stays(c) == Open("server", c) /\ ~Open("server", c)' => ~Open(owner[c], c)
<1>1. ASSUME Inv, [Next]_vars, NEW c \in 1 .. Len(owner), Open("server", c), ~Open("server", c)'
      PROVE  ~Open(owner[c], c)
  <2>1. gc("server", c)
    BY <1>1, ServerCloses, SocketTableAssumption
  <2>2. c \in Conns /\ c \in Sockets /\ "server" \in Processes
    BY <1>1, Types DEF Sockets
  <2>3. client[c] = Nil
    BY <2>1, <2>2 DEF gc, Reachable
  <2>4. sockfd["server"][c] \in Fds
    <3>1. PICK fd \in Fds : desc["server"][fd] = c
      BY <1>1 DEF Open
    <3>. QED
      BY <1>1, <2>2, <3>1, Types, OwnedAt
  <2>. QED
    BY <1>1, <2>2, <2>3, <2>4 DEF Inv, ClosedInv
<1>2. Inv /\ [Next]_vars => [\A c \in 1 .. Len(owner) : Stays(c)]_vars
  BY <1>1
<1>3. Spec => [][\A c \in 1 .. Len(owner) : Stays(c)]_vars
  BY <1>2, SocketInvariance, PTL DEF Spec
<1>. QED
  BY <1>3 DEF ServerEndStays

-----------------------------------------------------------------------------
(* Packets over one connection *)

\* A byte: which of which packet.
Marks == Nat \X Nat

\* The packets that are on the connection or past it: all, or all but the one
\* sendmsgbyso is about to write.
Written == IF len = Idle THEN Len(sent) ELSE Len(sent) - 1

\* The inductive invariant: no send is under way in part, and what is buffered
\* or under way is what has been written and not handed out.
PacketInv ==
    /\ sent \in Seq(Sizes) /\ Len(sent) <= MaxPackets
    /\ len \in {Idle, 0}
    /\ input_buf \in Seq(Marks) /\ wire \in Seq(Marks)
    /\ handed \in Seq(Nat) /\ handed = [i \in 1 .. Len(handed) |-> i]
    /\ Len(handed) <= Written
    /\ input_buf \o wire = Packets(Len(handed) + 1, Written)

\* The connection takes all of the packet sendmsgbyso writes.
WriteFits == Len(wire) + Len(packet_pack(Len(sent))) <= Capacity

\* The connection holds as many packets as are written.
RoomForAll ==
    \E most \in Nat : /\ \A n \in Sizes : HeaderLen + n <= most
                      /\ MaxPackets * most <= Capacity

-----------------------------------------------------------------------------
(* Packets back to back *)

\* The k-th packet, and packets j .. k, when s has the lengths.
Packet(s, k) == [i \in 1 .. HeaderLen + s[k] |-> << k, i >>]
List(s, j, k) == [i \in 1 .. k - j + 1 |-> Packet(s, i + j - 1)]
Stretch(s, j, k) == FlattenSeq(List(s, j, k))

\* A packet has bytes.
LEMMA PacketType ==
  ASSUME SocketAssumption, NEW s \in Seq(Sizes), NEW k \in 1 .. Len(s)
  PROVE  /\ Packet(s, k) \in Seq(Marks) /\ Len(Packet(s, k)) = HeaderLen + s[k]
         /\ HeaderLen + s[k] \in Nat \ {0} /\ s[k] \in Sizes /\ s[k] \in Nat \ {0}
<1>1. s[k] \in Sizes /\ s[k] \in Nat \ {0} /\ HeaderLen \in Nat \ {0} /\ k \in Nat
  <2>1. s[k] \in Sizes /\ k \in Nat
    OBVIOUS
  <2>2. Sizes \subseteq Nat \ {0} /\ HeaderLen \in Nat \ {0}
    BY DEF SocketAssumption
  <2>. QED
    BY <2>1, <2>2
<1>2. HeaderLen + s[k] \in Nat \ {0}
  BY <1>1
<1>. QED
  BY <1>1, <1>2 DEF Packet, Marks

\* Packets are a list of as many sequences.
LEMMA ListType ==
  ASSUME SocketAssumption, NEW s \in Seq(Sizes), NEW j \in Nat \ {0}, NEW k \in 0 .. Len(s),
         j <= k + 1
  PROVE  /\ List(s, j, k) \in Seq(Seq(Marks)) /\ Len(List(s, j, k)) = k - j + 1
         /\ Stretch(s, j, k) \in Seq(Marks)
<1>1. k - j + 1 \in Nat
  OBVIOUS
<1>2. \A i \in 1 .. k - j + 1 : Packet(s, i + j - 1) \in Seq(Marks)
  <2>1. \A i \in 1 .. k - j + 1 : i + j - 1 \in 1 .. Len(s)
    OBVIOUS
  <2>. QED
    BY <2>1, PacketType
<1>3. List(s, j, k) \in Seq(Seq(Marks)) /\ Len(List(s, j, k)) = k - j + 1
  BY <1>1, <1>2 DEF List
<1>. QED
  BY <1>3, FlattenType DEF Stretch

\* No packets, no bytes.
LEMMA StretchNone ==
  ASSUME NEW s, NEW k \in Nat
  PROVE  Stretch(s, k + 1, k) = << >>
<1>1. List(s, k + 1, k) = << >>
  BY DEF List
<1>. QED
  BY <1>1, FlattenEmpty DEF Stretch

\* The first packet, then the others.
LEMMA StretchFirst ==
  ASSUME SocketAssumption, NEW s \in Seq(Sizes), NEW j \in Nat \ {0}, NEW k \in 0 .. Len(s),
         j <= k
  PROVE  Stretch(s, j, k) = Packet(s, j) \o Stretch(s, j + 1, k)
<1>. DEFINE first == Packet(s, j)
            rest == List(s, j + 1, k)
            all == List(s, j, k)
<1>1. first \in Seq(Marks)
  BY PacketType
<1>2. rest \in Seq(Seq(Marks)) /\ Len(rest) = k - j
  <2>1. j + 1 \in Nat \ {0} /\ j + 1 <= k + 1 /\ k - (j + 1) + 1 = k - j
    OBVIOUS
  <2>. QED
    BY <2>1, ListType
<1>3. all \in Seq(Seq(Marks)) /\ Len(all) = k - j + 1
  <2>1. j <= k + 1
    OBVIOUS
  <2>. QED
    BY <2>1, ListType
<1>4. /\ << first >> \in Seq(Seq(Marks)) /\ Len(<< first >>) = 1
      /\ << first >> \o rest \in Seq(Seq(Marks)) /\ Len(<< first >> \o rest) = k - j + 1
      /\ \A i \in 1 .. k - j + 1 :
           (<< first >> \o rest)[i] = IF i = 1 THEN first ELSE rest[i - 1]
  <2>. HIDE DEF first, rest
  <2>. QED
    BY <1>1, <1>2
<1>5. \A i \in 1 .. k - j + 1 : all[i] = Packet(s, i + j - 1)
  BY DEF List
<1>6. \A i \in 2 .. k - j + 1 : rest[i - 1] = Packet(s, i + j - 1)
  <2>1. \A i \in 2 .. k - j + 1 : i - 1 \in 1 .. k - (j + 1) + 1 /\ i - 1 + (j + 1) - 1 = i + j - 1
    OBVIOUS
  <2>. QED
    BY <2>1 DEF List
<1>7. first = Packet(s, 1 + j - 1)
  OBVIOUS
<1>. HIDE DEF first, rest, all
<1>8. ASSUME NEW i \in 1 .. k - j + 1
      PROVE  all[i] = (<< first >> \o rest)[i]
  <2>1. CASE i = 1
    BY <1>4, <1>5, <1>7, <2>1
  <2>2. CASE i # 1
    <3>1. i \in 2 .. k - j + 1
      BY <2>2
    <3>. QED
      BY <1>4, <1>5, <1>6, <2>2, <3>1
  <2>. QED
    BY <2>1, <2>2
<1>9. all = << first >> \o rest
  <2>. DEFINE both == << first >> \o rest
  <2>1. both \in Seq(Seq(Marks)) /\ Len(both) = k - j + 1 /\ \A i \in 1 .. k - j + 1 : all[i] = both[i]
    BY <1>4, <1>8
  <2>. HIDE DEF both
  <2>2. all = both
    BY <1>3, <2>1, SeqEqual
  <2>. QED
    BY <2>2 DEF both
<1>10. FlattenSeq(all) = first \o FlattenSeq(rest)
  BY <1>1, <1>2, <1>9, FlattenFirst
<1>. QED
  BY <1>10 DEF Stretch, first, rest, all

\* The others, then the last packet.
LEMMA StretchLast ==
  ASSUME SocketAssumption, NEW s \in Seq(Sizes), NEW j \in Nat \ {0}, NEW k \in 1 .. Len(s),
         j <= k
  PROVE  Stretch(s, j, k) = Stretch(s, j, k - 1) \o Packet(s, k)
<1>. DEFINE front == List(s, j, k - 1)
            last == Packet(s, k)
            all == List(s, j, k)
<1>1. last \in Seq(Marks)
  BY PacketType
<1>2. front \in Seq(Seq(Marks)) /\ Len(front) = k - j
  <2>1. k - 1 \in 0 .. Len(s) /\ j <= k - 1 + 1 /\ k - 1 - j + 1 = k - j
    OBVIOUS
  <2>. QED
    BY <2>1, ListType
<1>3. all \in Seq(Seq(Marks)) /\ Len(all) = k - j + 1
  <2>1. k \in 0 .. Len(s) /\ j <= k + 1
    OBVIOUS
  <2>. QED
    BY <2>1, ListType
<1>4. \A i \in 1 .. k - j + 1 : all[i] = Packet(s, i + j - 1)
  BY DEF List
<1>5. \A i \in 1 .. k - j : front[i] = Packet(s, i + j - 1)
  <2>1. k - 1 - j + 1 = k - j
    OBVIOUS
  <2>. QED
    BY <2>1 DEF List
<1>6. last = Packet(s, (k - j + 1) + j - 1)
  OBVIOUS
<1>. HIDE DEF last, front, all
<1>. DEFINE both == Append(front, last)
<1>7. /\ both \in Seq(Seq(Marks)) /\ Len(both) = k - j + 1
      /\ \A i \in 1 .. k - j : both[i] = front[i]
      /\ both[k - j + 1] = last
  BY <1>1, <1>2
<1>. HIDE DEF both
<1>8. ASSUME NEW i \in 1 .. k - j + 1
      PROVE  all[i] = both[i]
  <2>1. CASE i = k - j + 1
    BY <1>4, <1>6, <1>7, <2>1
  <2>2. CASE i # k - j + 1
    <3>1. i \in 1 .. k - j
      BY <2>2
    <3>. QED
      BY <1>4, <1>5, <1>7, <3>1
  <2>. QED
    BY <2>1, <2>2
<1>9. all = both
  BY <1>3, <1>7, <1>8, SeqEqual
<1>10. FlattenSeq(all) = FlattenSeq(front) \o last
  BY <1>1, <1>2, <1>9, FlattenAppend DEF both
<1>. QED
  BY <1>10 DEF Stretch, last, front, all

\* Only the lengths of those packets count.
LEMMA StretchSame ==
  ASSUME NEW s, NEW t, NEW j \in Nat, NEW k \in Nat, \A i \in j .. k : s[i] = t[i]
  PROVE  Stretch(s, j, k) = Stretch(t, j, k)
<1>1. ASSUME NEW i \in 1 .. k - j + 1
      PROVE  Packet(s, i + j - 1) = Packet(t, i + j - 1)
  <2>1. i + j - 1 \in j .. k
    OBVIOUS
  <2>. QED
    BY <2>1 DEF Packet
<1>2. List(s, j, k) = List(t, j, k)
  BY <1>1 DEF List
<1>. QED
  BY <1>2 DEF Stretch

-----------------------------------------------------------------------------
(* The inductive invariant *)

\* Between two states, packets whose lengths stay are the same.
LEMMA PacketsAre ==
  /\ \A j, k : Packets(j, k) = Stretch(sent, j, k) /\ Packets(j, k)' = Stretch(sent', j, k)
  /\ \A k : packet_pack(k) = Packet(sent, k)
BY DEF Packets, packet_pack, Stretch, List, Packet

\* Initially nothing is written.
LEMMA InitStream == SocketAssumption /\ StreamInit => PacketInv
<1>. SUFFICES ASSUME SocketAssumption, StreamInit PROVE PacketInv
  OBVIOUS
<1>1. sent = << >> /\ len = Idle /\ wire = << >> /\ input_buf = << >> /\ handed = << >>
  BY DEF StreamInit
<1>2. Written = 0 /\ MaxPackets \in Nat
  BY <1>1 DEF Written, SocketAssumption
<1>3. Stretch(sent, 0 + 1, 0) = << >>
  BY StretchNone
<1>4. input_buf \o wire = Packets(Len(handed) + 1, Written)
  BY <1>1, <1>2, <1>3, PacketsAre
<1>5. handed = [i \in 1 .. Len(handed) |-> i] /\ handed \in Seq(Nat) /\ Len(handed) = 0
  BY <1>1
<1>6. sent \in Seq(Sizes) /\ Len(sent) <= MaxPackets
  BY <1>1, <1>2
<1>. QED
  BY <1>1, <1>2, <1>4, <1>5, <1>6 DEF PacketInv

\* What the invariant says in terms of Stretch, and of Written.
LEMMA InvFacts ==
  ASSUME SocketAssumption, PacketInv
  PROVE  /\ Len(sent) \in Nat /\ Len(handed) \in Nat /\ Written \in 0 .. Len(sent)
         /\ Len(handed) + 1 \in Nat \ {0} /\ Len(handed) + 1 <= Written + 1
         /\ len # Idle => len = 0 /\ Len(sent) \in Nat \ {0} /\ Written = Len(sent) - 1
         /\ len = Idle => Written = Len(sent)
         /\ input_buf \o wire = Stretch(sent, Len(handed) + 1, Written)
<1>1. /\ Len(sent) \in Nat /\ Len(handed) \in Nat /\ len \in {Idle, 0}
      /\ Len(handed) <= Written
  BY DEF PacketInv
<1>2. Written = IF len = Idle THEN Len(sent) ELSE Len(sent) - 1
  BY DEF Written
<1>3. input_buf \o wire = Stretch(sent, Len(handed) + 1, Written)
  BY PacketsAre DEF PacketInv
<1>. QED
  BY <1>1, <1>2, <1>3

\* A message to write is not on the connection yet.
LEMMA BeginKeeps ==
  ASSUME SocketAssumption, PacketInv, NEW n \in Sizes, sendmsgbyso(n)
  PROVE  PacketInv'
<1>1. /\ len = Idle /\ Len(sent) < MaxPackets /\ sent' = Append(sent, n) /\ len' = 0
      /\ wire' = wire /\ input_buf' = input_buf /\ handed' = handed
  BY DEF sendmsgbyso
<1>2. /\ sent \in Seq(Sizes) /\ input_buf \in Seq(Marks) /\ wire \in Seq(Marks)
      /\ handed \in Seq(Nat) /\ handed = [i \in 1 .. Len(handed) |-> i]
  BY DEF PacketInv
<1>3. MaxPackets \in Nat
  BY DEF SocketAssumption
<1>4. /\ sent' \in Seq(Sizes) /\ Len(sent') = Len(sent) + 1 /\ Len(sent') <= MaxPackets
      /\ \A i \in 1 .. Len(sent) : sent[i] = sent'[i]
  BY <1>1, <1>2, <1>3
<1>5. Written' = Written
  BY <1>1, <1>4, InvFacts DEF Written, Idle
<1>6. Stretch(sent, Len(handed) + 1, Written) = Stretch(sent', Len(handed) + 1, Written)
  <2>1. \A i \in Len(handed) + 1 .. Written : sent[i] = sent'[i]
    <3>1. \A i \in Len(handed) + 1 .. Written : i \in 1 .. Len(sent)
      BY InvFacts
    <3>. QED
      BY <1>4, <3>1
  <2>2. Len(handed) + 1 \in Nat /\ Written \in Nat
    BY InvFacts
  <2>. QED
    BY <2>1, <2>2, StretchSame
<1>7. (input_buf \o wire = Packets(Len(handed) + 1, Written))'
  BY <1>1, <1>5, <1>6, InvFacts, PacketsAre
<1>8. Len(handed') <= Written'
  BY <1>1, <1>5 DEF PacketInv
<1>. QED
  BY <1>1, <1>2, <1>4, <1>7, <1>8 DEF PacketInv

\* A send that takes all puts the packet behind the others and ends the loop.
LEMMA SendKeeps ==
  ASSUME SocketAssumption, PacketInv, SendTurn, WriteFits
  PROVE  PacketInv'
<1>. DEFINE n == Len(sent)
            h == Len(handed) + 1
            msg == packet_pack(n)
<1>1. /\ len # Idle /\ sent' = sent /\ input_buf' = input_buf /\ handed' = handed
      /\ wire' = wire \o Fits(SubSeq(msg, IF len < 0 THEN 1 ELSE len + 1, Len(msg)))
      /\ LET data == SubSeq(msg, IF len < 0 THEN 1 ELSE len + 1, Len(msg))
         IN  len' = IF SendResult(data) = Len(msg) THEN Idle ELSE SendResult(data)
  BY DEF SendTurn
<1>2. /\ sent \in Seq(Sizes) /\ input_buf \in Seq(Marks) /\ wire \in Seq(Marks)
      /\ handed \in Seq(Nat) /\ handed = [i \in 1 .. Len(handed) |-> i]
      /\ Len(sent) <= MaxPackets
  BY DEF PacketInv
<1>3. n \in 1 .. Len(sent) /\ n \in Nat \ {0} /\ len = 0 /\ Written = n - 1
  BY <1>1, InvFacts
<1>4. msg = Packet(sent, n) /\ msg \in Seq(Marks) /\ Len(msg) \in Nat \ {0}
  <2>1. msg = Packet(sent, n)
    BY PacketsAre
  <2>2. Packet(sent, n) \in Seq(Marks) /\ Len(Packet(sent, n)) \in Nat \ {0}
    BY <1>2, <1>3, PacketType
  <2>. QED
    BY <2>1, <2>2
<1>5. Capacity \in Nat /\ Len(wire) \in Nat /\ Len(wire) + Len(msg) <= Capacity
  BY <1>2 DEF SocketAssumption, WriteFits
<1>. HIDE DEF msg
<1>6. SubSeq(msg, IF len < 0 THEN 1 ELSE len + 1, Len(msg)) = msg
  <2>1. (IF len < 0 THEN 1 ELSE len + 1) = 1
    BY <1>3
  <2>2. SubSeq(msg, 1, Len(msg)) = msg
    BY <1>4
  <2>. QED
    BY <2>1, <2>2
<1>7. Fits(msg) = msg /\ SendResult(msg) = Len(msg)
  BY <1>4, <1>5 DEF Fits, SendResult
<1>8. wire' = wire \o msg /\ len' = Idle
  BY <1>1, <1>6, <1>7
<1>9. Written' = n /\ wire' \in Seq(Marks)
  <2>1. wire' \in Seq(Marks)
    BY <1>2, <1>4, <1>8, ConcatProperties
  <2>2. Written' = n
    BY <1>1, <1>8 DEF Written
  <2>. QED
    BY <2>1, <2>2
<1>10. Stretch(sent, h, n) = Stretch(sent, h, n - 1) \o msg
  <2>1. h \in Nat \ {0} /\ h <= n
    BY <1>3, InvFacts
  <2>. QED
    BY <1>2, <1>3, <1>4, <2>1, StretchLast
<1>11. input_buf \o (wire \o msg) = (input_buf \o wire) \o msg
  <2>1. input_buf \in Seq(Marks) /\ wire \in Seq(Marks) /\ msg \in Seq(Marks)
    BY <1>2, <1>4
  <2>2. \A x, y, z \in Seq(Marks) : (x \o y) \o z = x \o (y \o z)
    BY Joined
  <2>. QED
    BY <2>1, <2>2
<1>12. input_buf \o wire = Stretch(sent, h, n - 1)
  BY <1>3, InvFacts
<1>13. (input_buf \o wire = Packets(Len(handed) + 1, Written))'
  <2>1. input_buf' \o wire' = Stretch(sent, h, n)
    BY <1>1, <1>8, <1>10, <1>11, <1>12
  <2>. QED
    BY <1>1, <1>9, <2>1, PacketsAre
<1>14. Len(handed') <= Written'
  BY <1>1, <1>3, <1>9, InvFacts
<1>. QED
  BY <1>1, <1>2, <1>8, <1>9, <1>13, <1>14 DEF PacketInv

\* Without the first of two sequences the second is left.
LEMMA SecondLeft ==
  ASSUME NEW x \in Seq(Marks), NEW y \in Seq(Marks)
  PROVE  SubSeq(x \o y, Len(x) + 1, Len(x \o y)) = y
<1>. DEFINE z == x \o y
            rest == SubSeq(z, Len(x) + 1, Len(z))
<1>1. /\ z \in Seq(Marks) /\ Len(z) = Len(x) + Len(y)
      /\ \A i \in 1 .. Len(x) + Len(y) : z[i] = IF i <= Len(x) THEN x[i] ELSE y[i - Len(x)]
  BY BothJoined
<1>2. Len(x) \in Nat /\ Len(y) \in Nat
  OBVIOUS
<1>. HIDE DEF z
<1>3. Len(x) \in 0 .. Len(z)
  BY <1>1, <1>2
<1>4. /\ rest \in Seq(Marks) /\ Len(rest) = Len(z) - Len(x)
      /\ \A i \in 1 .. Len(z) - Len(x) : rest[i] = z[Len(x) + i]
  BY <1>1, <1>3, LastOnes
<1>. HIDE DEF rest
<1>5. Len(rest) = Len(y)
  BY <1>1, <1>2, <1>4
<1>6. ASSUME NEW i \in 1 .. Len(y)
      PROVE  rest[i] = y[i]
  <2>1. i \in 1 .. Len(z) - Len(x) /\ Len(x) + i \in 1 .. Len(x) + Len(y)
    BY <1>1, <1>2
  <2>2. rest[i] = z[Len(x) + i]
    BY <1>4, <2>1
  <2>3. ~(Len(x) + i <= Len(x)) /\ Len(x) + i - Len(x) = i
    BY <1>2
  <2>4. z[Len(x) + i] = y[Len(x) + i - Len(x)]
    BY <1>1, <2>1, <2>3
  <2>. QED
    BY <2>2, <2>3, <2>4
<1>7. rest = y
  BY <1>4, <1>5, <1>6, SeqEqual
<1>. QED
  BY <1>7 DEF z, rest

\* What is buffered with what one recv adds, and what it leaves on the wire.
LEMMA ReceivedParts ==
  ASSUME PacketInv, NEW n \in 1 .. Len(wire), NEW buf, NEW left,
         buf = input_buf \o SubSeq(wire, 1, n), left = SubSeq(wire, n + 1, Len(wire))
  PROVE  buf \in Seq(Marks) /\ left \in Seq(Marks) /\ buf \o left = input_buf \o wire
<1>. DEFINE took == SubSeq(wire, 1, n)
<1>1. input_buf \in Seq(Marks) /\ wire \in Seq(Marks) /\ n \in 0 .. Len(wire)
  BY DEF PacketInv
<1>2. took \in Seq(Marks)
  BY <1>1, FirstOnes
<1>3. left \in Seq(Marks)
  BY <1>1, LastOnes
<1>4. took \o left = wire
  BY <1>1, PartsOfOne
<1>5. (input_buf \o took) \o left = input_buf \o (took \o left)
  <2>. HIDE DEF took
  <2>1. \A x, y, z \in Seq(Marks) : (x \o y) \o z = x \o (y \o z)
    BY Joined
  <2>2. input_buf \in Seq(Marks)
    BY <1>1
  <2>. QED
    BY <1>2, <1>3, <2>1, <2>2
<1>6. buf \in Seq(Marks)
  BY <1>1, <1>2, ConcatProperties
<1>. QED
  BY <1>3, <1>4, <1>5, <1>6

\* A packet that is handed out is the next, and what is left begins after it.
LEMMA PacketTaken ==
  ASSUME SocketAssumption, PacketInv, NEW buf \in Seq(Marks), NEW left \in Seq(Marks),
         buf \o left = input_buf \o wire, ~Lacks(buf), NEW k, k = Len(handed) + 1
  PROVE  /\ k <= Written /\ buf[1][1] = k
         /\ Rest(buf) \in Seq(Marks) /\ Rest(buf) \o left = Stretch(sent, k + 1, Written)
<1>. DEFINE pkt == Packet(sent, k)
            rest == Stretch(sent, k + 1, Written)
            all == buf \o left
            size == HeaderLen + sent[k]
<1>1. /\ sent \in Seq(Sizes) /\ k \in Nat \ {0} /\ Written \in 0 .. Len(sent)
      /\ k <= Written + 1 /\ Len(sent) \in Nat
  BY InvFacts DEF PacketInv
<1>2. all = Stretch(sent, k, Written)
  BY InvFacts
<1>3. Len(buf) \in Nat \ {0} /\ Len(left) \in Nat
  <2>1. HeaderLen \in Nat /\ ~(Len(buf) <= HeaderLen) /\ Len(buf) \in Nat
    BY DEF SocketAssumption, Lacks
  <2>. QED
    BY <2>1
<1>4. /\ all \in Seq(Marks) /\ Len(all) = Len(buf) + Len(left)
      /\ \A i \in 1 .. Len(buf) + Len(left) :
           all[i] = IF i <= Len(buf) THEN buf[i] ELSE left[i - Len(buf)]
  BY BothJoined
<1>5. all[1] = buf[1] /\ all # << >>
  <2>1. 1 \in 1 .. Len(buf) + Len(left) /\ 1 <= Len(buf) /\ Len(all) # 0
    BY <1>3, <1>4
  <2>. QED
    BY <1>4, <2>1
<1>6. k <= Written
  <2>1. Written \in Nat
    BY <1>1
  <2>2. Stretch(sent, Written + 1, Written) = << >>
    BY <2>1, StretchNone
  <2>3. k # Written + 1
    BY <1>2, <1>5, <2>2
  <2>. QED
    BY <1>1, <2>1, <2>3
<1>7. k \in 1 .. Len(sent)
  BY <1>1, <1>6
<1>8. /\ pkt \in Seq(Marks) /\ Len(pkt) = size /\ size \in Nat \ {0}
      /\ pkt[1] = << k, 1 >>
  <2>1. pkt \in Seq(Marks) /\ Len(pkt) = size /\ size \in Nat \ {0}
    BY <1>1, <1>7, PacketType
  <2>2. pkt[1] = << k, 1 >>
    BY <2>1 DEF Packet
  <2>. QED
    BY <2>1, <2>2
<1>9. rest \in Seq(Marks)
  <2>1. k + 1 \in Nat \ {0} /\ k + 1 <= Written + 1
    BY <1>1, <1>6
  <2>. QED
    BY <1>1, <2>1, ListType
<1>10. all = pkt \o rest
  BY <1>1, <1>2, <1>6, StretchFirst
<1>. HIDE DEF pkt, rest
<1>11. all[1] = pkt[1]
  <2>1. /\ Len(pkt \o rest) = Len(pkt) + Len(rest)
        /\ \A i \in 1 .. Len(pkt) + Len(rest) :
             (pkt \o rest)[i] = IF i <= Len(pkt) THEN pkt[i] ELSE rest[i - Len(pkt)]
    BY <1>8, <1>9, BothJoined
  <2>2. Len(rest) \in Nat
    BY <1>9
  <2>. HIDE DEF size, all
  <2>3. 1 \in 1 .. Len(pkt) + Len(rest) /\ 1 <= Len(pkt)
    BY <1>8, <2>2
  <2>. QED
    BY <1>10, <2>1, <2>3
<1>12. buf[1][1] = k
  BY <1>5, <1>8, <1>11
<1>13. size <= Len(buf)
  <2>1. ~(Len(buf) < HeaderLen + sent[k])
    BY <1>12 DEF Lacks
  <2>. HIDE DEF size
  <2>. QED
    BY <1>3, <1>8, <2>1 DEF size
<1>14. Rest(buf) = SubSeq(buf, size + 1, Len(buf))
  BY <1>12 DEF Rest
<1>. HIDE DEF size, all
<1>15. size \in 0 .. Len(buf)
  BY <1>3, <1>8, <1>13
<1>16. Rest(buf) \in Seq(Marks)
  BY <1>14, <1>15, LastOnes
<1>17. Rest(buf) \o left = SubSeq(all, size + 1, Len(all))
  <2>. DEFINE none == 0
  <2>1. SubSeq(left, none + 1, Len(left)) = left
    OBVIOUS
  <2>2. none \in 0 .. Len(left) /\ size + none + 1 = size + 1
    BY <1>3, <1>8
  <2>3. none = 0
    OBVIOUS
  <2>. HIDE DEF none
  <2>4. SubSeq(buf, size + 1, Len(buf)) \o SubSeq(left, none + 1, Len(left))
          = SubSeq(buf \o left, size + none + 1, Len(buf) + Len(left))
    BY <1>15, <2>2, <2>3, PartsJoined
  <2>. QED
    BY <1>4, <1>14, <2>1, <2>2, <2>4 DEF all
<1>18. SubSeq(all, size + 1, Len(all)) = rest
  BY <1>8, <1>9, <1>10, SecondLeft
<1>. QED
  BY <1>6, <1>12, <1>16, <1>17, <1>18 DEF rest

\* What recv_packet takes from the connection it buffers or hands out.
LEMMA ReceiveKeeps ==
  ASSUME SocketAssumption, PacketInv, recv_packet
  PROVE  PacketInv'
<1>. DEFINE k == Len(handed) + 1
<1>1. PICK n \in 1 .. Len(wire) :
        LET buf == input_buf \o SubSeq(wire, 1, n)
        IN  /\ n <= READER_BUFSIZ
            /\ wire' = SubSeq(wire, n + 1, Len(wire))
            /\ Len(buf) > HeaderLen => IsHeader(buf)
            /\ IF Lacks(buf)
               THEN input_buf' = buf /\ refused' = TRUE /\ UNCHANGED handed
               ELSE /\ input_buf' = Rest(buf)
                    /\ handed' = Append(handed, buf[1][1])
                    /\ UNCHANGED refused
            /\ UNCHANGED << sent, len >>
  BY DEF recv_packet
<1>. DEFINE buf == input_buf \o SubSeq(wire, 1, n)
            left == SubSeq(wire, n + 1, Len(wire))
<1>2. /\ sent' = sent /\ len' = len /\ wire' = left
      /\ Lacks(buf) => input_buf' = buf /\ handed' = handed
      /\ ~Lacks(buf) => input_buf' = Rest(buf) /\ handed' = Append(handed, buf[1][1])
  BY <1>1
<1>3. buf \in Seq(Marks) /\ left \in Seq(Marks) /\ buf \o left = input_buf \o wire
  BY ReceivedParts
<1>4. /\ sent \in Seq(Sizes) /\ Len(sent) <= MaxPackets /\ len \in {Idle, 0}
      /\ handed \in Seq(Nat) /\ handed = [i \in 1 .. Len(handed) |-> i]
      /\ Len(handed) <= Written
  BY DEF PacketInv
<1>5. Written' = Written
  BY <1>2 DEF Written
<1>. HIDE DEF buf, left
<1>6. CASE Lacks(buf)
  <2>1. input_buf' \o wire' = Stretch(sent', Len(handed') + 1, Written')
    BY <1>2, <1>3, <1>5, <1>6, InvFacts
  <2>2. (input_buf \o wire = Packets(Len(handed) + 1, Written))'
    BY <2>1, PacketsAre
  <2>3. Len(handed') <= Written'
    BY <1>2, <1>4, <1>5, <1>6
  <2>. QED
    BY <1>2, <1>3, <1>4, <1>6, <2>2, <2>3 DEF PacketInv
<1>7. CASE ~Lacks(buf)
  <2>1. /\ k <= Written /\ buf[1][1] = k
        /\ Rest(buf) \in Seq(Marks) /\ Rest(buf) \o left = Stretch(sent, k + 1, Written)
    BY <1>3, <1>7, PacketTaken
  <2>2. input_buf' = Rest(buf) /\ handed' = Append(handed, k)
    BY <1>2, <1>7, <2>1
  <2>3. k \in Nat \ {0} /\ k = Len(handed) + 1
    BY InvFacts
  <2>. HIDE DEF k
  <2>4. handed' \in Seq(Nat) /\ Len(handed') = k /\ handed' = [i \in 1 .. Len(handed') |-> i]
    BY <1>4, <2>2, <2>3
  <2>5. input_buf' \o wire' = Stretch(sent', Len(handed') + 1, Written')
    BY <1>2, <1>5, <2>1, <2>2, <2>4
  <2>6. (input_buf \o wire = Packets(Len(handed) + 1, Written))'
    BY <2>5, PacketsAre
  <2>7. Len(handed') <= Written'
    BY <1>5, <2>1, <2>4
  <2>. QED
    BY <1>2, <1>3, <1>4, <2>1, <2>2, <2>4, <2>6, <2>7 DEF PacketInv
<1>. QED
  BY <1>6, <1>7

\* A step in which no send is partial keeps the invariant.
LEMMA StreamStep ==
  ASSUME SocketAssumption, PacketInv, StreamNext, SendTurn => WriteFits
  PROVE  PacketInv'
<1>1. CASE \E n \in Sizes : sendmsgbyso(n)
  BY <1>1, BeginKeeps
<1>2. CASE SendTurn
  BY <1>2, SendKeeps
<1>3. CASE recv_packet
  BY <1>3, ReceiveKeeps
<1>. QED
  BY <1>1, <1>2, <1>3 DEF StreamNext

\* So does a step that changes nothing.
LEMMA StreamStutter ==
  ASSUME SocketAssumption, PacketInv, UNCHANGED streamVars
  PROVE  PacketInv'
<1>1. /\ sent' = sent /\ len' = len /\ wire' = wire /\ input_buf' = input_buf
      /\ handed' = handed
  BY DEF streamVars
<1>2. Written' = Written
  BY <1>1 DEF Written
<1>3. (input_buf \o wire = Packets(Len(handed) + 1, Written))'
  BY <1>1, <1>2, InvFacts, PacketsAre
<1>. QED
  BY <1>1, <1>2, <1>3 DEF PacketInv

\* The invariant is StreamIntact, and says what a packet being written adds.
LEMMA InvImpliesIntact == SocketAssumption /\ PacketInv => StreamIntact
<1>. SUFFICES ASSUME SocketAssumption, PacketInv PROVE StreamIntact
  OBVIOUS
<1>. DEFINE h == Len(handed) + 1
            n == Len(sent)
            x == input_buf \o wire
<1>1. /\ sent \in Seq(Sizes) /\ h \in Nat \ {0} /\ Written \in 0 .. n /\ n \in Nat
      /\ h <= Written + 1 /\ x = Stretch(sent, h, Written)
      /\ len # Idle => n \in Nat \ {0} /\ Written = n - 1
      /\ len = Idle => Written = n
  BY InvFacts DEF PacketInv
<1>2. x \in Seq(Marks)
  BY <1>1, ListType
<1>3. Packets(h, n) = Stretch(sent, h, n)
  BY PacketsAre
<1>. HIDE DEF h, x
<1>4. len = Idle => x = Packets(h, n)
  BY <1>1, <1>3
<1>5. IsPrefix(x, Packets(h, n))
  <2>1. CASE len = Idle
    <3>1. << >> \in Seq(Marks) /\ x \o << >> = x
      BY <1>2
    <3>2. IsPrefix(x, x \o << >>)
      BY <1>2, <3>1, FirstIsPrefix
    <3>. QED
      BY <1>4, <2>1, <3>1, <3>2
  <2>2. CASE len # Idle
    <3>. DEFINE last == Packet(sent, n)
    <3>1. n \in 1 .. Len(sent) /\ h <= n
      BY <1>1, <2>2
    <3>2. last \in Seq(Marks)
      BY <1>1, <3>1, PacketType
    <3>. HIDE DEF n
    <3>3. Stretch(sent, h, n) = x \o last
      BY <1>1, <2>2, <3>1, StretchLast
    <3>. HIDE DEF last
    <3>. QED
      BY <1>2, <1>3, <3>2, <3>3, FirstIsPrefix
  <2>. QED
    BY <2>1, <2>2
<1>6. handed = [i \in 1 .. Len(handed) |-> i]
  BY DEF PacketInv
<1>. QED
  BY <1>4, <1>5, <1>6 DEF StreamIntact, x, h

-----------------------------------------------------------------------------
(* Room *)

\* One more packet of at most so many bytes.
LEMMA OneTimesMore ==
  ASSUME NEW i \in Nat \ {0}, NEW m \in Nat
  PROVE  (i - 1) * m + m = i * m /\ (i - 1) * m \in Nat /\ i * m \in Nat
OBVIOUS

\* More packets of at most so many bytes.
LEMMA TimesMore ==
  ASSUME NEW i \in Nat, NEW j \in Nat, NEW m \in Nat, i <= j
  PROVE  i * m <= j * m /\ i * m \in Nat /\ j * m \in Nat
OBVIOUS

\* The bytes of packets none of which has more than most.
LEMMA StretchLength ==
  ASSUME SocketAssumption, NEW s \in Seq(Sizes), NEW j \in Nat \ {0}, NEW k \in 0 .. Len(s),
         j <= k + 1, NEW most \in Nat, \A n \in Sizes : HeaderLen + n <= most
  PROVE  Len(Stretch(s, j, k)) <= (k - j + 1) * most
<1>. DEFINE n == k - j + 1
            P(i) == Stretch(s, j, i + j - 1)
            S == {i \in 0 .. n : Len(P(i)) <= i * most}
<1>1. n \in Nat /\ P(n) = Stretch(s, j, k)
  <2>1. n \in Nat /\ n + j - 1 = k
    OBVIOUS
  <2>. QED
    BY <2>1
<1>2. 0 \in S
  <2>1. j - 1 \in Nat /\ j - 1 + 1 = j /\ 0 + j - 1 = j - 1
    OBVIOUS
  <2>2. Stretch(s, j - 1 + 1, j - 1) = << >>
    BY <2>1, StretchNone
  <2>3. Len(P(0)) = 0 /\ 0 * most = 0
    BY <2>1, <2>2
  <2>. HIDE DEF P
  <2>. QED
    BY <1>1, <2>3
<1>3. ASSUME NEW i \in 1 .. n, i - 1 \in S PROVE i \in S
  <2>. DEFINE kk == i + j - 1
              last == Packet(s, kk)
  <2>1. kk \in 1 .. Len(s) /\ j <= kk /\ kk - 1 = (i - 1) + j - 1
    OBVIOUS
  <2>2. kk - 1 \in 0 .. Len(s) /\ j <= kk - 1 + 1
    OBVIOUS
  <2>. HIDE DEF kk
  <2>3. Stretch(s, j, kk) = Stretch(s, j, kk - 1) \o last
    BY <2>1, StretchLast
  <2>4. Stretch(s, j, kk - 1) \in Seq(Marks)
    BY <2>2, ListType
  <2>5. last \in Seq(Marks) /\ Len(last) <= most
    <3>1. last \in Seq(Marks) /\ Len(last) = HeaderLen + s[kk] /\ s[kk] \in Sizes
      BY <2>1, PacketType
    <3>. QED
      BY <3>1
  <2>6. Len(P(i)) = Len(P(i - 1)) + Len(last) /\ Len(P(i - 1)) \in Nat /\ Len(last) \in Nat
    <3>1. P(i) = Stretch(s, j, kk) /\ P(i - 1) = Stretch(s, j, kk - 1)
      BY <2>1 DEF kk
    <3>. HIDE DEF P, last
    <3>. QED
      BY <2>3, <2>4, <2>5, <3>1, ConcatProperties, LenProperties
  <2>7. Len(P(i - 1)) <= (i - 1) * most
    BY <1>3
  <2>8. (i - 1) * most + most = i * most /\ (i - 1) * most \in Nat /\ i * most \in Nat
    BY OneTimesMore
  <2>. HIDE DEF P, last, n
  <2>. DEFINE before == (i - 1) * most
              after == i * most
  <2>9. Len(P(i)) <= after
    <3>1. before + most = after /\ before \in Nat /\ after \in Nat /\ Len(P(i - 1)) <= before
      BY <2>7, <2>8
    <3>. HIDE DEF before, after
    <3>. QED
      BY <2>5, <2>6, <3>1
  <2>10. i \in 0 .. n
    BY <1>1
  <2>. QED
    BY <2>9, <2>10
<1>4. n \in S
  <2>. HIDE DEF S, P
  <2>1. 0 .. n \subseteq S
    BY <1>1, <1>2, <1>3, UpTo
  <2>. QED
    BY <1>1, <2>1
<1>. QED
  BY <1>1, <1>4

\* With room for all, no send is partial.
LEMMA RoomSuffices ==
  ASSUME SocketAssumption, RoomForAll, PacketInv, SendTurn
  PROVE  WriteFits
<1>. DEFINE n == Len(sent)
            h == Len(handed) + 1
            all == Stretch(sent, h, n - 1)
            pkt == packet_pack(n)
<1>1. PICK most \in Nat : /\ \A k \in Sizes : HeaderLen + k <= most
                         /\ MaxPackets * most <= Capacity
  BY DEF RoomForAll
<1>2. /\ n \in Nat \ {0} /\ h \in Nat \ {0} /\ h <= n /\ input_buf \o wire = all
      /\ n \in 1 .. Len(sent) /\ n - 1 \in 0 .. Len(sent) /\ h <= n - 1 + 1
  <2>1. len # Idle
    BY DEF SendTurn
  <2>2. /\ n \in Nat \ {0} /\ h \in Nat \ {0} /\ h <= Written + 1 /\ Written = n - 1
        /\ input_buf \o wire = Stretch(sent, h, Written)
    BY <2>1, InvFacts
  <2>3. h <= n /\ input_buf \o wire = all
    <3>. HIDE DEF h, n
    <3>. QED
      BY <2>2 DEF n
  <2>. HIDE DEF h
  <2>. QED
    BY <2>2, <2>3
<1>3. /\ sent \in Seq(Sizes) /\ n <= MaxPackets /\ MaxPackets \in Nat /\ Capacity \in Nat
      /\ input_buf \in Seq(Marks) /\ wire \in Seq(Marks)
  BY DEF PacketInv, SocketAssumption
<1>4. Len(all) <= (n - 1 - h + 1) * most
  <2>. HIDE DEF n, h
  <2>. QED
    BY <1>1, <1>2, <1>3, StretchLength
<1>5. Len(pkt) <= most /\ Len(pkt) \in Nat
  <2>1. pkt = Packet(sent, n)
    BY PacketsAre
  <2>. HIDE DEF n, pkt
  <2>2. /\ Len(pkt) = HeaderLen + sent[n] /\ sent[n] \in Sizes
        /\ HeaderLen + sent[n] \in Nat \ {0}
    BY <1>2, <1>3, <2>1, PacketType
  <2>. QED
    BY <1>1, <2>2
<1>6. Len(wire) <= Len(all) /\ Len(wire) \in Nat /\ Len(all) \in Nat
  <2>1. Len(input_buf \o wire) = Len(input_buf) + Len(wire)
    BY <1>3, ConcatProperties
  <2>2. Len(input_buf) \in Nat /\ Len(wire) \in Nat
    BY <1>3
  <2>. HIDE DEF all
  <2>. QED
    BY <1>2, <2>1, <2>2
<1>. DEFINE some == (n - 1 - h + 1) * most
            before == (n - 1) * most
            after == n * most
<1>7. /\ some <= before /\ some \in Nat /\ before \in Nat /\ after \in Nat
      /\ before + most = after /\ after <= Capacity
  <2>. HIDE DEF n, h
  <2>1. n - 1 - h + 1 \in Nat /\ n - 1 \in Nat /\ n - 1 - h + 1 <= n - 1
    BY <1>2
  <2>2. some <= before /\ some \in Nat /\ before \in Nat
    BY <2>1, TimesMore
  <2>3. before + most = after /\ after \in Nat
    BY <1>2, OneTimesMore
  <2>4. n * most <= MaxPackets * most /\ MaxPackets * most \in Nat
    BY <1>2, <1>3, TimesMore
  <2>. DEFINE bound == MaxPackets * most
  <2>5. after <= bound /\ bound <= Capacity /\ bound \in Nat
    BY <1>1, <2>4
  <2>6. after <= Capacity
    <3>. HIDE DEF bound, after
    <3>. QED
      BY <1>3, <2>3, <2>5
  <2>. QED
    BY <2>2, <2>3, <2>6
<1>8. Len(all) <= some
  BY <1>4
<1>. HIDE DEF some, before, after, all, pkt
<1>9. Len(wire) + Len(pkt) <= Capacity
  BY <1>3, <1>5, <1>6, <1>7, <1>8
<1>. QED
  BY <1>9 DEF WriteFits, pkt, n

-----------------------------------------------------------------------------
(* Results *)

\* rdt_client.lua:58: as long as the connection takes each packet at once, packets of
\* any sizes, cut anywhere, are handed out as they were written.
THEOREM IntactWhileWritesFit ==
  StreamSpec /\ [][SendTurn => WriteFits]_streamVars => []StreamIntact
<1>1. StreamInit => PacketInv
  BY SocketAssumption, InitStream
<1>2. PacketInv /\ [StreamNext]_streamVars /\ [SendTurn => WriteFits]_streamVars => PacketInv'
  BY SocketAssumption, StreamStep, StreamStutter
<1>3. PacketInv => StreamIntact
  BY SocketAssumption, InvImpliesIntact
<1>. QED
  BY <1>1, <1>2, <1>3, PTL DEF StreamSpec

\* So they are on a connection that has room for all of them.
THEOREM PacketsIntact ==
  ASSUME RoomForAll
  PROVE  StreamSpec => []StreamIntact
<1>1. StreamInit => PacketInv
  BY SocketAssumption, InitStream
<1>2. PacketInv /\ [StreamNext]_streamVars => PacketInv'
  BY SocketAssumption, RoomSuffices, StreamStep, StreamStutter
<1>3. PacketInv => StreamIntact
  BY SocketAssumption, InvImpliesIntact
<1>. QED
  BY <1>1, <1>2, <1>3, PTL DEF StreamSpec
=============================================================================
