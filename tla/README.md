# TLA+ models of rdt_session

This directory models, checks and proves properties of rdt_session, a small C
library that keeps an application's byte stream whole over TCP connections that
break. It needs TLC and the TLA+ proof system (tlapm 1.4.5).

## The system

    application (Lua or C)                rdt_client.lua, rdt_server.lua
      | rdt_send, rdt_poll, rdt_disable, rdt_reconnect ...
    Lua binding                           lrdt_client.c, lrdt_server.c
      | session by id, on_ack callback
    session manager                       rdts_manager.c
      |
    session                               rdt_session.c
      | four byte buffers
    mbuf                                  mbuf.c, mbuf.h
    sockets                               lsocket.c (with its own mbuf per socket)

| component | state | operations | what makes it correct |
|---|---|---|---|
| session (`rdt_session.c`) | `enable`, `need_ack`, `rcv_raw_offset`, `remote_rcv_raw_offset`, `auto_ack_count`, buffers `raw_snd_buf` (sent, unacknowledged), `snd_buf` (encoded, not yet on the socket), `rcv_buf` (undecoded), `raw_rcv_buf` (decoded) | `rdts_create/init/reset/release`, `rdts_send`, `rdts_push_raw`, `rdts_send_ack`, `rdts_input` | `raw_snd_buf` always holds what the peer lacks; the peer gets the stream exactly once |
| manager (`rdts_manager.c`) | table of sessions by id, their memory | create, delete, find, disable, ack, reconnect; `session_on_ack` | a session is found by its own id only and has its memory to itself; a reconnect starts from the true offsets |
| Lua binding (`lrdt_*.c`) | none of its own | `rdt_create .. rdt_poll`, message framing (`lsend`, `pollin`) | errors on an unknown or disabled session; whole messages out |
| programs (`rdt_*.lua`) | connections, `enable`, `handshake_succ`, `fd2rdt` | first handshake, reconnect handshake, poll, the select loop | a session speaks on one connection; the handshake completes |
| `mbuf` | list of blocks, `blk_deq`, `blk_enq`, sizes | init, alloc/enqueue, dequeue, drain, pullup, reset | it is a FIFO of bytes |
| `lsocket` | one input `mbuf` and one descriptor per socket | `bind`, `connect`, `accept`, `close`, collection, `select`; `recv_packet`, `pack_msg`, `send` | each packet delivered once and whole; a descriptor belongs to one object |

Everything runs in one thread per program; concurrency is between the two
programs and in the order in which sockets become readable. What is hard is the
interplay of acks, lost connections, resends and callbacks over many steps.

The behaviours of this system that are hard to get right, each with its line in
`PROJECT.json` under `hazards`:

- what is left in `raw_snd_buf` after a long run of sends, acks, losses and
  resends, and where a resend starts;
- packets and callbacks of an old connection that meet a reconnect in progress
  (`snd_buf`, `rcv_buf`, `fd2rdt`, the end of the old connection);
- acks that repeat what is known; a reconnect that is itself interrupted;
- a full `raw_snd_buf`, with both sides waiting;
- input cut or grouped by the transport, in `rdts_input` and in `recv_packet`;
- numbers at the boundaries of their width in the packet format;
- a buffer drained to the end of a block; its space;
- two ids that share a place in the table of sessions;
- a message cut in the middle by a full buffer, an ack or a resend, after which
  every later length would be read at the wrong place;
- a descriptor that is given out again while a table, a collected object or the
  answer of `select` still has its number; a server that has none left;
- an allocation that fails halfway through the making of a session.

## Modules

| module | models | used by |
|---|---|---|
| `RdtSession` | the session functions of `rdt_session.c` and `rdts_manager.c` as operators from a session to a session; no variables | `RdtReconnect`, `RdtPrograms` |
| `RdtStream` | abstract: what the README promises of a pair of sessions | refined by `RdtReconnect` |
| `RdtReconnect` | two sessions, their applications, connections that break, the reconnect handshake | `MCRdtReconnect`, `RdtMessages`, proofs |
| `RdtMessages` | the messages of `rdt_send` and `rdt_poll` over those two sessions | `MCRdtMessages`, proofs |
| `RdtInput` | the packet format byte by byte, and the loop of `rdts_input` turn by turn | `MCRdtInput`, proofs |
| `RdtPrograms` | `rdt_client.lua` and `rdt_server.lua` with their select loops and several connections at once | `MCRdtPrograms`, proofs |
| `SessionManager` | the table of sessions by id | `SessionMemory`, proofs |
| `SessionMemory` | the memory of the sessions in that table | `MCSessionMemory`, proofs |
| `ByteQueue` | abstract: a FIFO of bytes | refined by `Mbuf` |
| `Mbuf` | `mbuf.c` and the macros of `mbuf.h`, as a list of blocks | `MCMbuf`, proofs |
| `LSocket` | `send`, `pack_msg` and `recv_packet` of `lsocket.c`, with the programs' loop around `send` | `MCLSocket`, proofs |
| `SocketTable` | the sockets of `lsocket.c` and the tables of `rdt_server.lua`, for several clients | `MCSocketTable`, proofs |
| `RdtReconnectProofs` (`RdtReconnect` and `RdtMessages`), `RdtInputProofs`, `RdtProgramsProofs`, `SessionMemoryProofs` (the table and its memory), `SocketProofs` (`SocketTable` and `LSocket`), `MbufProofs` | theorems | |
| `RdtSessionProofs`, `FoldLemmas` | lemmas: what each session function returns; sequences, and what folds over them compute | the proofs |

The `MC` modules only name a specification for TLC; the values of the constants
are in the `.cfg` files. A definition whose name begins with `Bug_` is a wrong
version of the one after it. No specification uses it: it shows that a property
can be broken.

### RdtSession

A session is a record with the fields of `rdt_session_s` that steer it. An
application's bytes are numbered in the order it sends them, so `raw_snd_buf`,
which is extended at the back and drained at the front only, is its length
`raw_snd_size`: its content is the last so many bytes of the stream. `snd_buf`
is a sequence of packets; a data packet has the first byte and the number of
bytes it carries, an ack packet an offset. `rcv_buf` is not here (see
`RdtInput`). `sent` and `received` are the application's ends of the stream.
`rdts_send`, `rdts_push_raw`, `rdts_send_ack`, `rdts_on_rcv_ack` with its
callback `session_on_ack`, `rdts_on_rcv_data`, `disable_session`,
`reconnect_session` and the `pollout` of `rdt_poll` are one operator each, with
their early returns.

### RdtReconnect

`sess[e]` is the session of end `e`. `wire[e]` is what `e` has written to the
current connection and the peer has not read, `linked[e]` says whether `e`'s
socket is that connection, `handshake_succ[e]` whether `e`'s application may
send (the variable of `rdt_client.lua`). Actions: `Send`, `Ack`, `Poll` (the
application's calls), `InputAck` and `InputData` (`rdts_input` on one packet,
callback and automatic ack included), `LoseConnection` at any moment, with
everything under way, and the handshake: `StartReconnect` (`test_reconn`),
`ServerReconnects` and `ClientReconnects`, each a whole handler up to the poll
that writes the ack.

`ServerWaits` is what an application may or may not do: send between
`rdt_reconnect` and `OnSessionReconnected`. The client of `rdt_client.lua` does
not, the server of `rdt_server.lua` does.

Abstracted: only one connection exists at a time, so nothing of a superseded
connection is ever read. That is what an application must arrange for the
session to do its work; `RdtPrograms` has all connections and shows what happens
when it does not.

### RdtMessages

Extends `RdtReconnect`: the sessions, the losses and the handshake are the same
actions. `accepted[e]` has the messages that `e`'s `rdts_send` has taken, each
with its place in the stream and its length; `taken[e]` counts what `pollin` has
drained from `raw_rcv_buf`, so `raw_rcv_buf` is `received` without its first
`taken[e]` bytes; `handed[e]` is what `rdt_poll` has returned. `lsend` gives
header and message to `rdts_send` together and does not look at the -1 of a
full buffer: such a message is gone, and `accepted` does not have it. `pollin`
reads a header at the front, takes the message if it is there as a whole, and
is only reached when there is nothing to send. A header is known by its own
bytes. What `pollin` would make of other bytes is left open, and
`NothingHeldBack` shows that it is never given any.

### RdtInput

One direction. The peer encodes packets into bytes (`init_packet_header`,
`mbuf_push_number`); the transport hands them to `rdts_input`, grouped and cut
anywhere. `unit` remembers whether the last delivery ended inside a packet, and
whether a connection did. The loop of `rdts_input` is one action per
branch, so that a call can fail to return. `rcv_buf` outlives a reconnect, as in
`reconnect_session`. `Base` is the number of values of a byte of a number, 256
in the code; with 4 the widths 1, 2, 4 and 8 change at 3, 15 and 255, and TLC
reaches every one of them.

### RdtPrograms

The two Lua programs for one session id. `client` and `server` are their global
variables; `up[c]` and `down[c]` the frames under way on connection `c`;
`failed[e]` is the Lua error that has ended program `e`, if one has: a call into the
engine that misses its session, an assert, a write that raises, arithmetic on `false`.
Each action is one turn of a main loop: the read or the timeout, the handler,
the poll, the reply and the poll after it. `server.overlap`, a history, remembers
whether the server ever accepted a connection before it had seen the last one end.

What the socket can do to a program is possible at any time. A read may find part
of a packet: the server goes on (`ServerReadsPart`), the client's assert at
rdt_client.lua:183 fails (`ClientReadsPart`; its assert at 182 holds, since `so` is the one
socket it selects on). A write to a connection the client has left may raise, the
session's output (`ServerPolls`) as well as the answers to commands (`AnswerFails`). The first
timeout may come before the first handshake is done (`ClientTimesOutEarly`), and every timeout
while something is under way. A client whose server has ended learns it from
its socket (`ClientLosesServer`). Left out: a connection that breaks although
neither end has closed it, which ends the client in the same way (its read gives
nil or its write raises); what the server does after its client has ended; and what a
step has done before an error in it.

### SessionManager

`ctx` is the table, `heap` the sessions that have not been released, `held` the
ids created and not deleted (a history). The guards are those of the Lua
functions, which raise an error and change nothing where the model has no step.
`create_session` first deletes a session of the same id (rdts_manager.c:80-83); that is
left out because it is never reached: the two `lrdt_create`, its callers, have raised an
error by then for an id that is in use (`MayCreate`).
`create_fails` is `rdts_create` returning `NULL`, which `lrdt_create` ignores.

### SessionMemory

Extends `SessionManager` with what `malloc` gave: `at[o]` is the place of a
session's struct, `mem[a]` the four pointers last written at `a`, which stay there
when the struct is freed and are found again by the next `rdts_create`; `used` is
what has been allocated and `broken` records that something was freed that was
not. `Create` and `Delete` are conjoined with the actions on the table;
`CreateNothing` and `CreateInPart` are an `rdts_create` that fails at the struct or
at one of the buffers and calls `rdts_release` on what there is. `Fails` says
which of the five calls of `malloc` may fail.

### Mbuf

`blks` is the list, `blk_deq` and `blk_enq` are places in it, a block is its size,
its head and the bytes between head and tail. Every function of `mbuf.c` that
changes an mbuf is an operator, with the choices the macros make. The callers
never drain more than there is, and that is the guard of `Drain`.

### LSocket

One direction of one connection. The writer is the loop of `sendmsgbyso` around
`so:send`, one turn at a time, with the result that lsocket really returns; the
reader is `recv_packet`. The network may cut the stream anywhere, holds at most
`Capacity` bytes and `recv` takes at most `READER_BUFSIZ` at once.

### SocketTable

Several processes with descriptors of their own: any number of clients and the
server. `desc[p]` is the kernel's table of `p`, `sockfd[p][s]` the field of the
Lua object for socket `s`; a new socket gets the lowest free number. `close`
leaves -1 in the object; `gc` closes what a collected object still has, and may
take any object that neither the program's variables nor the answer of `select`
refers to. `connect` queues a connection that `accept` takes, if a descriptor is
left. The clients connect, log in, reconnect and end; the server's loop is
`rdt_server.lua:170-215` with its tables `readsocket`, `client`, `fds` and
`fd2rdt`, one turn for each socket that `select` returned. Of what is said on a
connection there is only the first command and the end.

## Runs

Every run ends with the whole state space of its bounds explored, or with the
violation. Where the cfg turns deadlock checking off, the bounds on what is sent
(or a finished program) stop the system.

### Two sessions (`RdtReconnect`)

`reconnect_safety`: both applications wait. Nothing is lost or duplicated
(`ExactlyOnce`), `raw_snd_buf` always covers what the peer lacks
(`RetransmitBufferCovers`), no ack is ever refused (`AcksInRange`), what
`on_ack` queues is exactly the missing part (`ResendIsExact`), at rest the
offsets agree as `test.c` asserts (`QuietOffsetsAgree`), and the pair refines
`RdtStream` (`ImplementsStream`). While the connection lasts everything sent
arrives (`DeliveredUnlessLost`), a reconnect in which the peer has something new
to acknowledge completes (`ReconnectCompletesOnNews`), and a sender stopped by
`max_raw_snd_buf_size` is let go on by the peer's automatic acks
(`SenderIsUnblocked`). README.md:79 says otherwise of a session that exceeds that size;
the code and rdt_session.h:104 are what the model follows; `reconnect_full.cfg` (below)
shows the difference.
`reconnect_waiting`: only the client waits; its own stream is still intact
(`WaitingIsEnough`), and the inductive invariant of the proofs holds (`IInv`).

Bounds: three bytes from each side in messages of one or two, a buffer of four, an
ack due every two bytes, so that a message can be cut by an automatic ack, sent
twice or meet an earlier one in the resend; any number of losses and
reconnects, at every point. `MaxQueued = 1` stops `rdt_ack` from queueing acks
without end; the acks that data and reconnects cause are not bounded by it. The
proofs cover all other sizes.

Violation: `reconnect_repeated_ack` (a reconnect in which nothing new is
acknowledged never completes).

### Messages (`RdtMessages`)

`messages`: the messages handed out are the peer's, whole, once and in order, if
the peer's application waits (`MessagesWhole`); when `pollin` finds none,
`raw_rcv_buf` is empty (`NothingHeldBack`); what has been accepted is handed out unless the connection is
lost (`HandedUnlessLost`). Messages of one and two bytes behind a header of one,
eight bytes in all; a buffer that holds two of the shorter but not two of the longer, an
ack due every three bytes, so that messages are refused, acknowledged on their own
or two at a time, and resent together. One end sends: the other direction has the
same code and the sessions under it are those of `reconnect_safety`. Both ends send in
`messages_both.cfg`, and the proofs cover both.

### Input (`RdtInput`)

`input_packets`: numbers on both sides of each change of width, two packets
on a connection, cut and grouped anywhere, over reconnects. The handlers get exactly
what was encoded; a call that is given whole packets returns and leaves at most the
stray byte of an ack of 0. Two packets are enough for each to meet what the
other, cut or whole, left behind. `MaxBuf` bounds `rcv_buf` in the endless loop only.
Violation: `input_split` (given the first part of a packet, the call
does not return).

### The programs (`RdtPrograms`)

`programs`: the first handshake and two reconnects, eight messages a side,
connections that overlap in every way or not at all, packets read in pieces, writes that
fail, a first timeout at any time. What ends a program is known
(`ErrorsKnown`): the client a packet in pieces, the end of the server or a countdown before
the first handshake is done; the server a write to a connection its client has left. No
call ever misses its session, `rdt_create` is never called for an id in use,
and the server's asserts (rdt_server.lua:139,184) hold. As long as connections do not
overlap, the client's stream is whole, and complete at rest; a reconnected session is
served; no frame is taken for a command. `ReconnAfter` is two timeouts instead of five: one in which messages are
sent and one in which the reconnect starts.
Violation: `programs_late_frame` (with overlap, a frame of the old connection is
delivered twice).

### The table and its memory (`SessionManager`, `SessionMemory`)

`manager_apart`: three ids with a place each, five creations that may succeed or
fail; so an id is deleted and created again while the others come and go, and a
struct and buffers are given out again with what their last owner left in them. No
released session is in the table, none that is held is lost, and each session has
its struct and its buffers to itself (`MemoryOwned`). There is memory for three
sessions, and the first or the last `malloc` of `rdts_create` may fail. What
happens when another one fails, or ids share a place, is below.

### Sockets (`SocketTable`)

`sockets_owned`: two clients, three descriptors a process, five connections. Two
connections leave the server no descriptor, so numbers are given out again in
every run of some length, before and after collections, while `select`'s answer
still names the old socket. A descriptor has one owner (`OneOwner`), the server's
tables agree with each other and with the kernel's (`TablesAgree`), the
connection in use is never closed by anything else (`CurrentIsOpen`,
`ServerEndStays`), and a waiting connection is accepted in the end unless
every descriptor is in use (`PendingIsAccepted`).

### Buffer and sockets

`mbuf_queue`: blocks of four bytes, writes of one, three and five bytes (less
than a block, just under one, more than one), two sizes of reset, at most nine
bytes held and eighteen written: lists of several blocks are built,
drained across their boundaries and pulled up.

`socket_packets`: four packets of two sizes, cut anywhere by the network; they
come out whole, in order and once, provided the connection has room for each
`send` (`Capacity = 20` holds all there is).

### Further configurations

These are not runs of the project. Each shows what an assumption of a run is
needed for, or refutes a property stated under "What the documentation says and
the code does not do"; TLC answers each with a short counterexample. The last three
hold: they check what the proofs rest on, or a larger instance.

| configuration | property | what TLC shows |
|---|---|---|
| `reconnect_ungated.cfg` | `ExactlyOnce` | a server that does not wait for `OnSessionReconnected`, as that of `rdt_server.lua`, loses or repeats bytes (rdt_server.lua:217) |
| `reconnect_full.cfg` | `FullIsInvalid` | a session that has reached `max_raw_snd_buf_size` refuses the message, stays enabled and goes on after an ack, although README.md:79 calls it invalid, "需要重新建立" (rdt_session.c:310) |
| `reconnect_retry.cfg` | `ClientCanReconnect` | a reconnect cut off before `RECONN_HANDSHAKE_2` leaves the session disabled, and the `rdt_disable` that starts the next one raises an error (lrdt_client.c:38) |
| `input_stale.cfg` | `HandledIsSentAnyway` | bytes of a torn packet stay in `rcv_buf` over a reconnect and are decoded with the next packet (rdts_manager.c:139) |
| `input_logged.cfg` | `HandledIsSent` | with `RDTS_LOG_INPUT` on, `rdts_input` gives up on a number cut by the transport without having kept it, and decodes the rest as another packet (rdt_session.c:577) |
| `programs_late_close.cfg` | `ReconnectedIsServedAnyway` | the end of the old connection, seen after the reconnect, disables the session (rdt_server.lua:104) |
| `messages_refused.cfg` | `NothingRefused` | with a full `raw_snd_buf` a message is dropped and the application is not told (lrdt_client.c:126) |
| `manager_nomem.cfg` | `MemoryOwned` | when one of the first three buffers cannot be allocated, `rdts_release` frees pointers that were never set (rdt_session.c:151) |
| `manager_collision.cfg` | `HeldIsFound` | ids 3 and 7 share a place of four; the second takes the first out of the table (rdts_manager.c:86) |
| `mbuf_memory.cfg` | `DrainFrees` | a buffer polled empty after every write grows for ever (mbuf.c:94, 164) |
| `socket_lag.cfg` | `AllHandedOut` | of two packets received together the second waits for later traffic (lsocket.c:842) |
| `socket_full.cfg` | `StreamIntact` | after a partial write the loop goes on at the wrong byte (rdt_client.lua:58) |
| `socket_assert.cfg` | `AssertHolds` | a packet in two parts makes `recv_packet` return false, on which the client asserts (rdt_client.lua:183) |
| `reconnect_acks.cfg` | `AckInv` | holds: the second inductive invariant of `RdtReconnect`, on a larger instance |
| `messages_both.cfg` | `MessageInv` | holds, with the properties of `messages`: both ends send |
| `messages_waiting.cfg` | `MessageInv` | holds: both ends send and only the client waits; of the client's messages none is torn |

## Fairness

`RdtReconnect!Fairness`: both event loops go on reading a connection that has
something to read, and poll after it; the handlers of the handshake are reads
too. Weak fairness is enough, since a packet stays readable until it is read or the
connection is lost. Nothing makes an application send, a connection break or
a client give up on one. The assumption that every packet is read is the session
layer's, made for its transport. TLC shows that the sockets of the
programs in this repository do not give it when two packets arrive
together (`socket_lag.cfg`).

`RdtMessages!MessageFairness`: the same, and the applications' loop around
`rdt_poll`. `pollin` is reached only when there is nothing to send, and acks come
and go in between, so it is enabled again and again rather than always: strong
fairness. The loop justifies it, since each read is followed by polls until
nothing is returned (rdt_client.lua:107, rdt_server.lua:173).

`SocketTable!FairSpec`: the server's loop turns as long as `select` returns
something, and each turn makes tables, so Lua's collector goes on. Nothing makes a
client do anything.

`RdtInput!FairSpec`: the loop of a call runs on. It is a plain loop in C.
`LSocket!FairStreamSpec`: the writer's loop runs on and a readable socket is read, as
select reports it; a buffered packet does not make a socket readable.

## Proofs

`tlapm` checks every theorem for all values of the constants that satisfy the
named assumptions (`SessionAssumption`, `ReconnectAssumption`,
`MessagesAssumption`, `ProgramsAssumption`, `ManagerAssumption`, `MemoryAssumption`,
`SocketTableAssumption`, `SocketAssumption`, `MbufAssumption`, `InputAssumption`: limits and sizes are natural numbers,
messages, headers and ids are not zero, there is a connection at all, the kinds of
names are apart, an offset is a `uint64_t` and a length a `uint32_t`).

`RdtReconnectProofs`:

- `Invariance`, `TypeCorrect`: `IInv` is inductive, and states are well typed. In
  particular `raw_snd_size` never becomes negative.
- `WaitingSuffices`: an application that waits has its stream delivered intact
  and its retransmission buffer complete, whatever its peer does.
- `ExactlyOnceIfBothWait`, `BufferCoversIfBothWait`, `ResendExactIfBothWait`,
  `StreamImplementedIfBothWait`: with `ServerWaits`, the properties of those
  names and the refinement of `RdtStream`.

`ExactlyOnce` alone is not inductive: a data packet under way that begins at the
wrong byte breaks it one step later. `IInv` says what is under way. While an
application may send, the data packets on the connection and in `snd_buf` form a
chain from the byte the peer is at to the last byte sent (`OpenInv`, `Chain`).
While it waits, nothing is under way, `snd_buf` has no data, and every ack that
could end the waiting gives the peer's offset exactly (`WaitInv`); this is what
makes the resend start at the right byte, and it is where the emptying of
`snd_buf` in `reconnect_session` is needed. Acks are never more than the truth
(`AcksTrue`), which keeps `Covers`. `HandshakeShape` ties the two commands to the
phases. The proof has a lemma for each action; the lemmas of `RdtSessionProofs`
state what each session function returns, and lemmas about chains carry the steps that
lengthen or shorten one.

`RdtReconnectProofs` too, with `ServerWaits`:

- `AcksNeverRefused` (`AcksInRange`) and `OffsetsAgreeAtRest` (`QuietOffsetsAgree`).

`IInv` bounds acks from above only. `AckInv` adds the rest: the acks under way rise
from what their reader knows (`Rising`), and everything received but what
`auto_ack_count` still counts is known or under way (`OpenTells`). What is delicate
is `on_ack`, which empties `snd_buf`, acks included (rdt_session.c:344).
`WaitTells` says why nothing is missed: an end that still waits for an ack with news
has received nothing since `reconnect_session`, because the peer's own ack comes
before its data (`AckFirst`, `HandshakeAck`), and the ack of `reconnect_session` is
on the connection already.

`RdtReconnectProofs`, of `RdtMessages`:

- `MessageTypeCorrect`, `MessagesOfWaitingWhole` (`MessagesWhole`),
  `NothingOfWaitingHeldBack` (`NothingHeldBack`): as `WaitingSuffices`, about the
  messages of an application that waits, whatever its peer does. This covers the
  programs here, of which only the client waits.

Every step of `RdtMessages` is one of `RdtReconnect` or leaves the sessions alone
(`MessagesImplementSessions`), so what is proved of the sessions holds here.
`MessageInv` says that the accepted messages fill the stream without a gap
(`Framed`), and that every offset of a waiting application's stream, in the two
sessions, in their acks and at the ends of their data packets, is the end of a
message (`AlignedTo`): the sessions make
no offset of their own, they only pass on those that `rdts_send` gave them, and an
automatic ack is due at the end of a packet. So a resend starts and the received
stream ends between messages. One lemma for each call shows that, for any set of offsets.

`RdtProgramsProofs`, for any number of connections and messages:

- `ProgramTypes` (`TypeOK`), whatever the connections do.
- `OnlyKnownErrors` (`ErrorsKnown`), without hypotheses: what the sockets do, and a
  countdown before the first handshake is done, is all that ends a program.
- `ReconnectedClientIsServed`, `FramesAreNotCommands`, `ClientStreamIsWhole`,
  `RestedStreamIsComplete`: the properties `ReconnectedIsServed`,
  `NoFrameIsACommand`, `ClientStreamIntact` and `RestIsComplete`, with frames of the
  last connection still under way when the next is made.

Four invariants. `ProgramInv` has what holds however
connections overlap: which commands travel on a connection, that a program has the
session it looks for, that only the client's last connection carries answers and a
command is the first of them. `FirstInv`, which rests on `ProgramInv` and `OrderlyInv`, says
of the first connection that nothing overlaps it, and that a command on it is read before
the server has its session; so `HANDSHAKE_2` finds the fd that `LOGIN` has put into
`fd2rdt`, and `rdt_create` an id that is free, which `OnlyKnownErrors` needs. `OrderlyInv` and
`StreamsInv` hold until connections overlap (`overlap`). `OrderlyInv` names the phases of a
connection (`Arriving`, `Asked`, `Told`, `Confirmed`, `Resumed`, `Both`): a frame
under way on an old connection can be delivered after the client has made the
next, and the phase says that the server still serves it. `StreamsInv` says
where the client's stream is: the server has it up to its offset; once the handshake
is done, the frames under way take it from there to the last byte sent; before
that nothing of the stream is on the connection, and what the client is told is the
server's offset exactly; and what the server may still read of the last connection
takes it to the end too. TLC checked all four as
invariants of this model.

`SessionMemoryProofs`, of the table (`SessionManager`):

- `TableSafe`: the table never holds a released session, and each lies where
  `find_by_id` looks, for all ids, also ids that share a place.
- `NothingLost`: if no two ids share a place, none that was created and not
  deleted is lost. The hypothesis is necessary: `manager_collision.cfg`.

`SessionMemoryProofs`, of the memory:

- `MemoryTypeCorrect` (`MemoryTypeOK`), whatever `malloc` fails.
- `MemoryIsOwned`: if no `malloc` fails but the first and the last of `rdts_create`,
  each session has its memory to itself, all that is allocated belongs to a session,
  and nothing is freed twice. The hypothesis is necessary: `manager_nomem.cfg`.
- `TableSafeWithMemory`, `NothingLostWithMemory`: the results on the table, failing
  allocations included, since each step of `SessionMemory` is one of the table.

`SocketProofs`, of `SocketTable`, for any number of clients, descriptors and connections:

- `SocketTypeCorrect` (`TypeOK`).
- `DescriptorsOwned`, `TablesNeverStale`, `ConnectionKept`, `ServerOutlasts`: the
  properties `OneOwner`, `TablesAgree`, `CurrentIsOpen` and `ServerEndStays`.

Their invariant adds where objects come from (`Made`: a pending connection has no
object at the server yet), that the loop only has sockets it can read and that no
collection takes (`LoopInv`), and that the server forgets a connection only when
its client has closed it (`ClosedInv`); so a number that is free again is in no
table.

`SocketProofs`, of `LSocket`, for any sizes and any number of packets:

- `IntactWhileWritesFit`: `StreamIntact` holds as long as each `send` takes its
  whole packet (`WriteFits`, a condition on steps, so that it says something of a
  connection whose reader keeps up, however much is sent).
- `PacketsIntact`: `StreamIntact` holds on a connection with room for all that is
  sent (`RoomForAll`), as in `socket_packets`. The hypothesis is necessary:
  `socket_full.cfg`.

The invariant (`PacketInv`) says that no `send` is under way in part, and that what is
buffered and under way is exactly the packets from the first not handed out to the
last written; `StreamIntact` allows a packet written in part, after
which the loop would go on at the wrong byte.

`MbufProofs`, for any sizes of blocks, writes and resets:

- `MbufTypeCorrect`, `MbufConsistent` (`Consistent`), and `MbufIsAQueue`
  (`ImplementsQueue`): every step of the list is one of `ByteQueue` or changes no byte.

The counters are sums over all blocks and the content is all blocks one after the
other, so the invariant `Good` speaks of both: the counters agree with the blocks, no
block has more than its space (`Sound`), the block written is the last, and
nothing is left before the block read from. The last is what makes `Content` the
unread bytes, and what a drain that leaves a block behind would break.
`Sound` stands alone since `mbuf_add_blk` is called on a buffer that has no block to
read from yet. A drain is followed block by block: what it has passed
and what it has taken of the block it is at are together the first bytes of the
content. `FoldLemmas` proves what the folds of the community modules compute, by
induction on sets of numbers (a set that is not empty has a least element),
the only induction the provers here can carry.

`RdtInputProofs`, for every base, offset, length and number of packets:

- `InputTypeCorrect` (`TypeOK`).
- `PacketsHandledInOrder` (`HandledIsSent`) and `DeliveredIsHandled` (`NothingLeft`),
  with `RDTS_LOG_INPUT` off. The hypothesis is necessary: with it on, a header cut
  inside a number makes `rdts_input` return -1 (rdt_session.c:577), past `mbuf_drain`
  and without having kept the input: `input_logged.cfg`.

First the format. A number written in the width its size code declares reads back as
itself (`ReadBack`), so `parse_header` on a packet with anything after it gives the
packet (`ParseAck`, `ParseData`), and on the beginning of one gives no packet at all
(`FirstPacket`). The one exception is an ack of 0, for which the header declares no
number and `mbuf_push_number` writes a byte: the packet is two zero bytes, each
of which parses as a packet of length 1 without meaning.

`InputInv` then accounts for every byte: the packets sent are those handled and those
to come, and what waits in `rcv_buf` or in the call, with what is under way, is
exactly the bytes of those to come, after at most one stray zero (`Accounted`). It does
not say where a delivery was cut, which is why any cut will do. `Buffered` is
about `rcv_buf` itself: between calls it has one byte at most; in a call the input is
what is left of it after `drain_len`, or it is empty, or the call is one that never
ends. `UnderWay` says which packets are still on the wire, so that between calls
whole packets delivered leave nothing to come (`RestIsUnderWay`). None of this holds
once a connection has ended inside a packet (`input_stale.cfg`), so the invariant,
like `HandledIsSent`, stops there.

Only model-checked: liveness, which the provers here cannot treat under fairness.

## Disagreements with the documentation

`findings` in `PROJECT.json` has those shown by a run, each with the line that
promises something else: a reconnect without news never calls back; `rdts_input`
hangs on part of a packet; a frame of a superseded connection is delivered again.
The table of further configurations has the others: README.md:79 calls a session that
exceeds `max_raw_snd_buf_size` invalid, while `rdts_send` refuses the message and goes on
(`reconnect_full.cfg`; the passing `SenderIsUnblocked` is about the code's behaviour, not
README.md:79's); the client's assert on part of a packet; the server that sends too
early, the refused message nobody hears of, the allocation that fails halfway and
the rest.

## Not modelled

- `rdts_reset`, which nothing calls, and the 32-bit width of sizes: offsets and
  sizes are numbers without bound, and no program here passes a message whose
  length comes near 2^32.
- What is said on several connections to one server at once: `SocketTable` has all
  the clients, sockets and tables but only the first command, `RdtPrograms` has
  every frame of one client.
- The rest of `lsocket.c` (datagrams, multicast, `resolve`, `info`, `status`,
  addresses, options): wrappers of system calls, which the programs here do not use.
- `test.c` runs the C interface once, in one order; its last assertion is
  `QuietOffsetsAgree`. Logging, printing, message texts, the Makefile.
- `mbuf_deq` with a destination and the `INBUF` macros, which nothing uses.

## Plan

Done, in this order: the protocol with its refinement and proofs
(`RdtSession`, `RdtStream`, `RdtReconnect`), `RdtInput`, `Mbuf` and `ByteQueue`,
`RdtPrograms`, `LSocket`, `SessionManager` and its proofs, `RdtMessages`,
`SocketTable` and its proofs, `SessionMemory` and its proofs, the proofs about acks
and about messages, those about `RdtPrograms`, `Mbuf`, `LSocket` and `RdtInput`. What
would come next:

1. Several sessions on one server: `SocketTable` composed with the sessions of
   `RdtReconnect`, two clients with a byte each.
2. Sizes modulo 2^w in `rdts_send` and in the offsets of acks.
