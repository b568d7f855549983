-------------------------------- MODULE Mbuf --------------------------------
(***************************************************************************)
(* mbuf_t (mbuf.h, mbuf.c): a queue of bytes kept in a list of blocks.     *)
(* blk_deq is where reading goes on, blk_enq where writing does; both are  *)
(* places in the list here, and 0 stands for NULL.  A block's bytes start  *)
(* at head; what reading has passed is not given back.                     *)
(*                                                                         *)
(* rdt_session.c and lsocket.c write with MBUF_ALLOC (MBUF_ENQ,            *)
(* MBUF_ENQ_WITH_TYPE, mbuf_enq), pull the buffer up into one block to     *)
(* read it, and drain what they have read; they never drain more than      *)
(* data_size.  The k-th byte ever written is the number k.                 *)
(***************************************************************************)
EXTENDS Integers, Sequences, FiniteSetsExt, SequencesExt

CONSTANTS
    BlkSize,      \* mbuf_init: size of a block, MBUF_INIT_SIZE in rdt_session.c
    Lengths,      \* lengths of what is written
    ResetSizes,   \* arguments of mbuf_reset
    MaxHeld,      \* bound: bytes the user lets the buffer hold
    MaxFed        \* bound: bytes ever written

ASSUME MbufAssumption ==
    /\ BlkSize \in Nat \ {0}
    /\ Lengths \subseteq Nat \ {0}
    /\ ResetSizes \subseteq Nat
    /\ MaxHeld \in Nat
    /\ MaxFed \in Nat

VARIABLES
    mbuf,   \* the mbuf_t
    fed     \* bytes ever written

vars == << mbuf, fed >>

BLK_FACTOR == 4
MIN_BLK_SIZE == 4

-----------------------------------------------------------------------------
(* Blocks *)

Block == [size : Nat, head : Nat, data : Seq(Nat)]

\* blk_buf_init
Emptied(blk) == [blk EXCEPT !.head = 0, !.data = << >>]

MBUF_BLK_CAP(blk) == blk.size - blk.head - Len(blk.data)

RoundUp(n) == BLK_FACTOR * ((n + BLK_FACTOR - 1) \div BLK_FACTOR)

\* The bytes in all blocks, first to last, and the space of all.
Bytes(blks) == FlattenSeq([i \in DOMAIN blks |-> blks[i].data])
Space(blks) == SumFunction([i \in DOMAIN blks |-> blks[i].size])

Content(M) == Bytes(M.blks)

-----------------------------------------------------------------------------
(* The functions of mbuf.c and mbuf.h *)

mbuf_add_blk(M, want) ==
    LET size == Max({MIN_BLK_SIZE, RoundUp(Max({M.hint_size, want}))})
    IN  [M EXCEPT !.blks       = Append(@, [size |-> size, head |-> 0, data |-> << >>]),
                  !.blk_enq    = Len(M.blks) + 1,
                  !.alloc_size = @ + size]

mbuf_init(blk_size) ==
    LET none == [blks |-> << >>, blk_deq |-> 0, blk_enq |-> 0,
                 data_size |-> 0, hint_size |-> blk_size, alloc_size |-> 0]
    IN  [mbuf_add_blk(none, blk_size) EXCEPT !.blk_deq = 1]

\* MBUF_ADVANCE and the copy after it.
Store(M, i, data) ==
    [M EXCEPT !.blks[i].data = @ \o data, !.data_size = @ + Len(data)]

\* The first block from blk_enq on with room for all of data, or a new one.
MBUF_ALLOC(M, data) ==
    LET room == {i \in M.blk_enq .. Len(M.blks) :
                    MBUF_BLK_CAP(M.blks[i]) >= Len(data)}
        N    == IF room = {} THEN mbuf_add_blk(M, Len(data))
                             ELSE [M EXCEPT !.blk_enq = Min(room)]
    IN  Store(N, N.blk_enq, data)

\* the pointer into data not moved on
Bug_Rest(data, cap) == SubSeq(data, 1, Len(data) - cap)

\* What is left of data when the first cap bytes are stored.
Rest(data, cap) == SubSeq(data, cap + 1, Len(data))

\* Unlike MBUF_ALLOC, fills the current block before it adds one.
mbuf_enq_span(M, data) ==
    LET cap  == MBUF_BLK_CAP(M.blks[M.blk_enq])
        Full == Store(M, M.blk_enq, SubSeq(data, 1, cap))
        More == mbuf_add_blk(Full, Len(data) - cap)
    IN  IF cap < Len(data)
        THEN Store(More, More.blk_enq, Rest(data, cap))
        ELSE Store(M, M.blk_enq, data)

\* How many bytes the blocks from blk_deq to the i-th hold.
Through(M, i) ==
    SumFunctionOnSet([j \in DOMAIN M.blks |-> Len(M.blks[j].data)], M.blk_deq .. i)

\* all that is still asked for taken from each block
Bug_Passed(M, len, i) == Max({0, len - Through(M, i - 1)})

\* How many of the len bytes the i-th block gives.
Passed(M, len, i) ==
    Min({Len(M.blks[i].data), Max({0, len - Through(M, i - 1)})})

\* goes on to the next block as soon as this one is empty
Bug_NextToRead(M, len) ==
    LET left == {i \in M.blk_deq .. Len(M.blks) : Through(M, i) > len}
    IN  IF left = {} THEN 0 ELSE Min(left)

\* Reading stops in the block that gives the last byte, even if it is now
\* empty, and at NULL if there were too few.
NextToRead(M, len) ==
    LET enough == {i \in M.blk_deq .. Len(M.blks) : Through(M, i) >= len}
    IN  IF enough = {} THEN 0 ELSE Min(enough)

\* mbuf_deq(mbuf, NULL, len).
mbuf_drain(M, len) ==
    LET After(i) ==
          IF i < M.blk_deq THEN M.blks[i]
          ELSE LET k == Passed(M, len, i)
               IN  [M.blks[i] EXCEPT !.head = @ + k,
                                     !.data = SubSeq(@, k + 1, Len(@))]
    IN  [M EXCEPT !.blks      = [i \in DOMAIN @ |-> After(i)],
                  !.data_size = @ - SumFunctionOnSet([i \in DOMAIN M.blks |-> Passed(M, len, i)],
                                                     M.blk_deq .. Len(M.blks)),
                  !.blk_deq   = NextToRead(M, len)]

\* The one block mbuf_pullup copies everything into.
PulledUp(M) == [size |-> M.alloc_size, head |-> 0, data |-> Content(M)]

mbuf_pullup(M) ==
    IF Len(M.blks) = 1 THEN M
    ELSE [M EXCEPT !.blks = << PulledUp(M) >>, !.blk_deq = 1, !.blk_enq = 1]

mbuf_reset(M, reset_size) ==
    IF Len(M.blks) > 1 \/ reset_size > M.alloc_size
    THEN mbuf_init(Max({reset_size, M.alloc_size}))
    ELSE [M EXCEPT !.blks[1] = Emptied(@), !.data_size = 0]

-----------------------------------------------------------------------------
(* What the users of an mbuf do *)

Init == mbuf = mbuf_init(BlkSize) /\ fed = 0

\* The next len bytes.
New(len) == [i \in 1 .. len |-> fed + i]

Enqueue ==
    \E len \in Lengths :
        /\ mbuf.data_size + len <= MaxHeld
        /\ fed + len <= MaxFed
        /\ mbuf' \in {MBUF_ALLOC(mbuf, New(len)), mbuf_enq_span(mbuf, New(len))}
        /\ fed' = fed + len

Drain ==
    \E len \in 0 .. mbuf.data_size :
        /\ mbuf' = mbuf_drain(mbuf, len)
        /\ UNCHANGED fed

Pullup == mbuf' = mbuf_pullup(mbuf) /\ UNCHANGED fed

Reset ==
    \E size \in ResetSizes :
        /\ mbuf' = mbuf_reset(mbuf, size)
        /\ UNCHANGED fed

Next == Enqueue \/ Drain \/ Pullup \/ Reset

Spec == Init /\ [][Next]_vars

\* How pollout and pollin use a buffer: nothing is read but by a pullup and a
\* drain of all of it, and no one resets it.
PollNext ==
    \/ Enqueue
    \/ /\ mbuf' = mbuf_drain(mbuf_pullup(mbuf), mbuf.data_size)
       /\ mbuf.data_size > 0
       /\ UNCHANGED fed

PollSpec == Init /\ [][PollNext]_vars

-----------------------------------------------------------------------------
(* Properties *)

TypeOK ==
    /\ mbuf \in [blks : Seq(Block), blk_deq : Nat, blk_enq : Nat,
                 data_size : Nat, hint_size : Nat, alloc_size : Nat]
    /\ fed \in Nat

\* The assertions at the end of mbuf_reset and in MBUF_ALLOC, and what
\* mbuf_deq takes for granted when it reads through blk_deq without a test:
\* blk_deq is in the list, blk_enq is its last block, and in a list of one
\* block they are that block.
PlacesInList ==
    /\ mbuf.blk_deq \in DOMAIN mbuf.blks
    /\ mbuf.blk_enq = Len(mbuf.blks)

\* The list, its places and its counters agree: besides PlacesInList, no block is
\* written past its end, all that is left to read is found from blk_deq on,
\* data_size and alloc_size (the size of the block mbuf_pullup copies
\* everything into) are the true sums.
Consistent ==
    /\ PlacesInList
    /\ \A i \in DOMAIN mbuf.blks : MBUF_BLK_CAP(mbuf.blks[i]) >= 0
    /\ \A i \in 1 .. mbuf.blk_deq - 1 : mbuf.blks[i].data = << >>
    /\ mbuf.data_size = Len(Content(mbuf))
    /\ mbuf.alloc_size = Space(mbuf.blks)

\* Whatever blocks the bytes lie in, they come out in the order they went in.
Queue == INSTANCE ByteQueue WITH queue <- Content(mbuf), fed <- fed

ImplementsQueue == Queue!QueueSpec

-----------------------------------------------------------------------------
(* What the documentation says and the code does not do *)

\* rdt_session.h:139-142: what is pulled up and drained is freed.  The space of
\* a buffer that never holds more than MaxHeld bytes stays within a few times
\* what it holds.
DrainFrees == mbuf.alloc_size <= 4 * (RoundUp(BlkSize) + RoundUp(MaxHeld))
=============================================================================
