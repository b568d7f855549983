----------------------------- MODULE MbufProofs -----------------------------
(***************************************************************************)
(* An mbuf is a queue of bytes, whatever the sizes of its blocks and of    *)
(* what is written, drained, pulled up and reset: the counters and places  *)
(* of the list stay true, and it implements ByteQueue.                     *)
(***************************************************************************)
EXTENDS Mbuf, FoldLemmas

\* mbuf_t.
Mbufs == [blks : Seq(Block), blk_deq : Nat, blk_enq : Nat,
          data_size : Nat, hint_size : Nat, alloc_size : Nat]

\* The blocks and the counters, whatever the places: what mbuf_add_blk, which
\* mbuf_init calls before there is a place to read, needs and keeps.
Sound(M) ==
    /\ M \in Mbufs
    /\ \A i \in 1 .. Len(M.blks) : MBUF_BLK_CAP(M.blks[i]) >= 0
    /\ M.data_size = Len(Content(M))
    /\ M.alloc_size = Space(M.blks)

\* The inductive invariant, of any mbuf.
Good(M) ==
    /\ Sound(M)
    /\ M.blk_deq \in 1 .. Len(M.blks)
    /\ M.blk_enq = Len(M.blks)
    /\ \A i \in 1 .. M.blk_deq - 1 : M.blks[i].data = << >>

-----------------------------------------------------------------------------
(* Lists of blocks *)

\* The bytes of each block, and its size.
Datas(blks) == [i \in DOMAIN blks |-> blks[i].data]
Sizes(blks) == [i \in DOMAIN blks |-> blks[i].size]

\* The types of a list's parts.
LEMMA ListTypes ==
  ASSUME NEW blks \in Seq(Block)
  PROVE  /\ Len(blks) \in Nat /\ DOMAIN blks = 1 .. Len(blks)
         /\ \A i \in 1 .. Len(blks) : /\ blks[i] \in Block /\ blks[i].data \in Seq(Nat)
                                      /\ blks[i].size \in Nat /\ blks[i].head \in Nat
         /\ Datas(blks) \in Seq(Seq(Nat)) /\ Len(Datas(blks)) = Len(blks)
         /\ Sizes(blks) \in [1 .. Len(blks) -> Int]
         /\ Bytes(blks) \in Seq(Nat) /\ Len(Bytes(blks)) \in Nat
<1>1. Len(blks) \in Nat /\ DOMAIN blks = 1 .. Len(blks)
  OBVIOUS
<1>2. \A i \in 1 .. Len(blks) : /\ blks[i] \in Block /\ blks[i].data \in Seq(Nat)
                                /\ blks[i].size \in Nat /\ blks[i].head \in Nat
  <2>1. ASSUME NEW i \in 1 .. Len(blks)
        PROVE  /\ blks[i] \in Block /\ blks[i].data \in Seq(Nat)
               /\ blks[i].size \in Nat /\ blks[i].head \in Nat
    <3>1. blks[i] \in Block
      BY ElementOfSeq
    <3>. QED
      BY <3>1 DEF Block
  <2>. QED
    BY <2>1
<1>3. Datas(blks) \in Seq(Seq(Nat)) /\ Len(Datas(blks)) = Len(blks)
  BY <1>1, <1>2 DEF Datas
<1>4. Sizes(blks) \in [1 .. Len(blks) -> Int]
  BY <1>1, <1>2 DEF Sizes
<1>5. Bytes(blks) \in Seq(Nat) /\ Len(Bytes(blks)) \in Nat
  BY <1>3, FlattenType DEF Bytes, Datas
<1>. QED
  BY <1>1, <1>2, <1>3, <1>4, <1>5

\* A block at the end adds its bytes at the end.
LEMMA BytesOfAppend ==
  ASSUME NEW blks \in Seq(Block), NEW blk \in Block
  PROVE  Bytes(Append(blks, blk)) = Bytes(blks) \o blk.data
<1>1. Datas(Append(blks, blk)) = Append(Datas(blks), blk.data)
  BY DEF Datas, Block
<1>2. Datas(blks) \in Seq(Seq(Nat)) /\ blk.data \in Seq(Nat)
  BY ListTypes DEF Block
<1>. QED
  BY <1>1, <1>2, FlattenAppend DEF Bytes, Datas

\* No block, no bytes.
LEMMA BytesOfNone == Bytes(<< >>) = << >>
<1>1. [i \in DOMAIN << >> |-> << >>[i].data] = << >>
  OBVIOUS
<1>. QED
  BY <1>1, FlattenEmpty DEF Bytes

\* The bytes of one block are its own.
LEMMA BytesOfOne ==
  ASSUME NEW blk \in Block
  PROVE  Bytes(<< blk >>) = blk.data
<1>1. << >> \in Seq(Block) /\ Append(<< >>, blk) = << blk >> /\ blk.data \in Seq(Nat)
  BY DEF Block
<1>2. Bytes(<< >>) = << >>
  BY BytesOfNone
<1>3. Bytes(Append(<< >>, blk)) = Bytes(<< >>) \o blk.data
  BY <1>1, BytesOfAppend
<1>4. << >> \o blk.data = blk.data
  BY <1>1, ConcatEmptySeq
<1>. QED
  BY <1>1, <1>2, <1>3, <1>4

\* So do bytes stored in the last block.
LEMMA BytesOfLast ==
  ASSUME NEW blks \in Seq(Block), blks # << >>, NEW blk \in Block, NEW data \in Seq(Nat),
         blk.data = blks[Len(blks)].data \o data
  PROVE  Bytes([blks EXCEPT ![Len(blks)] = blk]) = Bytes(blks) \o data
<1>. DEFINE n == Len(blks)
            front == SubSeq(blks, 1, n - 1)
            last == blks[n]
<1>1. /\ front \in Seq(Block) /\ last \in Block
      /\ blks = Append(front, last) /\ [blks EXCEPT ![n] = blk] = Append(front, blk)
  BY LastApart
<1>. HIDE DEF front, last
<1>3. Bytes(blks) = Bytes(front) \o last.data
  BY <1>1, BytesOfAppend
<1>4. Bytes([blks EXCEPT ![n] = blk]) = Bytes(front) \o blk.data
  BY <1>1, BytesOfAppend
<1>5. Bytes(front) \in Seq(Nat) /\ last.data \in Seq(Nat)
  BY <1>1, ListTypes DEF Block
<1>6. (Bytes(front) \o last.data) \o data = Bytes(front) \o (last.data \o data)
  BY <1>5, NumbersJoined
<1>. QED
  BY <1>3, <1>4, <1>6 DEF last

\* The space of blocks is the sum of their sizes.
LEMMA SpaceSums ==
  ASSUME NEW blks \in Seq(Block)
  PROVE  \E h : /\ Sums(h, Sizes(blks), 1 .. Len(blks), Len(blks))
                /\ Space(blks) = h[Len(blks)]
<1>1. Sizes(blks) \in [1 .. Len(blks) -> Int] /\ Len(blks) \in Nat
  BY ListTypes
<1>2. PICK h : Sums(h, Sizes(blks), 1 .. Len(blks), Len(blks))
  BY <1>1, SumsExist
<1>3. SumFunctionOnSet(Sizes(blks), 1 .. Len(blks)) = h[Len(blks)]
  BY <1>1, <1>2, SumIs
<1>4. DOMAIN Sizes(blks) = 1 .. Len(blks)
  BY <1>1
<1>. QED
  BY <1>2, <1>3, <1>4 DEF Space, Sizes, SumFunction

\* A block at the end adds its size.
LEMMA SpaceOfAppend ==
  ASSUME NEW blks \in Seq(Block), NEW blk \in Block
  PROVE  Space(Append(blks, blk)) = Space(blks) + blk.size
<1>. DEFINE n == Len(blks)
            more == Append(blks, blk)
<1>1. /\ n \in Nat /\ more \in Seq(Block) /\ Len(more) = n + 1 /\ more[n + 1] = blk
      /\ \A i \in 1 .. n : more[i] = blks[i]
  OBVIOUS
<1>2. PICK h : Sums(h, Sizes(blks), 1 .. n, n) /\ Space(blks) = h[n]
  BY SpaceSums
<1>3. PICK k : Sums(k, Sizes(more), 1 .. n + 1, n + 1) /\ Space(more) = k[n + 1]
  BY <1>1, SpaceSums
<1>4. /\ Sizes(more)[n + 1] = blk.size
      /\ \A i \in 1 .. n : Sizes(more)[i] = Sizes(blks)[i]
  BY <1>1 DEF Sizes
<1>. HIDE DEF more, n
<1>5. k[n + 1] = k[n] + blk.size
  BY <1>1, <1>3, <1>4 DEF Sums
<1>6. Sums([i \in 0 .. n |-> k[i]], Sizes(blks), 1 .. n, n)
  BY <1>1, <1>3, <1>4 DEF Sums
<1>7. h[n] = k[n]
  <2>1. Sizes(blks) \in [1 .. n -> Int]
    BY ListTypes DEF n
  <2>2. h[n] = [i \in 0 .. n |-> k[i]][n]
    BY <1>1, <1>2, <1>6, <2>1, SumsUnique
  <2>. QED
    BY <1>1, <2>2
<1>. QED
  BY <1>2, <1>3, <1>5, <1>7 DEF more

\* No block, no space.
LEMMA SpaceOfNone == Space(<< >>) = 0
<1>1. << >> \in Seq(Block) /\ Len(<< >>) = 0
  OBVIOUS
<1>2. PICK h : Sums(h, Sizes(<< >>), 1 .. 0, 0) /\ Space(<< >>) = h[0]
  BY <1>1, SpaceSums
<1>. QED
  BY <1>2 DEF Sums

\* The space of one block is its size.
LEMMA SpaceOfOne ==
  ASSUME NEW blk \in Block
  PROVE  Space(<< blk >>) = blk.size
<1>1. << >> \in Seq(Block) /\ Append(<< >>, blk) = << blk >> /\ blk.size \in Nat
  BY DEF Block
<1>2. Space(Append(<< >>, blk)) = Space(<< >>) + blk.size
  BY <1>1, SpaceOfAppend
<1>. QED
  BY <1>1, <1>2, SpaceOfNone

\* Only the sizes count.
LEMMA SpaceSame ==
  ASSUME NEW blks \in Seq(Block), NEW others \in Seq(Block), Len(others) = Len(blks),
         \A i \in 1 .. Len(blks) : others[i].size = blks[i].size
  PROVE  Space(others) = Space(blks)
<1>1. DOMAIN blks = 1 .. Len(blks) /\ DOMAIN others = 1 .. Len(blks)
  OBVIOUS
<1>2. Sizes(others) = Sizes(blks)
  BY <1>1 DEF Sizes
<1>. QED
  BY <1>2 DEF Space, Sizes

\* A list has space for all its bytes, if each block has for its own.
LEMMA SpaceHolds ==
  ASSUME NEW blks \in Seq(Block), \A i \in 1 .. Len(blks) : MBUF_BLK_CAP(blks[i]) >= 0
  PROVE  Space(blks) \in Nat /\ Space(blks) >= Len(Bytes(blks))
<1>. DEFINE n == Len(blks)
            P(i) == SubSeq(blks, 1, i)
            S == {m \in 0 .. n : Space(P(m)) \in Nat /\ Space(P(m)) >= Len(Bytes(P(m)))}
<1>1. n \in Nat /\ P(n) = blks /\ P(0) = << >>
  OBVIOUS
<1>2. 0 \in S
  <2>. HIDE DEF P
  <2>1. Space(P(0)) = 0 /\ Len(Bytes(P(0))) = 0
    <3>1. Space(P(0)) = 0 /\ Bytes(P(0)) = << >>
      BY <1>1, SpaceOfNone, BytesOfNone
    <3>. QED
      BY <3>1
  <2>. QED
    BY <1>1, <2>1
<1>3. ASSUME NEW m \in 1 .. n, m - 1 \in S PROVE m \in S
  <2>. DEFINE front == P(m - 1)
              blk == blks[m]
  <2>1. m - 1 \in 0 .. n /\ P(m) = Append(front, blk)
    BY OneMore
  <2>2. front \in Seq(Block) /\ blk \in Block
    BY <2>1, FirstOnes
  <2>3. /\ blk.data \in Seq(Nat) /\ blk.size \in Nat /\ blk.head \in Nat
        /\ blk.size >= Len(blk.data)
    <3>1. MBUF_BLK_CAP(blk) >= 0
      OBVIOUS
    <3>2. blk.data \in Seq(Nat) /\ blk.size \in Nat /\ blk.head \in Nat
      BY <2>2 DEF Block
    <3>. QED
      BY <3>1, <3>2 DEF MBUF_BLK_CAP
  <2>4. Space(front) \in Nat /\ Space(front) >= Len(Bytes(front))
    BY <1>3
  <2>. HIDE DEF front, blk, P
  <2>5. Space(P(m)) = Space(front) + blk.size
    BY <2>1, <2>2, SpaceOfAppend
  <2>6. Bytes(P(m)) = Bytes(front) \o blk.data /\ Bytes(front) \in Seq(Nat)
    BY <2>1, <2>2, BytesOfAppend, ListTypes
  <2>7. Len(Bytes(P(m))) = Len(Bytes(front)) + Len(blk.data)
    BY <2>3, <2>6
  <2>8. Len(Bytes(front)) \in Nat /\ Len(blk.data) \in Nat
    BY <2>3, <2>6
  <2>9. Space(P(m)) \in Nat /\ Space(P(m)) >= Len(Bytes(P(m)))
    BY <2>3, <2>4, <2>5, <2>7, <2>8
  <2>. QED
    BY <1>1, <2>9
<1>4. n \in S
  <2>. HIDE DEF S
  <2>1. 0 .. n \subseteq S
    BY <1>1, <1>2, <1>3, UpTo
  <2>. QED
    BY <1>1, <2>1
<1>. HIDE DEF P
<1>. QED
  BY <1>1, <1>4

-----------------------------------------------------------------------------
(* Writing *)

\* Max of two is the greater.
LEMMA MaxOfTwo ==
  ASSUME NEW a \in Int, NEW b \in Int
  PROVE  Max({a, b}) = IF a >= b THEN a ELSE b
BY DEF Max

\* Min of two is the lesser.
LEMMA MinOfTwo ==
  ASSUME NEW a \in Int, NEW b \in Int
  PROVE  Min({a, b}) = IF a <= b THEN a ELSE b
BY DEF Min

\* Rounded up, a size is no less.
LEMMA RoundUpFits ==
  ASSUME NEW n \in Nat
  PROVE  RoundUp(n) \in Nat /\ RoundUp(n) >= n
BY DEF RoundUp, BLK_FACTOR

\* What mbuf_add_blk allocates.
Fresh(M, want) ==
    [size |-> Max({MIN_BLK_SIZE, RoundUp(Max({M.hint_size, want}))}),
     head |-> 0, data |-> << >>]

\* It is an empty block with room for want bytes.
LEMMA FreshFits ==
  ASSUME NEW M \in Mbufs, NEW want \in Nat
  PROVE  /\ Fresh(M, want) \in Block /\ Fresh(M, want).data = << >>
         /\ MBUF_BLK_CAP(Fresh(M, want)) \in Nat /\ MBUF_BLK_CAP(Fresh(M, want)) >= want
         /\ Fresh(M, want).size \in Nat
<1>. DEFINE a == Max({M.hint_size, want})
            b == RoundUp(a)
            c == Max({MIN_BLK_SIZE, b})
<1>1. a \in Nat /\ a >= want
  <2>1. M.hint_size \in Nat
    BY DEF Mbufs
  <2>. QED
    BY <2>1, MaxOfTwo
<1>. HIDE DEF a
<1>2. b \in Nat /\ b >= a
  BY <1>1, RoundUpFits
<1>. HIDE DEF b
<1>3. c \in Nat /\ c >= b
  BY <1>2, MaxOfTwo DEF MIN_BLK_SIZE
<1>. HIDE DEF c
<1>4. Fresh(M, want) = [size |-> c, head |-> 0, data |-> << >>]
  BY DEF Fresh, a, b, c
<1>. QED
  BY <1>1, <1>2, <1>3, <1>4 DEF Block, MBUF_BLK_CAP

\* mbuf_add_blk adds an empty block with room for what is wanted.
LEMMA AddBlk ==
  ASSUME NEW M, Sound(M), NEW want \in Nat, NEW N, N = mbuf_add_blk(M, want)
  PROVE  /\ Sound(N) /\ Content(N) = Content(M)
         /\ N.blks = Append(M.blks, Fresh(M, want))
         /\ N.blk_deq = M.blk_deq /\ N.blk_enq = Len(M.blks) + 1
<1>. DEFINE blk == Fresh(M, want)
<1>1. M \in Mbufs /\ M.blks \in Seq(Block) /\ Len(M.blks) \in Nat /\ M.alloc_size \in Nat
  BY DEF Sound, Mbufs
<1>2. blk \in Block /\ blk.data = << >> /\ MBUF_BLK_CAP(blk) >= 0 /\ blk.size \in Nat
  BY <1>1, FreshFits
<1>3. N = [M EXCEPT !.blks = Append(M.blks, blk), !.blk_enq = Len(M.blks) + 1,
                    !.alloc_size = M.alloc_size + blk.size]
  BY DEF mbuf_add_blk, Fresh
<1>. HIDE DEF blk
<1>4. Append(M.blks, blk) \in Seq(Block)
  BY <1>1, <1>2
<1>5. /\ N \in Mbufs /\ N.blks = Append(M.blks, blk) /\ N.blk_deq = M.blk_deq
      /\ N.blk_enq = Len(M.blks) + 1 /\ N.data_size = M.data_size
      /\ N.alloc_size = M.alloc_size + blk.size
  <2>1. M.alloc_size + blk.size \in Nat /\ Len(M.blks) + 1 \in Nat
    BY <1>1, <1>2
  <2>. QED
    BY <1>1, <1>3, <1>4, <2>1 DEF Mbufs
<1>6. Content(N) = Content(M)
  <2>1. Bytes(Append(M.blks, blk)) = Bytes(M.blks) \o << >>
    BY <1>1, <1>2, BytesOfAppend
  <2>2. Bytes(M.blks) \in Seq(Nat)
    BY <1>1, ListTypes
  <2>. QED
    BY <1>5, <2>1, <2>2, ConcatEmptySeq DEF Content
<1>7. N.alloc_size = Space(N.blks)
  BY <1>1, <1>2, <1>5, SpaceOfAppend DEF Sound
<1>8. \A i \in 1 .. Len(N.blks) : MBUF_BLK_CAP(N.blks[i]) >= 0
  <2>1. ASSUME NEW i \in 1 .. Len(N.blks) PROVE MBUF_BLK_CAP(N.blks[i]) >= 0
    <3>1. N.blks[i] = IF i <= Len(M.blks) THEN M.blks[i] ELSE blk
      BY <1>1, <1>2, <1>5
    <3>2. i \in 1 .. Len(M.blks) + 1
      BY <1>1, <1>5
    <3>. QED
      BY <1>1, <1>2, <3>1, <3>2 DEF Sound
  <2>. QED
    BY <2>1
<1>. QED
  BY <1>5, <1>6, <1>7, <1>8 DEF Sound, blk

\* mbuf_init leaves one empty block.
LEMMA InitGood ==
  ASSUME NEW k \in Nat, NEW N, N = mbuf_init(k)
  PROVE  Good(N) /\ Content(N) = << >>
<1>. DEFINE none == [blks |-> << >>, blk_deq |-> 0, blk_enq |-> 0,
                     data_size |-> 0, hint_size |-> k, alloc_size |-> 0]
            one == mbuf_add_blk(none, k)
            blk == Fresh(none, k)
<1>1. none \in Mbufs /\ none.blks = << >>
  <2>1. << >> \in Seq(Block)
    OBVIOUS
  <2>. QED
    BY <2>1 DEF Mbufs
<1>2. Content(none) = << >> /\ Space(none.blks) = 0
  BY <1>1, BytesOfNone, SpaceOfNone DEF Content
<1>3. none.data_size = 0 /\ none.alloc_size = 0 /\ Len(none.blks) = 0
  BY <1>1
<1>4. N = [one EXCEPT !.blk_deq = 1]
  BY DEF mbuf_init
<1>. HIDE DEF none, one
<1>5. Sound(none)
  <2>1. Len(Content(none)) = 0
    BY <1>2
  <2>. QED
    BY <1>1, <1>2, <1>3, <2>1 DEF Sound
<1>6. /\ Sound(one) /\ Content(one) = << >> /\ one.blks = Append(none.blks, blk)
      /\ one.blk_enq = 1
  <2>1. one = mbuf_add_blk(none, k)
    BY DEF one
  <2>2. /\ Sound(one) /\ Content(one) = Content(none) /\ one.blks = Append(none.blks, blk)
        /\ one.blk_enq = Len(none.blks) + 1
    BY <1>5, <2>1, AddBlk
  <2>. QED
    BY <1>2, <1>3, <2>2
<1>7. Len(one.blks) = 1
  BY <1>1, <1>6
<1>8. /\ N \in Mbufs /\ N.blks = one.blks /\ N.blk_deq = 1 /\ N.blk_enq = one.blk_enq
      /\ N.data_size = one.data_size /\ N.alloc_size = one.alloc_size
  <2>1. one \in Mbufs
    BY <1>6 DEF Sound
  <2>. QED
    BY <1>4, <2>1 DEF Mbufs
<1>9. Content(N) = << >>
  BY <1>6, <1>8 DEF Content
<1>10. Sound(N)
  BY <1>6, <1>8, <1>9 DEF Sound
<1>. QED
  BY <1>6, <1>7, <1>8, <1>9, <1>10 DEF Good

\* Bytes for which the last block has room are stored at the end of it.
LEMMA StoreGood ==
  ASSUME NEW M, Good(M), NEW data \in Seq(Nat),
         MBUF_BLK_CAP(M.blks[Len(M.blks)]) >= Len(data),
         NEW N, N = Store(M, Len(M.blks), data)
  PROVE  /\ Good(N) /\ Content(N) = Content(M) \o data
         /\ Len(N.blks) = Len(M.blks)
<1>. DEFINE n == Len(M.blks)
            old == M.blks[n]
            blk == [old EXCEPT !.data = old.data \o data]
            blks == [M.blks EXCEPT ![n] = blk]
<1>1. /\ M \in Mbufs /\ M.blks \in Seq(Block) /\ n \in Nat /\ n >= 1 /\ M.blks # << >>
      /\ M.data_size \in Nat /\ M.blk_deq \in 1 .. n /\ M.blk_enq = n
  BY DEF Good, Sound, Mbufs
<1>2. /\ old \in Block /\ old.data \in Seq(Nat) /\ old.size \in Nat /\ old.head \in Nat
      /\ Len(data) \in Nat /\ Len(old.data) \in Nat
  <2>1. old \in Block
    BY <1>1, ElementOfSeq
  <2>. QED
    BY <2>1 DEF Block
<1>3. /\ blk \in Block /\ blk.data = old.data \o data /\ blk.size = old.size /\ blk.head = old.head
      /\ Len(blk.data) = Len(old.data) + Len(data)
  <2>1. old.data \o data \in Seq(Nat) /\ Len(old.data \o data) = Len(old.data) + Len(data)
    BY <1>2
  <2>. QED
    BY <1>2, <2>1 DEF Block
<1>4. MBUF_BLK_CAP(old) >= Len(data)
  OBVIOUS
<1>5. N = [M EXCEPT !.blks = blks, !.data_size = M.data_size + Len(data)]
  BY DEF Store
<1>. HIDE DEF blk
<1>6. MBUF_BLK_CAP(blk) >= 0
  <2>. HIDE DEF old
  <2>. QED
    BY <1>2, <1>3, <1>4 DEF MBUF_BLK_CAP
<1>7. Bytes(blks) = Bytes(M.blks) \o data /\ Bytes(M.blks) \in Seq(Nat)
  BY <1>1, <1>3, BytesOfLast, ListTypes
<1>8. /\ blks \in Seq(Block) /\ Len(blks) = n
      /\ \A i \in 1 .. n : blks[i] = IF i = n THEN blk ELSE M.blks[i]
  BY <1>1, <1>3, ExceptSeq
<1>. HIDE DEF blks, old
<1>9. /\ N \in Mbufs /\ N.blks = blks /\ N.data_size = M.data_size + Len(data)
      /\ N.alloc_size = M.alloc_size /\ N.blk_deq = M.blk_deq /\ N.blk_enq = M.blk_enq
  <2>1. M.data_size + Len(data) \in Nat
    BY <1>1, <1>2
  <2>. QED
    BY <1>1, <1>5, <1>8, <2>1 DEF Mbufs
<1>10. Content(N) = Content(M) \o data /\ N.data_size = Len(Content(N))
  <2>1. Content(N) = Content(M) \o data /\ Content(M) \in Seq(Nat)
    BY <1>7, <1>9 DEF Content
  <2>2. Len(Content(M) \o data) = Len(Content(M)) + Len(data)
    BY <2>1
  <2>. QED
    BY <1>9, <2>1, <2>2 DEF Good, Sound
<1>11. N.alloc_size = Space(N.blks)
  <2>1. \A i \in 1 .. n : blks[i].size = M.blks[i].size
    BY <1>3, <1>8 DEF old
  <2>2. Space(blks) = Space(M.blks)
    BY <1>1, <1>8, <2>1, SpaceSame
  <2>. QED
    BY <1>9, <2>2 DEF Good, Sound
<1>12. \A i \in 1 .. n : MBUF_BLK_CAP(blks[i]) >= 0
  <2>1. ASSUME NEW i \in 1 .. n PROVE MBUF_BLK_CAP(blks[i]) >= 0
    <3>1. blks[i] = IF i = n THEN blk ELSE M.blks[i]
      BY <1>8
    <3>. QED
      BY <1>6, <3>1 DEF Good, Sound
  <2>. QED
    BY <2>1
<1>13. \A i \in 1 .. M.blk_deq - 1 : blks[i].data = << >>
  <2>1. ASSUME NEW i \in 1 .. M.blk_deq - 1 PROVE blks[i].data = << >>
    <3>1. i \in 1 .. n /\ i # n
      BY <1>1
    <3>2. blks[i] = M.blks[i]
      BY <1>8, <3>1
    <3>. QED
      BY <3>2 DEF Good
  <2>. QED
    BY <2>1
<1>. QED
  BY <1>1, <1>8, <1>9, <1>10, <1>11, <1>12, <1>13 DEF Good, Sound

\* A block added to a list that is good.
LEMMA AddGood ==
  ASSUME NEW M, Good(M), NEW want \in Nat, NEW N, N = mbuf_add_blk(M, want)
  PROVE  /\ Good(N) /\ Content(N) = Content(M)
         /\ N.blk_enq = Len(N.blks)
         /\ MBUF_BLK_CAP(N.blks[Len(N.blks)]) >= want
<1>. DEFINE blk == Fresh(M, want)
<1>1. M \in Mbufs /\ M.blks \in Seq(Block) /\ Len(M.blks) \in Nat /\ M.blk_deq \in 1 .. Len(M.blks)
  BY DEF Good, Sound, Mbufs
<1>2. /\ Sound(N) /\ Content(N) = Content(M) /\ N.blks = Append(M.blks, blk)
      /\ N.blk_deq = M.blk_deq /\ N.blk_enq = Len(M.blks) + 1
  BY AddBlk DEF Good
<1>3. blk \in Block /\ MBUF_BLK_CAP(blk) >= want
  BY <1>1, FreshFits
<1>. HIDE DEF blk
<1>4. /\ Len(N.blks) = Len(M.blks) + 1 /\ N.blks[Len(M.blks) + 1] = blk
      /\ \A i \in 1 .. Len(M.blks) : N.blks[i] = M.blks[i]
  BY <1>1, <1>2, <1>3
<1>5. N.blk_deq \in 1 .. Len(N.blks) /\ N.blk_enq = Len(N.blks)
  BY <1>1, <1>2, <1>4
<1>6. \A i \in 1 .. N.blk_deq - 1 : N.blks[i].data = << >>
  BY <1>1, <1>2, <1>4 DEF Good
<1>. QED
  BY <1>2, <1>3, <1>4, <1>5, <1>6 DEF Good

\* Min is a member that no member is below.
LEMMA MinIs ==
  ASSUME NEW S \in SUBSET Nat, NEW k \in S, \A m \in S : k <= m
  PROVE  Min(S) = k
<1>. DEFINE x == CHOOSE m \in S : \A y \in S : m <= y
<1>1. x \in S /\ \A y \in S : x <= y
  <2>1. \E m \in S : \A y \in S : m <= y
    OBVIOUS
  <2>. QED
    BY <2>1
<1>2. Min(S) = x
  BY DEF Min
<1>. HIDE DEF x
<1>3. x \in Nat /\ k \in Nat /\ x <= k /\ k <= x
  BY <1>1
<1>. QED
  BY <1>2, <1>3

\* Min of one is that.
LEMMA MinOfOne ==
  ASSUME NEW a \in Int
  PROVE  Min({a}) = a
BY DEF Min

\* MBUF_ALLOC and the copy after it put data at the end.
LEMMA AllocGood ==
  ASSUME NEW M, Good(M), NEW data \in Seq(Nat), NEW N, N = MBUF_ALLOC(M, data)
  PROVE  Good(N) /\ Content(N) = Content(M) \o data
<1>. DEFINE n == Len(M.blks)
            room == {i \in M.blk_enq .. n : MBUF_BLK_CAP(M.blks[i]) >= Len(data)}
            more == mbuf_add_blk(M, Len(data))
<1>1. M \in Mbufs /\ n \in Nat /\ M.blk_enq = n /\ Len(data) \in Nat
  BY DEF Good, Sound, Mbufs
<1>2. CASE room = {}
  <2>1. /\ Good(more) /\ Content(more) = Content(M) /\ more.blk_enq = Len(more.blks)
        /\ MBUF_BLK_CAP(more.blks[Len(more.blks)]) >= Len(data)
    <3>. HIDE DEF n, room
    <3>. QED
      BY <1>1, AddGood
  <2>2. N = Store(more, more.blk_enq, data)
    BY <1>2 DEF MBUF_ALLOC
  <2>. HIDE DEF more
  <2>3. Good(N) /\ Content(N) = Content(more) \o data
    BY <2>1, <2>2, StoreGood
  <2>. QED
    BY <2>1, <2>3
<1>3. CASE room # {}
  <2>1. room = {n} /\ MBUF_BLK_CAP(M.blks[n]) >= Len(data)
    BY <1>1, <1>3
  <2>2. Min(room) = n
    BY <1>1, <2>1, MinOfOne
  <2>3. [M EXCEPT !.blk_enq = Min(room)] = M
    BY <1>1, <2>2 DEF Mbufs
  <2>4. N = Store(M, n, data)
    BY <1>1, <1>3, <2>3 DEF MBUF_ALLOC
  <2>. QED
    BY <2>1, <2>4, StoreGood
<1>. QED
  BY <1>2, <1>3

\* So does mbuf_enq_span, in two parts if the block is too small.
LEMMA SpanGood ==
  ASSUME NEW M, Good(M), NEW data \in Seq(Nat), NEW N, N = mbuf_enq_span(M, data)
  PROVE  Good(N) /\ Content(N) = Content(M) \o data
<1>. DEFINE n == Len(M.blks)
            cap == MBUF_BLK_CAP(M.blks[n])
            first == SubSeq(data, 1, cap)
            Full == Store(M, n, first)
            More == mbuf_add_blk(Full, Len(data) - cap)
            rest == Rest(data, cap)
<1>1. /\ M \in Mbufs /\ M.blks \in Seq(Block) /\ n \in Nat /\ n >= 1
      /\ M.blk_enq = n /\ Len(data) \in Nat
  BY DEF Good, Sound, Mbufs
<1>2. cap \in Nat
  <2>1. M.blks[n] \in Block
    BY <1>1, ElementOfSeq
  <2>2. cap \in Int
    BY <2>1 DEF MBUF_BLK_CAP, Block
  <2>3. cap >= 0
    BY <1>1 DEF Good, Sound
  <2>. QED
    BY <2>2, <2>3
<1>3. CASE cap < Len(data)
  <2>1. cap \in 0 .. Len(data)
    BY <1>1, <1>2, <1>3
  <2>2. N = Store(More, More.blk_enq, rest)
    BY <1>1, <1>3 DEF mbuf_enq_span
  <2>3. MBUF_BLK_CAP(M.blks[n]) = cap
    OBVIOUS
  <2>. HIDE DEF cap
  <2>4. first \in Seq(Nat) /\ Len(first) = cap
    BY <2>1, FirstOnes
  <2>5. rest \in Seq(Nat) /\ Len(rest) = Len(data) - cap
    BY <2>1, LastOnes DEF Rest
  <2>6. first \o rest = data
    <3>1. SubSeq(data, 1, cap) \o SubSeq(data, cap + 1, Len(data)) = data
      BY <2>1, PartsOfOne
    <3>. QED
      BY <3>1 DEF Rest
  <2>. HIDE DEF first, rest
  <2>7. Good(Full) /\ Content(Full) = Content(M) \o first
    <3>1. MBUF_BLK_CAP(M.blks[Len(M.blks)]) >= Len(first)
      BY <1>2, <2>3, <2>4
    <3>. QED
      BY <2>4, <3>1, StoreGood
  <2>. HIDE DEF Full
  <2>8. /\ Good(More) /\ Content(More) = Content(Full) /\ More.blk_enq = Len(More.blks)
        /\ MBUF_BLK_CAP(More.blks[Len(More.blks)]) >= Len(rest)
    <3>1. Len(data) - cap \in Nat
      BY <1>1, <1>2, <1>3
    <3>2. /\ Good(More) /\ Content(More) = Content(Full) /\ More.blk_enq = Len(More.blks)
          /\ MBUF_BLK_CAP(More.blks[Len(More.blks)]) >= Len(data) - cap
      BY <2>7, <3>1, AddGood
    <3>. QED
      BY <2>5, <3>2
  <2>. HIDE DEF More
  <2>9. Good(N) /\ Content(N) = Content(More) \o rest
    BY <2>2, <2>5, <2>8, StoreGood
  <2>10. (Content(M) \o first) \o rest = Content(M) \o (first \o rest)
    <3>1. Content(M) \in Seq(Nat)
      BY <1>1, ListTypes DEF Content
    <3>. QED
      BY <2>4, <2>5, <3>1, NumbersJoined
  <2>. QED
    BY <2>6, <2>7, <2>8, <2>9, <2>10
<1>4. CASE ~(cap < Len(data))
  <2>1. N = Store(M, n, data)
    BY <1>1, <1>4 DEF mbuf_enq_span
  <2>2. MBUF_BLK_CAP(M.blks[Len(M.blks)]) >= Len(data)
    BY <1>1, <1>2, <1>4
  <2>. QED
    BY <2>1, <2>2, StoreGood
<1>. QED
  BY <1>3, <1>4

-----------------------------------------------------------------------------
(* Pulling up and starting over *)

\* Pulled up, the bytes are the same.
LEMMA PullupGood ==
  ASSUME NEW M, Good(M), NEW N, N = mbuf_pullup(M)
  PROVE  Good(N) /\ Content(N) = Content(M)
<1>1. CASE Len(M.blks) = 1
  <2>1. N = M
    BY <1>1 DEF mbuf_pullup
  <2>. QED
    BY <2>1
<1>2. CASE Len(M.blks) # 1
  <2>. DEFINE blk == PulledUp(M)
              blks == << blk >>
  <2>1. /\ M \in Mbufs /\ M.blks \in Seq(Block) /\ M.alloc_size \in Nat
        /\ M.alloc_size = Space(M.blks) /\ M.data_size = Len(Content(M))
    BY DEF Good, Sound, Mbufs
  <2>2. Content(M) \in Seq(Nat)
    BY <2>1, ListTypes DEF Content
  <2>3. /\ blk \in Block /\ blk.data = Content(M) /\ blk.size = M.alloc_size
        /\ blk.head = 0
    BY <2>1, <2>2 DEF PulledUp, Block
  <2>4. MBUF_BLK_CAP(blk) >= 0
    <3>1. M.alloc_size >= Len(Content(M))
      BY <2>1, SpaceHolds DEF Content, Good, Sound
    <3>2. Len(Content(M)) \in Nat
      BY <2>2
    <3>. HIDE DEF blk
    <3>. QED
      BY <2>1, <2>3, <3>1, <3>2 DEF MBUF_BLK_CAP
  <2>5. N = [M EXCEPT !.blks = blks, !.blk_deq = 1, !.blk_enq = 1]
    BY <1>2 DEF mbuf_pullup
  <2>. HIDE DEF blk
  <2>6. blks \in Seq(Block) /\ Len(blks) = 1 /\ blks[1] = blk
    BY <2>3
  <2>7. Bytes(blks) = Content(M) /\ Space(blks) = M.alloc_size
    BY <2>3, BytesOfOne, SpaceOfOne
  <2>. HIDE DEF blks
  <2>8. /\ N \in Mbufs /\ N.blks = blks /\ N.blk_deq = 1 /\ N.blk_enq = 1
        /\ N.data_size = M.data_size /\ N.alloc_size = M.alloc_size
    <3>. DEFINE one == 1
    <3>1. blks \in Seq(Block) /\ M \in Mbufs /\ one \in Nat
      BY <2>1, <2>6
    <3>2. N = [M EXCEPT !.blks = blks, !.blk_deq = one, !.blk_enq = one]
      BY <2>5
    <3>. HIDE DEF one
    <3>3. /\ N \in Mbufs /\ N.blks = blks /\ N.blk_deq = one /\ N.blk_enq = one
          /\ N.data_size = M.data_size /\ N.alloc_size = M.alloc_size
      BY <3>1, <3>2 DEF Mbufs
    <3>. QED
      BY <3>3 DEF one
  <2>9. Content(N) = Content(M)
    BY <2>7, <2>8 DEF Content
  <2>. QED
    <3>1. \A i \in 1 .. Len(blks) : MBUF_BLK_CAP(blks[i]) >= 0
      <4>1. ASSUME NEW i \in 1 .. Len(blks) PROVE MBUF_BLK_CAP(blks[i]) >= 0
        <5>1. i = 1
          BY <2>6
        <5>. QED
          BY <2>4, <2>6, <5>1
      <4>. QED
        BY <4>1
    <3>2. Sound(N)
      BY <2>1, <2>7, <2>8, <2>9, <3>1 DEF Sound
    <3>3. N.blk_deq \in 1 .. Len(N.blks) /\ N.blk_enq = Len(N.blks)
      <4>1. N.blk_deq = 1 /\ N.blk_enq = 1
        BY <2>8
      <4>2. Len(N.blks) = 1
        BY <2>6, <2>8
      <4>. QED
        BY <4>1, <4>2
    <3>4. \A i \in 1 .. N.blk_deq - 1 : N.blks[i].data = << >>
      BY <2>8
    <3>. QED
      BY <2>9, <3>2, <3>3, <3>4 DEF Good
<1>. QED
  BY <1>1, <1>2

\* Started over, there is none.
LEMMA ResetGood ==
  ASSUME NEW M, Good(M), NEW k \in Nat, NEW N, N = mbuf_reset(M, k)
  PROVE  Good(N) /\ Content(N) = << >>
<1>1. /\ M \in Mbufs /\ M.blks \in Seq(Block) /\ Len(M.blks) \in Nat /\ Len(M.blks) >= 1
      /\ M.alloc_size \in Nat /\ M.alloc_size = Space(M.blks) /\ M.blk_deq \in 1 .. Len(M.blks)
      /\ M.blk_enq = Len(M.blks)
  BY DEF Good, Sound, Mbufs
<1>2. CASE Len(M.blks) > 1 \/ k > M.alloc_size
  <2>1. N = mbuf_init(Max({k, M.alloc_size}))
    BY <1>2 DEF mbuf_reset
  <2>2. Max({k, M.alloc_size}) \in Nat
    BY <1>1, MaxOfTwo
  <2>. QED
    BY <2>1, <2>2, InitGood
<1>3. CASE ~(Len(M.blks) > 1 \/ k > M.alloc_size)
  <2>1. Len(M.blks) = 1
    <3>1. Len(M.blks) \in Nat /\ Len(M.blks) >= 1
      BY <1>1
    <3>2. ~(Len(M.blks) > 1)
      BY <1>3
    <3>3. \A n \in Nat : n >= 1 /\ ~(n > 1) => n = 1
      OBVIOUS
    <3>. QED
      BY <3>1, <3>2, <3>3
  <2>. DEFINE old == M.blks[1]
              blk == Emptied(old)
              blks == [M.blks EXCEPT ![1] = blk]
  <2>2. old \in Block /\ old.size \in Nat
    <3>1. old \in Block
      BY <1>1, <2>1, ElementOfSeq
    <3>. QED
      BY <3>1 DEF Block
  <2>3. blk \in Block /\ blk.size = old.size /\ blk.head = 0 /\ blk.data = << >>
    <3>1. << >> \in Seq(Nat)
      OBVIOUS
    <3>. HIDE DEF old
    <3>. QED
      BY <2>2, <3>1 DEF Emptied, Block
  <2>4. N = [M EXCEPT !.blks = blks, !.data_size = 0]
    BY <1>3 DEF mbuf_reset
  <2>. HIDE DEF blk
  <2>5. blks \in Seq(Block) /\ Len(blks) = 1 /\ blks[1] = blk
    BY <1>1, <2>1, <2>3, ExceptSeq
  <2>6. blks = << blk >>
    BY <2>5
  <2>7. Bytes(blks) = << >> /\ Space(blks) = old.size
    BY <2>3, <2>6, BytesOfOne, SpaceOfOne
  <2>8. Space(M.blks) = Space(blks)
    <3>1. \A i \in 1 .. Len(blks) : M.blks[i].size = blks[i].size
      BY <2>3, <2>5
    <3>. QED
      BY <1>1, <2>1, <2>5, <3>1, SpaceSame
  <2>. HIDE DEF blks, old
  <2>9. /\ N \in Mbufs /\ N.blks = blks /\ N.blk_deq = M.blk_deq /\ N.blk_enq = M.blk_enq
        /\ N.data_size = 0 /\ N.alloc_size = M.alloc_size
    <3>. DEFINE zero == 0
    <3>1. blks \in Seq(Block) /\ M \in Mbufs /\ zero \in Nat
      BY <1>1, <2>5
    <3>2. N = [M EXCEPT !.blks = blks, !.data_size = zero]
      BY <2>4
    <3>. HIDE DEF zero
    <3>3. /\ N \in Mbufs /\ N.blks = blks /\ N.blk_deq = M.blk_deq /\ N.blk_enq = M.blk_enq
          /\ N.data_size = zero /\ N.alloc_size = M.alloc_size
      BY <3>1, <3>2 DEF Mbufs
    <3>. QED
      BY <3>3 DEF zero
  <2>10. Content(N) = << >> /\ Len(Content(N)) = 0
    BY <2>7, <2>9 DEF Content
  <2>11. MBUF_BLK_CAP(blk) >= 0
    BY <2>2, <2>3 DEF MBUF_BLK_CAP
  <2>12. M.blk_deq = 1 /\ M.blk_enq = 1
    BY <1>1, <2>1
  <2>. QED
    <3>1. \A i \in 1 .. Len(blks) : MBUF_BLK_CAP(blks[i]) >= 0
      <4>1. ASSUME NEW i \in 1 .. Len(blks) PROVE MBUF_BLK_CAP(blks[i]) >= 0
        <5>1. i = 1
          BY <2>5
        <5>. QED
          BY <2>5, <2>11, <5>1
      <4>. QED
        BY <4>1
    <3>2. Sound(N)
      BY <1>1, <2>8, <2>9, <2>10, <3>1 DEF Sound
    <3>3. N.blk_deq \in 1 .. Len(N.blks) /\ N.blk_enq = Len(N.blks)
      <4>1. N.blk_deq = 1 /\ N.blk_enq = 1
        BY <2>9, <2>12
      <4>2. Len(N.blks) = 1
        BY <2>5, <2>9
      <4>. QED
        BY <4>1, <4>2
    <3>4. \A i \in 1 .. N.blk_deq - 1 : N.blks[i].data = << >>
      BY <2>9, <2>12
    <3>. QED
      BY <2>10, <3>2, <3>3, <3>4 DEF Good
<1>. QED
  BY <1>2, <1>3

-----------------------------------------------------------------------------
(* Reading *)

\* How many bytes the first i blocks hold, and how many of those a drain of len takes.
Held(M, i) == Len(Bytes(SubSeq(M.blks, 1, i)))
Taken(M, len, i) == IF Held(M, i) <= len THEN Held(M, i) ELSE len

\* Each block adds its bytes, and all hold data_size.
LEMMA HeldSteps ==
  ASSUME NEW M, Good(M)
  PROVE  /\ Held(M, 0) = 0 /\ Held(M, Len(M.blks)) = M.data_size
         /\ \A i \in 0 .. Len(M.blks) : Held(M, i) \in Nat
         /\ \A i \in 1 .. Len(M.blks) :
              /\ Len(M.blks[i].data) \in Nat
              /\ Held(M, i) = Held(M, i - 1) + Len(M.blks[i].data)
<1>. DEFINE n == Len(M.blks)
            P(i) == SubSeq(M.blks, 1, i)
<1>1. M.blks \in Seq(Block) /\ n \in Nat /\ M.data_size = Len(Content(M))
  BY DEF Good, Sound, Mbufs
<1>2. P(0) = << >> /\ P(n) = M.blks
  BY <1>1
<1>3. ASSUME NEW i \in 0 .. n PROVE P(i) \in Seq(Block) /\ Bytes(P(i)) \in Seq(Nat)
  <2>1. P(i) \in Seq(Block)
    BY <1>1, FirstOnes
  <2>. HIDE DEF P
  <2>. QED
    BY <2>1, ListTypes
<1>4. ASSUME NEW i \in 1 .. n
      PROVE  /\ Len(M.blks[i].data) \in Nat
             /\ Len(Bytes(P(i))) = Len(Bytes(P(i - 1))) + Len(M.blks[i].data)
  <2>. DEFINE front == P(i - 1)
              blk == M.blks[i]
  <2>1. i - 1 \in 0 .. n
    BY <1>1
  <2>2. front \in Seq(Block) /\ Bytes(front) \in Seq(Nat)
    BY <1>3, <2>1
  <2>3. blk \in Block /\ blk.data \in Seq(Nat)
    BY <1>1, ListTypes
  <2>4. P(i) = Append(front, blk)
    BY <1>1, OneMore
  <2>. HIDE DEF front, blk, P
  <2>5. Bytes(P(i)) = Bytes(front) \o blk.data
    BY <2>2, <2>3, <2>4, BytesOfAppend
  <2>6. Len(blk.data) \in Nat /\ Len(Bytes(P(i))) = Len(Bytes(front)) + Len(blk.data)
    BY <2>2, <2>3, <2>5
  <2>. QED
    BY <2>6 DEF front, blk
<1>5. Held(M, 0) = 0
  <2>1. Bytes(P(0)) = << >>
    BY <1>2, BytesOfNone
  <2>2. Len(Bytes(P(0))) = 0
    BY <2>1
  <2>. QED
    BY <2>2 DEF Held
<1>6. Held(M, n) = M.data_size
  BY <1>1, <1>2 DEF Held, Content
<1>7. \A i \in 0 .. n : Held(M, i) \in Nat
  <2>1. ASSUME NEW i \in 0 .. n PROVE Held(M, i) \in Nat
    <3>1. Bytes(P(i)) \in Seq(Nat)
      BY <1>3
    <3>. HIDE DEF P
    <3>2. Len(Bytes(P(i))) \in Nat
      BY <3>1
    <3>. QED
      BY <3>2 DEF Held, P
  <2>. QED
    BY <2>1
<1>. QED
  BY <1>4, <1>5, <1>6, <1>7 DEF Held

\* Nothing is held before the place to read from.
LEMMA HeldBefore ==
  ASSUME NEW M, Good(M), NEW i \in 0 .. M.blk_deq - 1
  PROVE  Held(M, i) = 0
<1>. DEFINE d == M.blk_deq
            S == {j \in 0 .. d - 1 : Held(M, j) = 0}
<1>1. M \in Mbufs /\ d \in 1 .. Len(M.blks) /\ Len(M.blks) \in Nat /\ d \in Nat
  BY DEF Good, Sound, Mbufs
<1>2. 0 \in S
  BY <1>1, HeldSteps
<1>3. ASSUME NEW j \in 1 .. d - 1, j - 1 \in S PROVE j \in S
  <2>1. j \in 1 .. Len(M.blks) /\ M.blks[j].data = << >>
    BY <1>1 DEF Good
  <2>2. Held(M, j) = Held(M, j - 1) + Len(M.blks[j].data)
    BY <2>1, HeldSteps
  <2>3. Len(M.blks[j].data) = 0 /\ Held(M, j - 1) = 0
    BY <1>3, <2>1
  <2>. QED
    BY <2>2, <2>3
<1>4. 0 .. d - 1 \subseteq S
  <2>1. d - 1 \in Nat
    BY <1>1
  <2>. HIDE DEF S
  <2>. QED
    BY <1>2, <1>3, <2>1, UpTo
<1>. QED
  BY <1>4

\* Through, which counts from there, counts them all.
LEMMA ThroughIs ==
  ASSUME NEW M, Good(M), NEW i \in 0 .. Len(M.blks)
  PROVE  Through(M, i) = Held(M, i)
<1>. DEFINE n == Len(M.blks)
            d == M.blk_deq
            f == [j \in DOMAIN M.blks |-> Len(M.blks[j].data)]
            h == [j \in 0 .. n |-> IF j <= i THEN Held(M, j) ELSE Held(M, i)]
<1>1. n \in Nat /\ d \in 1 .. n /\ DOMAIN M.blks = 1 .. n /\ i \in 0 .. n
  BY DEF Good, Sound, Mbufs
<1>2. /\ Held(M, 0) = 0 /\ \A j \in 0 .. n : Held(M, j) \in Nat
      /\ \A j \in 1 .. n : /\ Len(M.blks[j].data) \in Nat
                           /\ Held(M, j) = Held(M, j - 1) + Len(M.blks[j].data)
  BY HeldSteps
<1>3. \A j \in 0 .. d - 1 : Held(M, j) = 0
  BY HeldBefore
<1>4. f \in [1 .. n -> Int] /\ \A j \in 1 .. n : f[j] = Len(M.blks[j].data)
  BY <1>1, <1>2
<1>5. h \in [0 .. n -> Int] /\ h[0] = 0 /\ h[n] = Held(M, i)
  BY <1>1, <1>2
<1>6. ASSUME NEW j \in 1 .. n
      PROVE  h[j] = IF j \in d .. i THEN h[j - 1] + f[j] ELSE h[j - 1]
  <2>1. /\ h[j] = IF j <= i THEN Held(M, j) ELSE Held(M, i)
        /\ h[j - 1] = IF j - 1 <= i THEN Held(M, j - 1) ELSE Held(M, i)
    BY <1>1
  <2>2. /\ Held(M, j) = Held(M, j - 1) + f[j] /\ Held(M, j) \in Nat /\ Held(M, j - 1) \in Nat
        /\ f[j] \in Int /\ Held(M, i) \in Nat
    BY <1>1, <1>2, <1>4
  <2>. HIDE DEF f, h
  <2>3. CASE j \in d .. i
    BY <1>1, <2>1, <2>2, <2>3
  <2>4. CASE j < d
    <3>1. Held(M, j) = 0 /\ Held(M, j - 1) = 0
      BY <1>1, <1>3, <2>4
    <3>2. ~(j \in d .. i)
      BY <1>1, <2>4
    <3>3. CASE j <= i
      BY <1>1, <2>1, <3>1, <3>2, <3>3
    <3>4. CASE ~(j <= i)
      <4>1. i \in 0 .. d - 1
        BY <1>1, <2>4, <3>4
      <4>2. Held(M, i) = 0
        BY <1>3, <4>1
      <4>. QED
        BY <2>1, <3>1, <3>2, <3>4, <4>2
    <3>. QED
      BY <3>3, <3>4
  <2>5. CASE j > i
    <3>1. ~(j \in d .. i) /\ ~(j <= i)
      BY <1>1, <2>5
    <3>2. CASE j - 1 <= i
      <4>1. j - 1 = i
        BY <1>1, <2>5, <3>2
      <4>. QED
        BY <2>1, <3>1, <3>2, <4>1
    <3>3. CASE ~(j - 1 <= i)
      BY <2>1, <3>1, <3>3
    <3>. QED
      BY <3>2, <3>3
  <2>. QED
    BY <1>1, <2>3, <2>4, <2>5
<1>7. Sums(h, f, d .. i, n)
  <2>. HIDE DEF h, f
  <2>. QED
    BY <1>5, <1>6 DEF Sums
<1>8. SumFunctionOnSet(f, d .. i) = h[n]
  <2>1. d .. i \in SUBSET (1 .. n)
    BY <1>1
  <2>. HIDE DEF h, f, d, n
  <2>. QED
    BY <1>1, <1>4, <1>7, <2>1, SumIs
<1>9. Through(M, i) = SumFunctionOnSet(f, d .. i)
  BY DEF Through
<1>. QED
  BY <1>5, <1>8, <1>9

\* Taken is what the blocks give, one after the other.
LEMMA TakenSteps ==
  ASSUME NEW M, Good(M), NEW len \in 0 .. M.data_size
  PROVE  /\ Taken(M, len, 0) = 0 /\ Taken(M, len, Len(M.blks)) = len
         /\ \A i \in 0 .. Len(M.blks) : /\ Taken(M, len, i) \in Nat
                                        /\ Taken(M, len, i) <= Held(M, i)
         /\ \A i \in 1 .. Len(M.blks) :
              /\ Passed(M, len, i) \in 0 .. Len(M.blks[i].data)
              /\ Taken(M, len, i) = Taken(M, len, i - 1) + Passed(M, len, i)
              /\ Taken(M, len, i - 1) = Held(M, i - 1) \/ Passed(M, len, i) = 0
<1>. DEFINE n == Len(M.blks)
            h(i) == Held(M, i)
            t(i) == Taken(M, len, i)
            s(i) == Len(M.blks[i].data)
<1>1. n \in Nat /\ M.data_size \in Nat /\ len \in Nat /\ len <= M.data_size
  <2>1. n \in Nat /\ M.data_size \in Nat
    BY DEF Good, Sound, Mbufs
  <2>. QED
    BY <2>1
<1>2. /\ h(0) = 0 /\ h(n) = M.data_size /\ \A i \in 0 .. n : h(i) \in Nat
      /\ \A i \in 1 .. n : s(i) \in Nat /\ h(i) = h(i - 1) + s(i)
  BY HeldSteps
<1>3. \A i : t(i) = IF h(i) <= len THEN h(i) ELSE len
  BY DEF Taken
<1>4. \A i \in 1 .. n : Through(M, i - 1) = h(i - 1) /\ i - 1 \in 0 .. n
  <2>1. ASSUME NEW i \in 1 .. n PROVE Through(M, i - 1) = h(i - 1) /\ i - 1 \in 0 .. n
    <3>1. i - 1 \in 0 .. n
      BY <1>1
    <3>. QED
      BY <3>1, ThroughIs
  <2>. QED
    BY <2>1
<1>5. ASSUME NEW i \in 1 .. n
      PROVE  Passed(M, len, i) = IF len <= h(i - 1) THEN 0
                                 ELSE IF h(i) <= len THEN s(i) ELSE len - h(i - 1)
  <2>. DEFINE a == h(i - 1)
              b == Max({0, len - a})
  <2>1. a \in Nat /\ s(i) \in Nat /\ h(i) = a + s(i)
    BY <1>2, <1>4
  <2>2. Passed(M, len, i) = Min({s(i), b})
    BY <1>4 DEF Passed
  <2>. HIDE DEF a, h, s
  <2>3. b = IF 0 >= len - a THEN 0 ELSE len - a
    <3>1. len - a \in Int /\ 0 \in Int
      BY <1>1, <2>1
    <3>. QED
      BY <3>1, MaxOfTwo
  <2>4. b \in Nat
    BY <1>1, <2>1, <2>3
  <2>. HIDE DEF b
  <2>5. Passed(M, len, i) = IF s(i) <= b THEN s(i) ELSE b
    BY <2>1, <2>2, <2>4, MinOfTwo
  <2>6. Passed(M, len, i) = IF len <= a THEN 0 ELSE IF h(i) <= len THEN s(i) ELSE len - a
    <3>1. CASE len <= a
      BY <1>1, <2>1, <2>3, <2>5, <3>1
    <3>2. CASE len > a
      BY <1>1, <2>1, <2>3, <2>5, <3>2
    <3>. QED
      BY <1>1, <2>1, <3>1, <3>2
  <2>. QED
    BY <2>6 DEF a
<1>. HIDE DEF h, t, s
<1>6. t(0) = 0 /\ t(n) = len
  BY <1>1, <1>2, <1>3
<1>7. \A i \in 0 .. n : t(i) \in Nat /\ t(i) <= h(i)
  BY <1>1, <1>2, <1>3
<1>8. ASSUME NEW i \in 1 .. n
      PROVE  /\ Passed(M, len, i) \in 0 .. s(i)
             /\ t(i) = t(i - 1) + Passed(M, len, i)
             /\ t(i - 1) = h(i - 1) \/ Passed(M, len, i) = 0
  <2>. DEFINE a == h(i - 1)
  <2>1. /\ a \in Nat /\ s(i) \in Nat /\ h(i) = a + s(i)
        /\ t(i) = IF h(i) <= len THEN h(i) ELSE len
        /\ t(i - 1) = IF a <= len THEN a ELSE len
    BY <1>2, <1>3, <1>4
  <2>2. Passed(M, len, i) = IF len <= a THEN 0 ELSE IF h(i) <= len THEN s(i) ELSE len - a
    BY <1>5
  <2>. HIDE DEF a
  <2>5. /\ Passed(M, len, i) \in 0 .. s(i) /\ t(i) = t(i - 1) + Passed(M, len, i)
        /\ t(i - 1) = a \/ Passed(M, len, i) = 0
    <3>1. CASE len <= a
      BY <1>1, <2>1, <2>2, <3>1
    <3>2. CASE len > a /\ h(i) <= len
      BY <1>1, <2>1, <2>2, <3>2
    <3>3. CASE len > a /\ h(i) > len
      BY <1>1, <2>1, <2>2, <3>3
    <3>. QED
      BY <1>1, <2>1, <3>1, <3>2, <3>3
  <2>. QED
    BY <2>5 DEF a
<1>. QED
  BY <1>6, <1>7, <1>8 DEF h, t, s

\* All blocks together give len.
LEMMA PassedSum ==
  ASSUME NEW M, Good(M), NEW len \in 0 .. M.data_size
  PROVE  SumFunctionOnSet([i \in DOMAIN M.blks |-> Passed(M, len, i)],
                          M.blk_deq .. Len(M.blks)) = len
<1>. DEFINE n == Len(M.blks)
            d == M.blk_deq
            f == [i \in DOMAIN M.blks |-> Passed(M, len, i)]
            h == [i \in 0 .. n |-> Taken(M, len, i)]
<1>1. n \in Nat /\ d \in 1 .. n /\ DOMAIN M.blks = 1 .. n
  BY DEF Good, Sound, Mbufs
<1>2. /\ Taken(M, len, 0) = 0 /\ Taken(M, len, n) = len
      /\ \A i \in 0 .. n : Taken(M, len, i) \in Nat /\ Taken(M, len, i) <= Held(M, i)
      /\ \A i \in 1 .. n : /\ Passed(M, len, i) \in 0 .. Len(M.blks[i].data)
                           /\ Taken(M, len, i) = Taken(M, len, i - 1) + Passed(M, len, i)
  BY TakenSteps
<1>3. f \in [1 .. n -> Int] /\ \A i \in 1 .. n : f[i] = Passed(M, len, i)
  BY <1>1, <1>2
<1>4. h \in [0 .. n -> Int] /\ h[0] = 0 /\ h[n] = len
  BY <1>1, <1>2
<1>5. ASSUME NEW i \in 1 .. n
      PROVE  h[i] = IF i \in d .. n THEN h[i - 1] + f[i] ELSE h[i - 1]
  <2>1. h[i] = Taken(M, len, i) /\ h[i - 1] = Taken(M, len, i - 1) /\ h[i] = h[i - 1] + f[i]
    BY <1>1, <1>2, <1>3
  <2>. HIDE DEF f, h
  <2>2. CASE i \in d .. n
    BY <2>1, <2>2
  <2>3. CASE ~(i \in d .. n)
    <3>1. i \in 0 .. d - 1 /\ i - 1 \in 0 .. d - 1 /\ i \in 0 .. n /\ i - 1 \in 0 .. n
      BY <1>1, <2>3
    <3>2. Held(M, i) = 0 /\ Held(M, i - 1) = 0
      BY <3>1, HeldBefore
    <3>3. Taken(M, len, i) = 0 /\ Taken(M, len, i - 1) = 0
      BY <1>2, <3>1, <3>2
    <3>. QED
      BY <2>1, <2>3, <3>3
  <2>. QED
    BY <2>2, <2>3
<1>6. Sums(h, f, d .. n, n)
  <2>. HIDE DEF h, f
  <2>. QED
    BY <1>4, <1>5 DEF Sums
<1>7. SumFunctionOnSet(f, d .. n) = h[n]
  <2>1. d .. n \in SUBSET (1 .. n)
    BY <1>1
  <2>. HIDE DEF h, f, d, n
  <2>. QED
    BY <1>1, <1>3, <1>6, <2>1, SumIs
<1>. QED
  BY <1>4, <1>7

\* A block without the first k of its bytes.
Without(blk, k) == [blk EXCEPT !.head = @ + k, !.data = SubSeq(@, k + 1, Len(@))]

\* It has its size and is not written past its end either.
LEMMA WithoutKeeps ==
  ASSUME NEW blk \in Block, NEW k \in 0 .. Len(blk.data)
  PROVE  /\ Without(blk, k) \in Block /\ Without(blk, k).size = blk.size
         /\ Without(blk, k).data = SubSeq(blk.data, k + 1, Len(blk.data))
         /\ Len(Without(blk, k).data) = Len(blk.data) - k
         /\ MBUF_BLK_CAP(Without(blk, k)) = MBUF_BLK_CAP(blk)
<1>. DEFINE data == SubSeq(blk.data, k + 1, Len(blk.data))
<1>1. blk.size \in Nat /\ blk.head \in Nat /\ blk.data \in Seq(Nat) /\ Len(blk.data) \in Nat
  <2>1. blk.size \in Nat /\ blk.head \in Nat /\ blk.data \in Seq(Nat)
    BY DEF Block
  <2>. QED
    BY <2>1
<1>2. data \in Seq(Nat) /\ Len(data) = Len(blk.data) - k
  BY <1>1, LastOnes
<1>3. Without(blk, k) = [blk EXCEPT !.head = blk.head + k, !.data = data]
  BY DEF Without
<1>. HIDE DEF data
<1>4. blk.head + k \in Nat
  BY <1>1
<1>5. /\ Without(blk, k) \in Block /\ Without(blk, k).size = blk.size
      /\ Without(blk, k).data = data /\ Without(blk, k).head = blk.head + k
  BY <1>2, <1>3, <1>4 DEF Block
<1>6. MBUF_BLK_CAP(Without(blk, k)) = MBUF_BLK_CAP(blk)
  BY <1>1, <1>2, <1>5 DEF MBUF_BLK_CAP
<1>. QED
  BY <1>2, <1>5, <1>6 DEF data

\* What mbuf_drain leaves of the list.
Drained(M, len) ==
    [i \in DOMAIN M.blks |-> IF i < M.blk_deq THEN M.blks[i]
                             ELSE Without(M.blks[i], Passed(M, len, i))]

\* Every block is left without what it gives.
LEMMA DrainedBlocks ==
  ASSUME NEW M, Good(M), NEW len \in 0 .. M.data_size, NEW blks, blks = Drained(M, len)
  PROVE  /\ blks \in Seq(Block) /\ Len(blks) = Len(M.blks)
         /\ \A i \in 1 .. Len(M.blks) :
              LET all == M.blks[i].data
              IN  /\ blks[i].size = M.blks[i].size
                  /\ blks[i].data = SubSeq(all, Passed(M, len, i) + 1, Len(all))
                  /\ MBUF_BLK_CAP(blks[i]) = MBUF_BLK_CAP(M.blks[i])
<1>1. /\ M.blks \in Seq(Block) /\ Len(M.blks) \in Nat /\ DOMAIN M.blks = 1 .. Len(M.blks)
      /\ M.blk_deq \in 1 .. Len(M.blks)
  BY DEF Good, Sound, Mbufs
<1>2. ASSUME NEW i \in 1 .. Len(M.blks)
      PROVE  LET all == M.blks[i].data
             IN  /\ blks[i] \in Block /\ blks[i].size = M.blks[i].size
                 /\ blks[i].data = SubSeq(all, Passed(M, len, i) + 1, Len(all))
                 /\ MBUF_BLK_CAP(blks[i]) = MBUF_BLK_CAP(M.blks[i])
  <2>. DEFINE blk == M.blks[i]
              k == Passed(M, len, i)
  <2>1. blk \in Block
    BY <1>1, ElementOfSeq
  <2>2. k \in 0 .. Len(blk.data)
    BY TakenSteps
  <2>3. blks[i] = IF i < M.blk_deq THEN blk ELSE Without(blk, k)
    BY <1>1 DEF Drained
  <2>4. M.blk_deq > i => blk.data = << >>
    BY <1>1 DEF Good
  <2>. HIDE DEF blk, k
  <2>5. CASE i < M.blk_deq
    <3>1. blk.data = << >>
      BY <1>1, <2>4, <2>5
    <3>2. Len(blk.data) = 0
      BY <3>1
    <3>3. k = 0
      BY <2>2, <3>2
    <3>4. SubSeq(blk.data, k + 1, Len(blk.data)) = << >>
      BY <3>1, <3>2, <3>3
    <3>5. blks[i] = blk
      BY <2>3, <2>5
    <3>. QED
      BY <2>1, <3>1, <3>4, <3>5 DEF blk, k
  <2>6. CASE ~(i < M.blk_deq)
    <3>1. blks[i] = Without(blk, k)
      BY <2>3, <2>6
    <3>2. /\ Without(blk, k) \in Block /\ Without(blk, k).size = blk.size
          /\ Without(blk, k).data = SubSeq(blk.data, k + 1, Len(blk.data))
          /\ MBUF_BLK_CAP(Without(blk, k)) = MBUF_BLK_CAP(blk)
      BY <2>1, <2>2, WithoutKeeps
    <3>. QED
      BY <3>1, <3>2 DEF blk, k
  <2>. QED
    BY <2>5, <2>6
<1>3. blks \in Seq(Block) /\ Len(blks) = Len(M.blks)
  <2>1. \A i \in 1 .. Len(M.blks) : blks[i] \in Block
    BY <1>2
  <2>2. blks = [i \in 1 .. Len(M.blks) |-> blks[i]]
    BY <1>1 DEF Drained
  <2>3. [i \in 1 .. Len(M.blks) |-> blks[i]] \in Seq(Block)
    BY <1>1, <2>1
  <2>4. Len([i \in 1 .. Len(M.blks) |-> blks[i]]) = Len(M.blks)
    BY <1>1
  <2>. QED
    BY <2>2, <2>3, <2>4
<1>. QED
  BY <1>2, <1>3

\* The first len bytes are gone, the others left in their order.
LEMMA DrainedBytes ==
  ASSUME NEW M, Good(M), NEW len \in 0 .. M.data_size, NEW blks, blks = Drained(M, len)
  PROVE  Bytes(blks) = SubSeq(Content(M), len + 1, M.data_size)
<1>. DEFINE n == Len(M.blks)
            P(i) == SubSeq(M.blks, 1, i)
            Q(i) == SubSeq(blks, 1, i)
            S == {i \in 0 .. n : Bytes(Q(i)) = SubSeq(Bytes(P(i)), Taken(M, len, i) + 1, Held(M, i))}
<1>1. M.blks \in Seq(Block) /\ n \in Nat /\ P(n) = M.blks /\ P(0) = << >>
  BY DEF Good, Sound, Mbufs
<1>2. blks \in Seq(Block) /\ Len(blks) = n
  BY DrainedBlocks
<1>3. Q(n) = blks /\ Q(0) = << >>
  BY <1>1, <1>2
<1>4. /\ Held(M, 0) = 0 /\ Held(M, n) = M.data_size
      /\ Taken(M, len, 0) = 0 /\ Taken(M, len, n) = len
  BY HeldSteps, TakenSteps
<1>5. 0 \in S
  <2>1. Bytes(P(0)) = << >> /\ Bytes(Q(0)) = << >>
    BY <1>1, <1>3, BytesOfNone
  <2>2. SubSeq(<< >>, 0 + 1, 0) = << >>
    OBVIOUS
  <2>. HIDE DEF P, Q
  <2>3. Bytes(Q(0)) = SubSeq(Bytes(P(0)), Taken(M, len, 0) + 1, Held(M, 0))
    BY <1>4, <2>1, <2>2
  <2>. QED
    BY <1>1, <2>3
<1>6. ASSUME NEW i \in 1 .. n, i - 1 \in S PROVE i \in S
  <2>. DEFINE p == Bytes(P(i - 1))
              q == M.blks[i].data
              a == Taken(M, len, i - 1)
              b == Passed(M, len, i)
  <2>1. i - 1 \in 0 .. n /\ i \in 0 .. n
    BY <1>1
  <2>2. /\ M.blks[i] \in Block /\ q \in Seq(Nat) /\ blks[i] \in Block
        /\ blks[i].data = SubSeq(q, b + 1, Len(q))
    <3>1. M.blks[i] \in Block /\ q \in Seq(Nat) /\ blks[i] \in Block
      BY <1>1, <1>2, ListTypes
    <3>2. blks[i].data = SubSeq(q, b + 1, Len(q))
      BY DrainedBlocks
    <3>. QED
      BY <3>1, <3>2
  <2>3. P(i - 1) \in Seq(Block) /\ P(i) = Append(P(i - 1), M.blks[i])
    BY <1>1, <2>1, FirstOnes, OneMore
  <2>4. Q(i - 1) \in Seq(Block) /\ Q(i) = Append(Q(i - 1), blks[i])
    BY <1>2, <2>1, FirstOnes, OneMore
  <2>5. Held(M, i - 1) = Len(p)
    BY DEF Held
  <2>6. /\ a \in Nat /\ a <= Len(p) /\ b \in 0 .. Len(q) /\ (a = Len(p) \/ b = 0)
        /\ Taken(M, len, i) = a + b /\ Held(M, i) = Len(p) + Len(q)
    BY <2>1, <2>5, TakenSteps, HeldSteps
  <2>7. Bytes(Q(i - 1)) = SubSeq(p, a + 1, Len(p))
    BY <1>6, <2>5
  <2>. HIDE DEF P, Q, q, a, b
  <2>8. p \in Seq(Nat) /\ Len(p) \in Nat
    <3>1. p \in Seq(Nat)
      BY <2>3, ListTypes
    <3>. QED
      BY <3>1
  <2>9. Bytes(P(i)) = p \o q
    BY <2>2, <2>3, BytesOfAppend DEF q
  <2>10. Bytes(Q(i)) = SubSeq(p, a + 1, Len(p)) \o SubSeq(q, b + 1, Len(q))
    BY <2>2, <2>4, <2>7, BytesOfAppend
  <2>. HIDE DEF p
  <2>11. SubSeq(p, a + 1, Len(p)) \o SubSeq(q, b + 1, Len(q))
           = SubSeq(p \o q, a + b + 1, Len(p) + Len(q))
    <3>1. a \in 0 .. Len(p)
      BY <2>6, <2>8
    <3>. QED
      BY <2>2, <2>6, <2>8, <3>1, PartsJoined
  <2>12. Bytes(Q(i)) = SubSeq(Bytes(P(i)), Taken(M, len, i) + 1, Held(M, i))
    BY <2>6, <2>9, <2>10, <2>11
  <2>. QED
    BY <2>1, <2>12
<1>7. n \in S
  <2>. HIDE DEF S
  <2>1. 0 .. n \subseteq S
    BY <1>1, <1>5, <1>6, UpTo
  <2>. QED
    BY <1>1, <2>1
<1>. HIDE DEF P, Q
<1>. QED
  BY <1>1, <1>3, <1>4, <1>7 DEF Content

\* Where reading goes on after len bytes: a block of the list, with nothing left
\* before it.
LEMMA NextPlace ==
  ASSUME NEW M, Good(M), NEW len \in 0 .. M.data_size, NEW e, e = NextToRead(M, len),
         NEW blks, blks = Drained(M, len)
  PROVE  /\ e \in 1 .. Len(M.blks)
         /\ \A i \in 1 .. e - 1 : blks[i].data = << >>
<1>. DEFINE n == Len(M.blks)
            d == M.blk_deq
            enough == {i \in d .. n : Through(M, i) >= len}
<1>1. /\ M.blks \in Seq(Block) /\ n \in Nat /\ d \in 1 .. n /\ M.data_size \in Nat
      /\ len \in Nat /\ len <= M.data_size
  <2>1. M.blks \in Seq(Block) /\ n \in Nat /\ d \in 1 .. n /\ M.data_size \in Nat
    BY DEF Good, Sound, Mbufs
  <2>. QED
    BY <2>1
<1>2. /\ Held(M, 0) = 0 /\ Held(M, n) = M.data_size /\ \A i \in 0 .. n : Held(M, i) \in Nat
      /\ \A i \in 1 .. n : /\ Len(M.blks[i].data) \in Nat
                           /\ Held(M, i) = Held(M, i - 1) + Len(M.blks[i].data)
  BY HeldSteps
<1>3. \A i \in 1 .. n : Through(M, i) = Held(M, i)
  <2>1. \A i \in 1 .. n : i \in 0 .. n
    BY <1>1
  <2>. QED
    BY <2>1, ThroughIs
<1>4. n \in enough
  BY <1>1, <1>2, <1>3
<1>5. PICK k \in enough : \A m \in enough : k <= m
  <2>1. enough \in SUBSET Nat /\ enough # {}
    BY <1>1, <1>4
  <2>. HIDE DEF enough
  <2>. QED
    BY <2>1, LeastNumber
<1>6. e = k
  <2>1. e = Min(enough)
    <3>1. enough # {}
      BY <1>4
    <3>. QED
      BY <3>1 DEF NextToRead
  <2>2. enough \in SUBSET Nat
    BY <1>1
  <2>. HIDE DEF enough
  <2>. QED
    BY <1>5, <2>1, <2>2, MinIs
<1>7. e \in d .. n /\ \A i \in d .. e - 1 : Held(M, i) < len
  <2>1. e \in d .. n
    BY <1>5, <1>6
  <2>2. ASSUME NEW i \in d .. e - 1 PROVE Held(M, i) < len
    <3>1. i \in 1 .. n /\ i \in 0 .. n /\ i \in d .. n /\ ~(e <= i)
      BY <1>1, <2>1
    <3>2. i \notin enough
      BY <1>5, <1>6, <3>1
    <3>3. Held(M, i) \in Nat /\ Through(M, i) = Held(M, i)
      BY <1>2, <1>3, <3>1
    <3>. QED
      BY <1>1, <3>1, <3>2, <3>3
  <2>. QED
    BY <2>1, <2>2
<1>8. ASSUME NEW i \in 1 .. e - 1 PROVE blks[i].data = << >>
  <2>. DEFINE all == M.blks[i].data
              b == Passed(M, len, i)
  <2>1. i \in 1 .. n /\ i \in 0 .. n /\ i - 1 \in 0 .. n
    BY <1>1, <1>7
  <2>2. blks[i].data = SubSeq(all, b + 1, Len(all))
    BY <2>1, DrainedBlocks
  <2>3. all \in Seq(Nat) /\ Len(all) \in Nat
    BY <1>1, <1>2, <2>1, ListTypes
  <2>4. b = Len(all)
    <3>1. CASE i < d
      <4>1. all = << >>
        <5>1. i \in 1 .. d - 1
          BY <1>1, <2>1, <3>1
        <5>. QED
          BY <5>1 DEF Good
      <4>2. b \in 0 .. Len(all) /\ Len(all) = 0
        BY <2>1, <4>1, TakenSteps
      <4>. QED
        BY <4>2
    <3>2. CASE ~(i < d)
      <4>1. i \in d .. e - 1
        BY <1>1, <1>7, <2>1, <3>2
      <4>2. /\ Held(M, i) < len /\ Held(M, i) = Held(M, i - 1) + Len(all)
            /\ Held(M, i) \in Nat /\ Held(M, i - 1) \in Nat
        BY <1>2, <1>7, <2>1, <4>1
      <4>3. Taken(M, len, i) = Taken(M, len, i - 1) + b /\ b \in 0 .. Len(all)
        BY <2>1, TakenSteps
      <4>. HIDE DEF b, all
      <4>4. Taken(M, len, i) = Held(M, i) /\ Taken(M, len, i - 1) = Held(M, i - 1)
        BY <1>1, <2>3, <4>2 DEF Taken
      <4>. QED
        BY <2>3, <4>2, <4>3, <4>4
    <3>. QED
      BY <3>1, <3>2
  <2>. HIDE DEF b, all
  <2>5. SubSeq(all, b + 1, Len(all)) = << >>
    <3>1. b + 1 \in Int /\ Len(all) \in Int /\ Len(all) < b + 1
      BY <2>3, <2>4
    <3>. QED
      BY <3>1, SubSeqEmpty
  <2>. QED
    BY <2>2, <2>5
<1>. QED
  BY <1>1, <1>7, <1>8

\* mbuf_drain takes the first len bytes.
LEMMA DrainGood ==
  ASSUME NEW M, Good(M), NEW len \in 0 .. M.data_size, NEW N, N = mbuf_drain(M, len)
  PROVE  Good(N) /\ Content(N) = SubSeq(Content(M), len + 1, Len(Content(M)))
<1>. DEFINE n == Len(M.blks)
            blks == Drained(M, len)
            e == NextToRead(M, len)
            left == SubSeq(Content(M), len + 1, M.data_size)
<1>1. /\ M \in Mbufs /\ M.blks \in Seq(Block) /\ n \in Nat /\ M.data_size \in Nat
      /\ M.data_size = Len(Content(M)) /\ M.alloc_size = Space(M.blks)
      /\ M.blk_enq = n
      /\ len \in Nat /\ len <= M.data_size
  <2>1. /\ M \in Mbufs /\ M.blks \in Seq(Block) /\ n \in Nat /\ M.data_size \in Nat
        /\ M.data_size = Len(Content(M)) /\ M.alloc_size = Space(M.blks)
        /\ M.blk_enq = n
    BY DEF Good, Sound, Mbufs
  <2>. QED
    BY <2>1
<1>2. N = [M EXCEPT !.blks = blks, !.data_size = M.data_size - len, !.blk_deq = e]
  <2>1. SumFunctionOnSet([i \in DOMAIN M.blks |-> Passed(M, len, i)],
                         M.blk_deq .. Len(M.blks)) = len
    BY PassedSum
  <2>. QED
    BY <2>1 DEF mbuf_drain, Drained, Without
<1>3. /\ blks \in Seq(Block) /\ Len(blks) = n
      /\ \A i \in 1 .. n : /\ blks[i].size = M.blks[i].size
                           /\ MBUF_BLK_CAP(blks[i]) = MBUF_BLK_CAP(M.blks[i])
  BY DrainedBlocks
<1>4. Bytes(blks) = left
  BY DrainedBytes
<1>5. e \in 1 .. n /\ \A i \in 1 .. e - 1 : blks[i].data = << >>
  BY NextPlace
<1>6. Len(left) = M.data_size - len
  <2>1. Content(M) \in Seq(Nat)
    BY <1>1, ListTypes DEF Content
  <2>2. len \in 0 .. Len(Content(M))
    BY <1>1
  <2>3. Len(SubSeq(Content(M), len + 1, Len(Content(M)))) = Len(Content(M)) - len
    BY <2>1, <2>2, LastOnes
  <2>. QED
    BY <1>1, <2>3
<1>. HIDE DEF blks, e, left
<1>7. /\ N \in Mbufs /\ N.blks = blks /\ N.data_size = M.data_size - len /\ N.blk_deq = e
      /\ N.blk_enq = M.blk_enq /\ N.alloc_size = M.alloc_size
  <2>1. M.data_size - len \in Nat /\ e \in Nat
    BY <1>1, <1>5
  <2>. QED
    BY <1>1, <1>2, <1>3, <2>1 DEF Mbufs
<1>8. Content(N) = left /\ N.data_size = Len(Content(N))
  BY <1>4, <1>6, <1>7 DEF Content
<1>9. Space(N.blks) = Space(M.blks)
  BY <1>1, <1>3, <1>7, SpaceSame
<1>10. \A i \in 1 .. n : MBUF_BLK_CAP(blks[i]) >= 0
  BY <1>3 DEF Good, Sound
<1>11. Sound(N)
  BY <1>1, <1>3, <1>7, <1>8, <1>9, <1>10 DEF Sound
<1>12. Good(N)
  BY <1>1, <1>3, <1>5, <1>7, <1>11 DEF Good
<1>. QED
  BY <1>1, <1>8, <1>12 DEF left

-----------------------------------------------------------------------------
(* The mbuf of the specification *)

\* The bytes written are a sequence of that many numbers.
LEMMA NewTypes ==
  ASSUME fed \in Nat, NEW len \in Nat
  PROVE  New(len) \in Seq(Nat) /\ Len(New(len)) = len
BY DEF New

\* The inductive invariant.
MbufInv == Good(mbuf) /\ fed \in Nat

\* mbuf_init gives an empty queue.
LEMMA InitInv == Init => MbufInv /\ Content(mbuf) = << >> /\ fed = 0
<1>1. SUFFICES ASSUME Init PROVE MbufInv /\ Content(mbuf) = << >> /\ fed = 0
  OBVIOUS
<1>2. BlkSize \in Nat
  BY MbufAssumption
<1>3. Good(mbuf) /\ Content(mbuf) = << >>
  BY <1>1, <1>2, InitGood DEF Init
<1>. QED
  BY <1>1, <1>3 DEF Init, MbufInv

\* Each step keeps the invariant and does to the bytes what one of the queue's does:
\* mbuf_enq and mbuf_enq_span put them in.
LEMMA EnqueueStep ==
  ASSUME MbufInv, Enqueue
  PROVE  MbufInv' /\ Queue!Put
<1>1. PICK len \in Lengths :
        /\ mbuf' \in {MBUF_ALLOC(mbuf, New(len)), mbuf_enq_span(mbuf, New(len))}
        /\ fed' = fed + len
  BY DEF Enqueue
<1>2. len \in Nat \ {0} /\ fed \in Nat
  BY MbufAssumption DEF MbufInv
<1>3. New(len) \in Seq(Nat)
  BY <1>2, NewTypes
<1>4. Good(mbuf') /\ Content(mbuf') = Content(mbuf) \o New(len)
  <2>1. CASE mbuf' = MBUF_ALLOC(mbuf, New(len))
    BY <1>3, <2>1, AllocGood DEF MbufInv
  <2>2. CASE mbuf' = mbuf_enq_span(mbuf, New(len))
    BY <1>3, <2>2, SpanGood DEF MbufInv
  <2>. QED
    BY <1>1, <2>1, <2>2
<1>5. fed' \in Nat /\ fed' > fed /\ fed' - fed = len
  BY <1>1, <1>2
<1>6. Content(mbuf)' = Content(mbuf) \o [i \in 1 .. fed' - fed |-> fed + i]
  BY <1>4, <1>5 DEF New, Content
<1>. QED
  BY <1>4, <1>5, <1>6 DEF MbufInv, Queue!Put, Good, Sound, Content

\* A drain of nothing takes nothing.
LEMMA DrainStep ==
  ASSUME MbufInv, Drain
  PROVE  MbufInv' /\ (Queue!Take \/ UNCHANGED << Content(mbuf), fed >>)
<1>1. PICK len \in 0 .. mbuf.data_size : mbuf' = mbuf_drain(mbuf, len) /\ fed' = fed
  BY DEF Drain
<1>2. /\ mbuf.data_size = Len(Content(mbuf)) /\ Content(mbuf) \in Seq(Nat)
      /\ Len(Content(mbuf)) \in Nat
  <2>1. mbuf.blks \in Seq(Block) /\ mbuf.data_size = Len(Content(mbuf))
    BY DEF MbufInv, Good, Sound, Mbufs
  <2>. QED
    BY <2>1, ListTypes DEF Content
<1>3. Good(mbuf') /\ Content(mbuf') = SubSeq(Content(mbuf), len + 1, Len(Content(mbuf)))
  BY <1>1, DrainGood DEF MbufInv
<1>4. CASE len = 0
  <2>1. SubSeq(Content(mbuf), 1, Len(Content(mbuf))) = Content(mbuf)
    BY <1>2, SubSeqFull
  <2>2. Content(mbuf') = Content(mbuf)
    BY <1>3, <1>4, <2>1
  <2>. QED
    BY <1>1, <1>3, <2>2 DEF MbufInv, Content
<1>5. CASE len # 0
  <2>1. len \in 1 .. Len(Content(mbuf))
    BY <1>2, <1>5
  <2>2. Queue!Take
    BY <1>1, <1>3, <2>1 DEF Queue!Take, Content
  <2>. QED
    BY <1>1, <1>3, <2>2 DEF MbufInv
<1>. QED
  BY <1>4, <1>5

\* A pullup moves the bytes and changes none.
LEMMA PullupStep ==
  ASSUME MbufInv, Pullup
  PROVE  MbufInv' /\ UNCHANGED << Content(mbuf), fed >>
<1>1. Good(mbuf') /\ Content(mbuf') = Content(mbuf)
  BY PullupGood DEF Pullup, MbufInv
<1>. QED
  BY <1>1 DEF Pullup, MbufInv, Content

\* A reset empties the queue.
LEMMA ResetStep ==
  ASSUME MbufInv, Reset
  PROVE  MbufInv' /\ Queue!Clear
<1>1. PICK size \in ResetSizes : mbuf' = mbuf_reset(mbuf, size) /\ fed' = fed
  BY DEF Reset
<1>2. size \in Nat
  BY MbufAssumption
<1>3. Good(mbuf') /\ Content(mbuf') = << >>
  BY <1>1, <1>2, ResetGood DEF MbufInv
<1>. QED
  BY <1>1, <1>3 DEF MbufInv, Queue!Clear, Content

\* The steps together.
LEMMA MbufStep ==
  ASSUME MbufInv, [Next]_vars
  PROVE  MbufInv' /\ [Queue!Put \/ Queue!Take \/ Queue!Clear]_(Queue!queueVars)
<1>1. CASE Enqueue
  BY <1>1, EnqueueStep
<1>2. CASE Drain
  BY <1>2, DrainStep DEF Queue!queueVars
<1>3. CASE Pullup
  BY <1>3, PullupStep DEF Queue!queueVars
<1>4. CASE Reset
  BY <1>4, ResetStep
<1>5. CASE UNCHANGED vars
  BY <1>5 DEF vars, MbufInv, Queue!queueVars, Content, Good, Sound
<1>. QED
  BY <1>1, <1>2, <1>3, <1>4, <1>5 DEF Next

\* So the invariant holds.
LEMMA MbufInvariance == Spec => []MbufInv
<1>1. Init => MbufInv
  BY InitInv
<1>2. MbufInv /\ [Next]_vars => MbufInv'
  BY MbufStep
<1>. QED
  BY <1>1, <1>2, PTL DEF Spec

\* The mbuf has the type of its fields, and its blocks theirs.
THEOREM MbufTypeCorrect == Spec => []TypeOK
<1>1. MbufInv => TypeOK
  BY DEF MbufInv, Good, Sound, Mbufs, TypeOK
<1>. QED
  BY <1>1, MbufInvariance, PTL

\* The places and counters of the list agree with its blocks after every call,
\* whatever the sizes: mbuf.c's assertions hold, mbuf_deq never reads through NULL,
\* no block is written past its end, and mbuf_pullup's one block holds everything.
THEOREM MbufConsistent == Spec => []Consistent
<1>1. MbufInv => Consistent
  <2>1. SUFFICES ASSUME MbufInv PROVE Consistent
    OBVIOUS
  <2>2. mbuf.blks \in Seq(Block)
    BY <2>1 DEF MbufInv, Good, Sound, Mbufs
  <2>3. DOMAIN mbuf.blks = 1 .. Len(mbuf.blks)
    BY <2>2
  <2>. QED
    BY <2>1, <2>3 DEF MbufInv, Good, Sound, Consistent, PlacesInList
<1>. QED
  BY <1>1, MbufInvariance, PTL

\* Bytes come out of an mbuf in the order they went in, each once, whatever blocks
\* they lie in: an mbuf is a ByteQueue.
THEOREM MbufIsAQueue == Spec => ImplementsQueue
<1>1. Init => Queue!QueueInit
  BY InitInv DEF Queue!QueueInit
<1>2. MbufInv /\ [Next]_vars => [Queue!Put \/ Queue!Take \/ Queue!Clear]_(Queue!queueVars)
  BY MbufStep
<1>. QED
  BY <1>1, <1>2, MbufInvariance, PTL DEF Spec, ImplementsQueue, Queue!QueueSpec
=============================================================================
