---------------------------- MODULE RdtInputProofs ----------------------------
(***************************************************************************)
(* For all bases, offsets, lengths and numbers of packets: what            *)
(* parse_header reads is what was encoded, and rdts_input calls the        *)
(* handlers for the packets of the connection, in order and once each,     *)
(* however they are grouped and cut.                                       *)
(***************************************************************************)
EXTENDS RdtInput, FoldLemmas

-----------------------------------------------------------------------------
(* Numbers *)

\* The next place of a number.
LEMMA NextPlace ==
  ASSUME NEW a \in Nat \ {0}, NEW b \in Nat, b >= 2
  PROVE  a * b \in Nat \ {0} /\ a < a * b
OBVIOUS

\* The places of the bytes of a number.
LEMMA Places ==
  ASSUME InputAssumption
  PROVE  /\ Base \in Nat /\ Base >= 2 /\ Base <= 256
         /\ \A i \in 1 .. 9 : Place[i] \in Nat \ {0}
         /\ Place[1] = 1 /\ Place[2] = Base
         /\ \A i \in 1 .. 8 : Place[i + 1] = Place[i] * Base /\ Place[i] < Place[i + 1]
<1>. DEFINE b2 == Base * Base
            b3 == b2 * Base
            b4 == b3 * Base
            b5 == b4 * Base
            b6 == b5 * Base
            b7 == b6 * Base
            b8 == b7 * Base
<1>1. Base \in Nat \ {0} /\ Base \in Nat /\ Base >= 2 /\ Base <= 256
  BY DEF InputAssumption
<1>2. Place = << 1, Base, b2, b3, b4, b5, b6, b7, b8 >>
  BY DEF Place
<1>3. b2 = Base * Base /\ b3 = b2 * Base /\ b4 = b3 * Base /\ b5 = b4 * Base
      /\ b6 = b5 * Base /\ b7 = b6 * Base /\ b8 = b7 * Base /\ Base = 1 * Base
  BY <1>1
<1>4. /\ b2 \in Nat \ {0} /\ Base < b2 /\ b3 \in Nat \ {0} /\ b2 < b3
      /\ b4 \in Nat \ {0} /\ b3 < b4 /\ b5 \in Nat \ {0} /\ b4 < b5
  <2>. HIDE DEF b2, b3, b4, b5
  <2>1. b2 \in Nat \ {0} /\ Base < b2
    BY <1>1, <1>3, NextPlace
  <2>2. b3 \in Nat \ {0} /\ b2 < b3
    BY <1>1, <1>3, <2>1, NextPlace
  <2>3. b4 \in Nat \ {0} /\ b3 < b4
    BY <1>1, <1>3, <2>2, NextPlace
  <2>4. b5 \in Nat \ {0} /\ b4 < b5
    BY <1>1, <1>3, <2>3, NextPlace
  <2>. QED
    BY <2>1, <2>2, <2>3, <2>4
<1>5. /\ b6 \in Nat \ {0} /\ b5 < b6 /\ b7 \in Nat \ {0} /\ b6 < b7
      /\ b8 \in Nat \ {0} /\ b7 < b8
  <2>. HIDE DEF b2, b3, b4, b5, b6, b7, b8
  <2>1. b6 \in Nat \ {0} /\ b5 < b6
    BY <1>1, <1>3, <1>4, NextPlace
  <2>2. b7 \in Nat \ {0} /\ b6 < b7
    BY <1>1, <1>3, <2>1, NextPlace
  <2>3. b8 \in Nat \ {0} /\ b7 < b8
    BY <1>1, <1>3, <2>2, NextPlace
  <2>. QED
    BY <2>1, <2>2, <2>3
<1>. HIDE DEF b2, b3, b4, b5, b6, b7, b8
<1>6. /\ Place[1] = 1 /\ Place[2] = Base /\ Place[3] = b2 /\ Place[4] = b3 /\ Place[5] = b4
      /\ Place[6] = b5 /\ Place[7] = b6 /\ Place[8] = b7 /\ Place[9] = b8
  BY <1>2
<1>7. ASSUME NEW i \in 1 .. 9 PROVE Place[i] \in Nat \ {0}
  <2>1. i = 1 \/ i = 2 \/ i = 3 \/ i = 4 \/ i = 5 \/ i = 6 \/ i = 7 \/ i = 8 \/ i = 9
    OBVIOUS
  <2>. QED
    BY <1>1, <1>4, <1>5, <1>6, <2>1
<1>8. ASSUME NEW i \in 1 .. 8
      PROVE  Place[i + 1] = Place[i] * Base /\ Place[i] < Place[i + 1]
  <2>1. \/ (i = 1 /\ i + 1 = 2) \/ (i = 2 /\ i + 1 = 3) \/ (i = 3 /\ i + 1 = 4)
        \/ (i = 4 /\ i + 1 = 5) \/ (i = 5 /\ i + 1 = 6) \/ (i = 6 /\ i + 1 = 7)
        \/ (i = 7 /\ i + 1 = 8) \/ (i = 8 /\ i + 1 = 9)
    OBVIOUS
  <2>2. 1 < Base
    BY <1>1
  <2>3. /\ Place[2] = Place[1] * Base /\ Place[1] < Place[2]
        /\ Place[3] = Place[2] * Base /\ Place[2] < Place[3]
        /\ Place[4] = Place[3] * Base /\ Place[3] < Place[4]
        /\ Place[5] = Place[4] * Base /\ Place[4] < Place[5]
    BY <1>3, <1>4, <1>6, <2>2
  <2>4. /\ Place[6] = Place[5] * Base /\ Place[5] < Place[6]
        /\ Place[7] = Place[6] * Base /\ Place[6] < Place[7]
        /\ Place[8] = Place[7] * Base /\ Place[7] < Place[8]
        /\ Place[9] = Place[8] * Base /\ Place[8] < Place[9]
    BY <1>3, <1>5, <1>6
  <2>. QED
    BY <2>1, <2>3, <2>4, Zenon
<1>. QED
  BY <1>1, <1>6, <1>7, <1>8

\* A number divided, and what is left.
LEMMA Divided ==
  ASSUME NEW n \in Nat, NEW b \in Nat \ {0}
  PROVE  /\ n \div b \in Nat /\ n % b \in 0 .. b - 1
         /\ n = b * (n \div b) + (n % b)
OBVIOUS

\* There is one quotient.
LEMMA OneQuotient ==
  ASSUME NEW b \in Nat \ {0}, NEW q \in Nat, NEW x \in 0 .. b - 1, NEW u \in Nat, NEW y \in 0 .. b - 1,
         b * q + x = b * u + y
  PROVE  q = u /\ x = y
OBVIOUS

\* Dividing by one place and the next is dividing by both.
LEMMA DividedTwice ==
  ASSUME NEW n \in Nat, NEW p \in Nat \ {0}, NEW b \in Nat \ {0}
  PROVE  n \div (p * b) = (n \div p) \div b
<1>. DEFINE q == n \div p
            x == n % p
            u == q \div b
            d == q % b
            pb == p * b
            v == n \div pb
            y == n % pb
            z == p * d + x
<1>1. q \in Nat /\ x \in 0 .. p - 1 /\ n = p * q + x
  BY Divided
<1>2. u \in Nat /\ d \in 0 .. b - 1 /\ q = b * u + d
  <2>. HIDE DEF q
  <2>. QED
    BY <1>1, Divided
<1>3. pb \in Nat \ {0} /\ pb = p * b
  OBVIOUS
<1>4. v \in Nat /\ y \in 0 .. pb - 1 /\ n = pb * v + y
  <2>. HIDE DEF pb
  <2>. QED
    BY <1>3, Divided
<1>. HIDE DEF q, x, u, d, pb, v, y
<1>5. n = pb * u + z
  <2>1. p * q = p * (b * u) + p * d
    BY <1>1, <1>2
  <2>2. p * (b * u) = pb * u
    BY <1>2, <1>3
  <2>. QED
    BY <1>1, <1>2, <2>1, <2>2
<1>6. z \in 0 .. pb - 1
  <2>1. d + 1 \in Nat /\ d + 1 <= b /\ d \in Nat /\ b \in Nat /\ p \in Nat
    BY <1>2
  <2>2. p * (d + 1) <= pb /\ p * (d + 1) = p * d + p /\ p * d \in Nat
    BY <1>3, <2>1
  <2>. QED
    BY <1>1, <1>3, <2>1, <2>2
<1>. HIDE DEF z
<1>7. v = u
  BY <1>2, <1>3, <1>4, <1>5, <1>6, OneQuotient
<1>. QED
  BY <1>7 DEF q, u, v, pb

\* What is left of a number grows by its next digit.
LEMMA RestGrows ==
  ASSUME NEW n \in Nat, NEW p \in Nat \ {0}, NEW b \in Nat \ {0}
  PROVE  n % (p * b) = (n % p) + ((n \div p) % b) * p
<1>. DEFINE q == n \div p
            x == n % p
            u == q \div b
            d == q % b
            pb == p * b
            y == n % pb
            v == n \div pb
<1>1. q \in Nat /\ x \in 0 .. p - 1 /\ n = p * q + x
  BY Divided
<1>2. u \in Nat /\ d \in 0 .. b - 1 /\ q = b * u + d
  <2>. HIDE DEF q
  <2>. QED
    BY <1>1, Divided
<1>3. pb \in Nat \ {0} /\ pb = p * b
  OBVIOUS
<1>4. y \in 0 .. pb - 1 /\ n = pb * v + y
  <2>. HIDE DEF pb
  <2>. QED
    BY <1>3, Divided
<1>5. v = u
  BY DividedTwice
<1>. HIDE DEF q, x, u, d, pb, v, y
<1>6. y = x + d * p
  <2>1. p * q = p * (b * u) + d * p
    BY <1>1, <1>2
  <2>2. p * (b * u) = pb * u
    BY <1>2, <1>3
  <2>. QED
    BY <1>1, <1>2, <1>3, <1>4, <1>5, <2>1, <2>2
<1>. QED
  BY <1>6 DEF y, x, d, q, pb

\* ReadNumber reads what mbuf_push_number wrote, if all its bytes are there.
LEMMA ReadBack ==
  ASSUME InputAssumption, NEW w \in 0 .. 8, NEW n \in Nat, n < Place[w + 1], NEW p, NEW k \in Nat,
         \A i \in 1 .. w : p[k + i] = (n \div Place[i]) % Base
  PROVE  ReadNumber(p, k, w) = n
<1>. DEFINE f == [i \in 1 .. w |-> p[k + i] * Place[i]]
            h == [i \in 0 .. w |-> n % Place[i + 1]]
<1>1. /\ w \in Nat /\ \A i \in 1 .. w : i \in 1 .. 8 /\ i \in 1 .. 9
      /\ \A i \in 0 .. w : i + 1 \in 1 .. 9
  OBVIOUS
<1>2. \A i \in 1 .. 9 : Place[i] \in Nat \ {0}
  BY Places
<1>3. Base \in Nat \ {0}
  BY Places
<1>4. ASSUME NEW i \in 1 .. w
      PROVE  /\ n % Place[i + 1] = (n % Place[i]) + ((n \div Place[i]) % Base) * Place[i]
             /\ p[k + i] * Place[i] \in Int
             /\ f[i] = ((n \div Place[i]) % Base) * Place[i]
  <2>1. Place[i] \in Nat \ {0} /\ Place[i + 1] = Place[i] * Base
    BY <1>1, Places
  <2>. DEFINE P == Place[i]
              d == (n \div P) % Base
  <2>2. d \in 0 .. Base - 1
    <3>1. n \div P \in Nat
      BY <2>1, Divided
    <3>. QED
      BY <1>3, <3>1, Divided
  <2>3. n % (P * Base) = (n % P) + d * P
    <3>. HIDE DEF P
    <3>1. P \in Nat \ {0}
      BY <2>1 DEF P
    <3>. QED
      BY <1>3, <3>1, RestGrows
  <2>4. p[k + i] = d
    OBVIOUS
  <2>5. d * P \in Int
    <3>. HIDE DEF d
    <3>. QED
      BY <2>1, <2>2
  <2>. QED
    BY <2>1, <2>3, <2>4, <2>5
<1>5. f \in [1 .. w -> Int]
  BY <1>4
<1>6. ASSUME NEW i \in 0 .. w PROVE n % Place[i + 1] \in Int
  <2>. DEFINE P == Place[i + 1]
  <2>1. P \in Nat \ {0}
    BY <1>1, <1>2
  <2>. HIDE DEF P
  <2>2. n % P \in Int
    BY <2>1
  <2>. QED
    BY <2>2 DEF P
<1>7. Sums(h, f, 1 .. w, w)
  <2>1. h \in [0 .. w -> Int]
    BY <1>6
  <2>2. h[0] = 0
    <3>1. h[0] = n % Place[0 + 1]
      BY <1>1
    <3>2. Place[0 + 1] = 1 /\ n % 1 = 0
      BY Places
    <3>. QED
      BY <3>1, <3>2
  <2>3. ASSUME NEW i \in 1 .. w PROVE h[i] = h[i - 1] + f[i]
    <3>1. h[i] = n % Place[i + 1] /\ h[i - 1] = n % Place[i]
      <4>1. i \in 0 .. w /\ i - 1 \in 0 .. w /\ i - 1 + 1 = i
        OBVIOUS
      <4>. QED
        BY <4>1
    <3>. HIDE DEF h, f
    <3>. QED
      BY <1>4, <3>1
  <2>. HIDE DEF h, f
  <2>. QED
    BY <2>1, <2>2, <2>3 DEF Sums
<1>8. SumFunctionOnSet(f, 1 .. w) = h[w]
  <2>. HIDE DEF h, f
  <2>1. 1 .. w \in SUBSET (1 .. w)
    OBVIOUS
  <2>. QED
    BY <1>1, <1>5, <1>7, <2>1, SumIs
<1>9. h[w] = n % Place[w + 1] /\ n % Place[w + 1] = n
  <2>1. h[w] = n % Place[w + 1]
    BY <1>1
  <2>. DEFINE P == Place[w + 1]
  <2>2. P \in Nat \ {0} /\ n < P
    BY <1>1, <1>2
  <2>. HIDE DEF P
  <2>3. n % P = n
    BY <2>2
  <2>. QED
    BY <2>1, <2>3 DEF P
<1>. QED
  BY <1>8, <1>9 DEF ReadNumber

\* No bytes make 0.
LEMMA ReadNone ==
  ASSUME InputAssumption, NEW p, NEW k \in Nat
  PROVE  ReadNumber(p, k, 0) = 0
<1>1. 0 < Place[0 + 1]
  BY Places
<1>. QED
  BY <1>1, ReadBack

\* Any bytes make a number.
LEMMA ReadType ==
  ASSUME InputAssumption, NEW w \in 0 .. 8, NEW p, NEW k \in Nat,
         \A i \in 1 .. w : p[k + i] \in Int
  PROVE  ReadNumber(p, k, w) \in Int
<1>. DEFINE f == [i \in 1 .. w |-> p[k + i] * Place[i]]
<1>1. ASSUME NEW i \in 1 .. w PROVE p[k + i] * Place[i] \in Int
  <2>1. Place[i] \in Nat
    <3>1. i \in 1 .. 9
      OBVIOUS
    <3>. QED
      BY <3>1, Places
  <2>2. p[k + i] \in Int
    OBVIOUS
  <2>. QED
    BY <2>1, <2>2
<1>2. f \in [1 .. w -> Int]
  BY <1>1
<1>3. w \in Nat /\ 1 .. w \in SUBSET (1 .. w)
  OBVIOUS
<1>. HIDE DEF f
<1>4. PICK h : Sums(h, f, 1 .. w, w)
  BY <1>2, <1>3, SumsExist
<1>5. h[w] \in Int
  BY <1>3, <1>4 DEF Sums
<1>6. SumFunctionOnSet(f, 1 .. w) = h[w]
  BY <1>2, <1>3, <1>4, SumIs
<1>. QED
  BY <1>5, <1>6 DEF ReadNumber, f

-----------------------------------------------------------------------------
(* Packets *)

\* A digit of a number, and the bytes of all numbers of a width.
Digit(n, i) == (n \div Place[i]) % Base

\* The number of bytes fits the number, and a size code that is not 0 says it.
LEMMA NumberWidths ==
  ASSUME InputAssumption, NEW n \in 0 .. UINT64_MAX
  PROVE  /\ NumberWidth(n) \in {1, 2, 4, 8} /\ n < Place[NumberWidth(n) + 1]
         /\ n > 0 => SizeCode(n) \in 1 .. 4 /\ Width[SizeCode(n)] = NumberWidth(n)
<1>. DEFINE c == Place[2]
            s == Place[3]
            u == Place[5]
            m == Place[9]
<1>1. /\ c \in Nat /\ s \in Nat /\ u \in Nat /\ m \in Nat /\ 1 < c /\ c < s /\ s < u /\ u < m
  <2>1. \A i \in 1 .. 9 : Place[i] \in Nat
    BY Places
  <2>2. \A i \in 1 .. 8 : Place[i] < Place[i + 1]
    BY Places
  <2>3. /\ Place[1] < Place[2] /\ Place[2] < Place[3] /\ Place[3] < Place[4] /\ Place[4] < Place[5]
        /\ Place[5] < Place[6] /\ Place[6] < Place[7] /\ Place[7] < Place[8] /\ Place[8] < Place[9]
    <3>1. /\ Place[1] < Place[1 + 1] /\ Place[2] < Place[2 + 1] /\ Place[3] < Place[3 + 1]
          /\ Place[4] < Place[4 + 1] /\ Place[5] < Place[5 + 1] /\ Place[6] < Place[6 + 1]
          /\ Place[7] < Place[7 + 1] /\ Place[8] < Place[8 + 1]
      BY <2>2
    <3>. QED
      BY <3>1
  <2>4. /\ Place[1] \in Nat /\ Place[2] \in Nat /\ Place[3] \in Nat /\ Place[4] \in Nat
        /\ Place[5] \in Nat /\ Place[6] \in Nat /\ Place[7] \in Nat /\ Place[8] \in Nat
        /\ Place[9] \in Nat /\ Place[1] = 1
    BY <2>1, Places
  <2>. QED
    BY <2>3, <2>4
<1>2. UCHAR_MAX = c - 1 /\ USHRT_MAX = s - 1 /\ UINT_MAX = u - 1 /\ UINT64_MAX = m - 1
  BY DEF UCHAR_MAX, USHRT_MAX, UINT_MAX, UINT64_MAX
<1>. HIDE DEF c, s, u, m
<1>3. n \in Nat /\ n < m
  BY <1>1, <1>2
<1>4. Width[1] = 1 /\ Width[2] = 2 /\ Width[3] = 4 /\ Width[4] = 8
  BY DEF Width
<1>5. CASE n < c
  <2>1. NumberWidth(n) = 1
    BY <1>1, <1>2, <1>3, <1>5 DEF NumberWidth
  <2>2. n > 0 => SizeCode(n) = 1
    BY <1>1, <1>2, <1>3, <1>5 DEF SizeCode
  <2>. QED
    BY <1>4, <1>5, <2>1, <2>2 DEF c
<1>6. CASE c <= n /\ n < s
  <2>1. NumberWidth(n) = 2
    BY <1>1, <1>2, <1>3, <1>6 DEF NumberWidth
  <2>2. SizeCode(n) = 2
    BY <1>1, <1>2, <1>3, <1>6 DEF SizeCode
  <2>. QED
    BY <1>4, <1>6, <2>1, <2>2 DEF s
<1>7. CASE s <= n /\ n < u
  <2>1. NumberWidth(n) = 4
    BY <1>1, <1>2, <1>3, <1>7 DEF NumberWidth
  <2>2. SizeCode(n) = 3
    BY <1>1, <1>2, <1>3, <1>7 DEF SizeCode
  <2>. QED
    BY <1>4, <1>7, <2>1, <2>2 DEF u
<1>8. CASE u <= n
  <2>1. NumberWidth(n) = 8
    BY <1>1, <1>2, <1>3, <1>8 DEF NumberWidth
  <2>2. SizeCode(n) = 4
    BY <1>1, <1>2, <1>3, <1>8 DEF SizeCode
  <2>. QED
    BY <1>3, <1>4, <1>8, <2>1, <2>2 DEF m
<1>. QED
  BY <1>1, <1>3, <1>5, <1>6, <1>7, <1>8

\* No number, no size.
LEMMA NoSize ==
  ASSUME InputAssumption
  PROVE  SizeCode(0) = 0 /\ NumberWidth(0) = 1
<1>1. Place[2] \in Nat \ {0} /\ Place[3] \in Nat \ {0} /\ Place[5] \in Nat \ {0}
  BY Places
<1>2. UCHAR_MAX \in Nat /\ USHRT_MAX \in Nat /\ UINT_MAX \in Nat
  BY <1>1 DEF UCHAR_MAX, USHRT_MAX, UINT_MAX
<1>3. 0 \notin 1 .. UCHAR_MAX /\ 0 \notin UCHAR_MAX + 1 .. USHRT_MAX /\ 0 \notin USHRT_MAX + 1 .. UINT_MAX
  BY <1>2
<1>. QED
  BY <1>2, <1>3 DEF SizeCode, NumberWidth

\* The bytes of a number.
LEMMA NumberBytes ==
  ASSUME InputAssumption, NEW n \in 0 .. UINT64_MAX
  PROVE  /\ mbuf_push_number(n) \in Seq(Byte) /\ Len(mbuf_push_number(n)) = NumberWidth(n)
         /\ \A i \in 1 .. NumberWidth(n) : mbuf_push_number(n)[i] = Digit(n, i)
<1>. DEFINE w == NumberWidth(n)
<1>1. w \in 0 .. 8 /\ w \in Nat
  BY NumberWidths
<1>2. n \in Nat /\ Base \in Nat \ {0} /\ Base <= 256
  <2>1. UINT64_MAX \in Int
    <3>1. Place[9] \in Nat
      BY Places
    <3>. QED
      BY <3>1 DEF UINT64_MAX
  <2>. QED
    BY <2>1, Places
<1>3. ASSUME NEW i \in 1 .. w PROVE Digit(n, i) \in Byte
  <2>. DEFINE P == Place[i]
  <2>1. P \in Nat \ {0}
    <3>1. i \in 1 .. 9
      BY <1>1
    <3>. QED
      BY <3>1, Places
  <2>. HIDE DEF P
  <2>2. n \div P \in Nat
    BY <1>2, <2>1, Divided
  <2>3. (n \div P) % Base \in 0 .. Base - 1
    BY <1>2, <2>2, Divided
  <2>4. (n \div P) % Base \in Byte
    BY <1>2, <2>3 DEF Byte
  <2>. QED
    BY <2>4 DEF Digit, P
<1>. HIDE DEF w
<1>4. mbuf_push_number(n) = [i \in 1 .. w |-> Digit(n, i)]
  BY DEF mbuf_push_number, Digit, w
<1>5. /\ mbuf_push_number(n) \in Seq(Byte) /\ Len(mbuf_push_number(n)) = w
      /\ \A i \in 1 .. w : mbuf_push_number(n)[i] = Digit(n, i)
  BY <1>1, <1>3, <1>4
<1>. QED
  BY <1>5 DEF w

\* The header byte of an ack, and of data.
LEMMA HeaderByte ==
  ASSUME InputAssumption, NEW n \in 0 .. UINT64_MAX
  PROVE  /\ init_packet_header(n, 0) \in Byte /\ init_packet_header(0, n) \in Byte
         /\ n = 0 => init_packet_header(n, 0) = 0
         /\ n > 0 => /\ init_packet_header(n, 0) % 16 = SizeCode(n)
                     /\ init_packet_header(n, 0) \div 16 = 0
                     /\ init_packet_header(0, n) % 16 = 0
                     /\ init_packet_header(0, n) \div 16 = SizeCode(n)
<1>1. SizeCode(0) = 0
  BY NoSize
<1>2. n = 0 \/ n > 0
  <2>1. Place[9] \in Int
    BY Places
  <2>. QED
    BY <2>1 DEF UINT64_MAX
<1>3. n > 0 => SizeCode(n) \in 1 .. 4
  BY NumberWidths
<1>4. SizeCode(n) \in 0 .. 4
  BY <1>1, <1>2, <1>3
<1>5. init_packet_header(n, 0) = SizeCode(n) + 16 * 0 /\ init_packet_header(0, n) = 0 + 16 * SizeCode(n)
  BY <1>1 DEF init_packet_header
<1>. DEFINE c == SizeCode(n)
<1>. HIDE DEF c
<1>6. /\ c + 16 * 0 \in 0 .. 255 /\ 0 + 16 * c \in 0 .. 255
      /\ (c + 16 * 0) % 16 = c /\ (c + 16 * 0) \div 16 = 0
      /\ (0 + 16 * c) % 16 = 0 /\ (0 + 16 * c) \div 16 = c
  <2>1. c \in 0 .. 4
    BY <1>4 DEF c
  <2>. QED
    BY <2>1
<1>. QED
  BY <1>1, <1>5, <1>6 DEF c, Byte

\* A byte before a sequence of bytes.
LEMMA ByteBefore ==
  ASSUME NEW h \in Byte, NEW y \in Seq(Byte)
  PROVE  /\ << h >> \o y \in Seq(Byte) /\ Len(<< h >> \o y) = 1 + Len(y)
         /\ (<< h >> \o y)[1] = h /\ \A i \in 1 .. Len(y) : (<< h >> \o y)[1 + i] = y[i]
<1>. DEFINE x == << h >>
<1>1. x \in Seq(Byte) /\ Len(x) = 1 /\ x[1] = h
  OBVIOUS
<1>2. Len(y) \in Nat
  OBVIOUS
<1>. HIDE DEF x
<1>3. /\ x \o y \in Seq(Byte) /\ Len(x \o y) = Len(x) + Len(y)
      /\ \A i \in 1 .. Len(x) + Len(y) : (x \o y)[i] = IF i <= Len(x) THEN x[i] ELSE y[i - Len(x)]
  BY <1>1, BothJoined
<1>4. (x \o y)[1] = h
  BY <1>1, <1>2, <1>3
<1>5. ASSUME NEW i \in 1 .. Len(y) PROVE (x \o y)[1 + i] = y[i]
  <2>1. 1 + i \in 1 .. Len(x) + Len(y) /\ ~(1 + i <= Len(x)) /\ 1 + i - Len(x) = i
    BY <1>1, <1>2
  <2>. QED
    BY <1>3, <2>1
<1>. QED
  BY <1>1, <1>3, <1>4, <1>5 DEF x

\* An ack, encoded.
LEMMA AckEncoded ==
  ASSUME InputAssumption, NEW n \in 0 .. UINT64_MAX
  PROVE  LET E == Encoded(AckPacket(n))
         IN  /\ E \in Seq(Byte) /\ Len(E) = 1 + NumberWidth(n)
             /\ E[1] = init_packet_header(n, 0)
             /\ \A i \in 1 .. NumberWidth(n) : E[1 + i] = Digit(n, i)
<1>. DEFINE h == init_packet_header(n, 0)
            y == mbuf_push_number(n)
            E == << h >> \o y
<1>1. AckPacket(n).kind = "ack" /\ AckPacket(n).offset = n
  BY DEF AckPacket
<1>2. Encoded(AckPacket(n)) = E
  BY <1>1 DEF Encoded
<1>3. h \in Byte
  BY HeaderByte
<1>4. y \in Seq(Byte) /\ Len(y) = NumberWidth(n) /\ \A i \in 1 .. NumberWidth(n) : y[i] = Digit(n, i)
  BY NumberBytes
<1>. HIDE DEF h, y
<1>5. /\ E \in Seq(Byte) /\ Len(E) = 1 + Len(y) /\ E[1] = h
      /\ \A i \in 1 .. Len(y) : E[1 + i] = y[i]
  BY <1>3, <1>4, ByteBefore
<1>. HIDE DEF E
<1>6. /\ E \in Seq(Byte) /\ Len(E) = 1 + NumberWidth(n) /\ E[1] = h
      /\ \A i \in 1 .. NumberWidth(n) : E[1 + i] = Digit(n, i)
  BY <1>4, <1>5
<1>. QED
  BY <1>2, <1>6 DEF h

\* Data, encoded.
LEMMA DataEncoded ==
  ASSUME InputAssumption, NEW len \in 1 .. UINT_MAX
  PROVE  LET E == Encoded(DataPacket(len))
         IN  /\ len \in 0 .. UINT64_MAX /\ len \in Nat \ {0}
             /\ E \in Seq(Byte) /\ Len(E) = 1 + NumberWidth(len) + len
             /\ E[1] = init_packet_header(0, len)
             /\ \A i \in 1 .. NumberWidth(len) : E[1 + i] = Digit(len, i)
             /\ Payload(len) \in Seq(Byte) /\ Len(Payload(len)) = len
             /\ \A i \in 1 .. len : E[1 + NumberWidth(len) + i] = Payload(len)[i]
<1>. DEFINE h == init_packet_header(0, len)
            y == mbuf_push_number(len)
            x == << h >> \o y
            z == Payload(len)
            E == x \o z
            w == NumberWidth(len)
<1>1. len \in 0 .. UINT64_MAX /\ len \in Nat \ {0}
  <2>1. Place[5] \in Nat /\ Place[9] \in Nat /\ Place[5] < Place[9]
    <3>1. \A i \in 1 .. 9 : Place[i] \in Nat
      BY Places
    <3>2. \A i \in 1 .. 8 : Place[i] < Place[i + 1]
      BY Places
    <3>3. /\ Place[5] < Place[5 + 1] /\ Place[6] < Place[6 + 1]
          /\ Place[7] < Place[7 + 1] /\ Place[8] < Place[8 + 1]
      BY <3>2
    <3>4. Place[5] < Place[6] /\ Place[6] < Place[7] /\ Place[7] < Place[8] /\ Place[8] < Place[9]
      BY <3>3
    <3>5. /\ Place[5] \in Nat /\ Place[6] \in Nat /\ Place[7] \in Nat /\ Place[8] \in Nat
          /\ Place[9] \in Nat
      BY <3>1
    <3>. QED
      BY <3>4, <3>5
  <2>. QED
    BY <2>1 DEF UINT_MAX, UINT64_MAX
<1>2. DataPacket(len).kind # "ack" /\ DataPacket(len).data = z
  BY DEF DataPacket
<1>3. z \in Seq(Byte) /\ Len(z) = len
  <2>1. Base \in Nat \ {0} /\ Base <= 256
    BY Places
  <2>2. \A i \in 1 .. len : i % Base \in Byte
    <3>1. ASSUME NEW i \in 1 .. len PROVE i % Base \in Byte
      <4>1. i \in Nat
        BY <1>1
      <4>2. i % Base \in 0 .. Base - 1
        BY <2>1, <4>1, Divided
      <4>. QED
        BY <2>1, <4>2 DEF Byte
    <3>. QED
      BY <3>1
  <2>. QED
    BY <1>1, <2>2 DEF Payload
<1>4. h \in Byte
  BY <1>1, HeaderByte
<1>5. y \in Seq(Byte) /\ Len(y) = w /\ \A i \in 1 .. w : y[i] = Digit(len, i)
  BY <1>1, NumberBytes
<1>6. Encoded(DataPacket(len)) = E
  <2>. HIDE DEF z
  <2>. QED
    BY <1>2, <1>3 DEF Encoded
<1>7. w \in Nat
  BY <1>1, NumberWidths
<1>. HIDE DEF h, y, z, w
<1>8. /\ x \in Seq(Byte) /\ Len(x) = 1 + w /\ x[1] = h
      /\ \A i \in 1 .. w : x[1 + i] = Digit(len, i)
  BY <1>4, <1>5, ByteBefore
<1>. HIDE DEF x
<1>9. /\ E \in Seq(Byte) /\ Len(E) = Len(x) + Len(z)
      /\ \A i \in 1 .. Len(x) + Len(z) : E[i] = IF i <= Len(x) THEN x[i] ELSE z[i - Len(x)]
  BY <1>3, <1>8, BothJoined
<1>. HIDE DEF E
<1>10. Len(E) = 1 + w + len
  BY <1>1, <1>3, <1>7, <1>8, <1>9
<1>11. ASSUME NEW i \in 1 .. 1 + w PROVE E[i] = x[i]
  <2>1. i \in 1 .. Len(x) + Len(z) /\ i <= Len(x)
    BY <1>1, <1>3, <1>7, <1>8
  <2>. QED
    BY <1>9, <2>1
<1>12. E[1] = h
  <2>1. 1 \in 1 .. 1 + w
    BY <1>7
  <2>. QED
    BY <1>8, <1>11, <2>1
<1>13. ASSUME NEW i \in 1 .. w PROVE E[1 + i] = Digit(len, i)
  <2>1. 1 + i \in 1 .. 1 + w
    BY <1>7
  <2>. QED
    BY <1>8, <1>11, <2>1
<1>14. ASSUME NEW i \in 1 .. len PROVE E[1 + w + i] = z[i]
  <2>. DEFINE j == 1 + w + i
  <2>1. j \in 1 .. Len(x) + Len(z) /\ ~(j <= Len(x)) /\ j - Len(x) = i
    BY <1>1, <1>3, <1>7, <1>8
  <2>. HIDE DEF j
  <2>2. E[j] = z[j - Len(x)]
    BY <1>9, <2>1
  <2>3. E[j] = z[i]
    BY <2>1, <2>2
  <2>. QED
    BY <2>3 DEF j
<1>. QED
  BY <1>1, <1>3, <1>6, <1>9, <1>10, <1>12, <1>13, <1>14 DEF h, z, w

-----------------------------------------------------------------------------
(* What parse_header makes of the bytes of a packet *)

\* parse_header, for the sizes in the header byte.
LEMMA ParseIs ==
  ASSUME NEW p, NEW a, a = p[1] % 16, NEW d, d = p[1] \div 16,
         NEW aw, aw = IF a = 0 THEN 0 ELSE Width[a], NEW dw, dw = IF d = 0 THEN 0 ELSE Width[d],
         NEW fields, fields = 1 + aw + dw,
         NEW size, size = ReadNumber(p, 1 + aw, dw) % (UINT_MAX + 1)
  PROVE  parse_header(p) =
           IF a > 4 \/ d > 4 THEN [r |-> "DECODE_HEADER_ERR"]
           ELSE IF fields > Len(p) THEN [r |-> "DECODE_HEADER_ERR"]
           ELSE IF size > 0 /\ fields + size > Len(p) THEN [r |-> "DECODE_HEADER_LACK"]
           ELSE [r |-> "DECODE_HEADER_OK", ack_offset |-> ReadNumber(p, 1, aw),
                 data |-> SubSeq(p, fields + 1, fields + size), pkg_len |-> PkgLen(fields, size)]
BY Zenon DEF parse_header

\* A length, and no length, pass through the 32 bits of data_size.
LEMMA SizeFits ==
  ASSUME InputAssumption
  PROVE  /\ UINT_MAX + 1 \in Nat \ {0} /\ 0 % (UINT_MAX + 1) = 0
         /\ \A len \in 0 .. UINT_MAX : len % (UINT_MAX + 1) = len
<1>. DEFINE P == Place[5]
<1>1. P \in Nat \ {0} /\ UINT_MAX = P - 1
  BY Places DEF UINT_MAX
<1>. HIDE DEF P
<1>2. UINT_MAX + 1 = P
  BY <1>1
<1>3. ASSUME NEW len \in 0 .. UINT_MAX PROVE len % P = len
  BY <1>1
<1>4. 0 % P = 0
  BY <1>1
<1>. QED
  BY <1>1, <1>2, <1>3, <1>4

\* Nothing between a place and the one before.
LEMMA NothingThere ==
  ASSUME NEW A, NEW p \in Seq(A), NEW m \in Nat
  PROVE  SubSeq(p, m + 1, m + 0) = << >>
<1>1. m + 0 = m /\ m + 1 > m /\ m + 1 \in Nat
  OBVIOUS
<1>. QED
  BY <1>1, SubSeqEmpty

\* The stray byte of an ack of 0 is a packet of one byte that says nothing.
LEMMA ParseZero ==
  ASSUME InputAssumption, NEW p \in Seq(Byte), Len(p) >= 1, p[1] = 0
  PROVE  parse_header(p) = [r |-> "DECODE_HEADER_OK", ack_offset |-> 0, data |-> << >>, pkg_len |-> 1]
<1>1. 0 = p[1] % 16 /\ 0 = p[1] \div 16
  OBVIOUS
<1>. DEFINE size == ReadNumber(p, 1, 0) % (UINT_MAX + 1)
<1>2. ReadNumber(p, 1, 0) = 0
  BY ReadNone
<1>3. size = 0
  BY <1>2, SizeFits
<1>4. (0 = IF 0 = 0 THEN 0 ELSE Width[0]) /\ 1 = 1 + 0 + 0 /\ 1 + 0 = 1
  OBVIOUS
<1>5. parse_header(p) =
        IF 0 > 4 \/ 0 > 4 THEN [r |-> "DECODE_HEADER_ERR"]
        ELSE IF 1 > Len(p) THEN [r |-> "DECODE_HEADER_ERR"]
        ELSE IF 0 > 0 /\ 1 + 0 > Len(p) THEN [r |-> "DECODE_HEADER_LACK"]
        ELSE [r |-> "DECODE_HEADER_OK", ack_offset |-> ReadNumber(p, 1, 0),
              data |-> SubSeq(p, 1 + 1, 1 + 0), pkg_len |-> PkgLen(1, 0)]
  BY <1>1, <1>3, <1>4, ParseIs
<1>6. ~(0 > 4) /\ ~(1 > Len(p)) /\ ~(0 > 0)
  BY LenProperties
<1>7. SubSeq(p, 1 + 1, 1 + 0) = << >>
  BY NothingThere
<1>8. PkgLen(1, 0) = 1
  BY DEF PkgLen
<1>. QED
  BY <1>2, <1>5, <1>6, <1>7, <1>8

\* The digits of a number n after the header byte are read as n.
LEMMA DigitsRead ==
  ASSUME InputAssumption, NEW n \in 0 .. UINT64_MAX, NEW p, NEW k \in Nat,
         \A i \in 1 .. NumberWidth(n) : p[k + i] = Digit(n, i)
  PROVE  ReadNumber(p, k, NumberWidth(n)) = n
<1>1. n \in Nat
  <2>1. UINT64_MAX \in Int
    BY Places DEF UINT64_MAX
  <2>. QED
    BY <2>1
<1>2. NumberWidth(n) \in 0 .. 8 /\ n < Place[NumberWidth(n) + 1]
  BY NumberWidths
<1>3. \A i \in 1 .. NumberWidth(n) : p[k + i] = (n \div Place[i]) % Base
  BY DEF Digit
<1>. QED
  BY <1>1, <1>2, <1>3, ReadBack

\* The bytes of an ack of n > 0, or the first of them.
LEMMA ParseAck ==
  ASSUME InputAssumption, NEW n \in 0 .. UINT64_MAX, n > 0, NEW p \in Seq(Byte), Len(p) >= 1,
         NEW E, E = Encoded(AckPacket(n))
  PROVE  /\ Len(p) >= Len(E) /\ (\A i \in 1 .. Len(E) : p[i] = E[i]) =>
              parse_header(p) = [r |-> "DECODE_HEADER_OK", ack_offset |-> n,
                                 data |-> << >>, pkg_len |-> Len(E)]
         /\ Len(p) < Len(E) /\ p[1] = E[1] =>
              parse_header(p) = [r |-> "DECODE_HEADER_ERR"]
<1>. DEFINE w == NumberWidth(n)
            a == SizeCode(n)
            size == ReadNumber(p, 1 + w, 0) % (UINT_MAX + 1)
<1>1. w \in {1, 2, 4, 8} /\ a \in 1 .. 4 /\ Width[a] = w
  BY NumberWidths
<1>2. E \in Seq(Byte) /\ Len(E) = 1 + w /\ E[1] = init_packet_header(n, 0)
      /\ \A i \in 1 .. w : E[1 + i] = Digit(n, i)
  BY AckEncoded
<1>3. E[1] % 16 = a /\ E[1] \div 16 = 0
  BY <1>2, HeaderByte
<1>4. size = 0
  <2>1. ReadNumber(p, 1 + w, 0) = 0
    <3>1. 1 + w \in Nat
      BY <1>1
    <3>. QED
      BY <3>1, ReadNone
  <2>. QED
    BY <2>1, SizeFits
<1>5. ASSUME p[1] = E[1]
      PROVE  parse_header(p) =
               IF 1 + w > Len(p) THEN [r |-> "DECODE_HEADER_ERR"]
               ELSE [r |-> "DECODE_HEADER_OK", ack_offset |-> ReadNumber(p, 1, w),
                     data |-> << >>, pkg_len |-> 1 + w]
  <2>1. a = p[1] % 16 /\ 0 = p[1] \div 16
    BY <1>3, <1>5
  <2>2. w = IF a = 0 THEN 0 ELSE Width[a]
    <3>1. a # 0
      BY <1>1
    <3>. QED
      BY <1>1, <3>1
  <2>3. (0 = IF 0 = 0 THEN 0 ELSE Width[0]) /\ 1 + w = 1 + w + 0
    BY <1>1
  <2>4. ~(a > 4) /\ ~(0 > 4) /\ ~(0 > 0)
    BY <1>1
  <2>. HIDE DEF a, w, size
  <2>5. parse_header(p) =
           IF a > 4 \/ 0 > 4 THEN [r |-> "DECODE_HEADER_ERR"]
           ELSE IF 1 + w > Len(p) THEN [r |-> "DECODE_HEADER_ERR"]
           ELSE IF size > 0 /\ 1 + w + size > Len(p) THEN [r |-> "DECODE_HEADER_LACK"]
           ELSE [r |-> "DECODE_HEADER_OK", ack_offset |-> ReadNumber(p, 1, w),
                 data |-> SubSeq(p, 1 + w + 1, 1 + w + size), pkg_len |-> PkgLen(1 + w, size)]
    <3>. DEFINE none == 0
                fields == 1 + w
    <3>1. size = ReadNumber(p, 1 + w, none) % (UINT_MAX + 1)
      BY DEF size
    <3>2. none = p[1] \div 16 /\ (none = IF none = 0 THEN 0 ELSE Width[none]) /\ fields = 1 + w + none
      BY <2>1, <2>3
    <3>. HIDE DEF none, fields
    <3>3. parse_header(p) =
             IF a > 4 \/ none > 4 THEN [r |-> "DECODE_HEADER_ERR"]
             ELSE IF fields > Len(p) THEN [r |-> "DECODE_HEADER_ERR"]
             ELSE IF size > 0 /\ fields + size > Len(p) THEN [r |-> "DECODE_HEADER_LACK"]
             ELSE [r |-> "DECODE_HEADER_OK", ack_offset |-> ReadNumber(p, 1, w),
                   data |-> SubSeq(p, fields + 1, fields + size), pkg_len |-> PkgLen(fields, size)]
      BY <2>1, <2>2, <3>1, <3>2, ParseIs
    <3>. QED
      BY <3>3 DEF none, fields
  <2>6. SubSeq(p, 1 + w + 1, 1 + w + size) = << >>
    <3>1. 1 + w \in Nat
      BY <1>1
    <3>2. SubSeq(p, 1 + w + 1, 1 + w + 0) = << >>
      BY <3>1, NothingThere
    <3>. QED
      BY <1>4, <3>2
  <2>7. PkgLen(1 + w, size) = 1 + w
    BY <1>1, <1>4 DEF PkgLen
  <2>. QED
    BY <1>4, <2>4, <2>5, <2>6, <2>7
<1>6. ASSUME Len(p) >= Len(E), \A i \in 1 .. Len(E) : p[i] = E[i]
      PROVE  p[1] = E[1] /\ ~(1 + w > Len(p)) /\ ReadNumber(p, 1, w) = n
  <2>1. \A i \in 1 .. w : 1 + i \in 1 .. Len(E)
    BY <1>1, <1>2
  <2>2. \A i \in 1 .. w : p[1 + i] = Digit(n, i)
    <3>. HIDE DEF w
    <3>. QED
      BY <1>2, <1>6, <2>1
  <2>3. ReadNumber(p, 1, w) = n
    BY <2>2, DigitsRead
  <2>4. 1 \in 1 .. Len(E) /\ ~(1 + w > Len(p))
    BY <1>1, <1>2, <1>6, LenProperties
  <2>. QED
    BY <1>6, <2>3, <2>4
<1>7. Len(p) < Len(E) => 1 + w > Len(p)
  BY <1>1, <1>2, LenProperties
<1>. HIDE DEF w, a, size
<1>. QED
  BY <1>2, <1>5, <1>6, <1>7, Zenon

\* The bytes of data, or the first of them.
LEMMA ParseData ==
  ASSUME InputAssumption, NEW len \in 1 .. UINT_MAX, NEW p \in Seq(Byte), Len(p) >= 1,
         NEW E, E = Encoded(DataPacket(len))
  PROVE  /\ Len(p) >= Len(E) /\ (\A i \in 1 .. Len(E) : p[i] = E[i]) =>
              parse_header(p) = [r |-> "DECODE_HEADER_OK", ack_offset |-> 0,
                                 data |-> Payload(len), pkg_len |-> Len(E)]
         /\ Len(p) < Len(E) /\ (\A i \in 1 .. Len(p) : p[i] = E[i]) =>
              parse_header(p).r \in {"DECODE_HEADER_ERR", "DECODE_HEADER_LACK"}
<1>. DEFINE w == NumberWidth(len)
            d == SizeCode(len)
            size == ReadNumber(p, 1, w) % (UINT_MAX + 1)
            fields == 1 + w
            z == Payload(len)
            none == 0
<1>1. len \in 0 .. UINT64_MAX /\ len \in Nat \ {0} /\ E \in Seq(Byte) /\ Len(E) = fields + len
  BY DataEncoded
<1>2. w \in {1, 2, 4, 8} /\ d \in 1 .. 4 /\ Width[d] = w
  BY <1>1, NumberWidths
<1>3. /\ E[1] = init_packet_header(0, len) /\ \A i \in 1 .. w : E[1 + i] = Digit(len, i)
      /\ z \in Seq(Byte) /\ Len(z) = len /\ \A i \in 1 .. len : E[fields + i] = z[i]
  BY DataEncoded
<1>4. E[1] % 16 = 0 /\ E[1] \div 16 = d
  BY <1>1, <1>3, HeaderByte
<1>5. Len(p) \in Nat /\ fields \in Nat /\ fields = 1 + w
  BY <1>2
<1>. HIDE DEF w, d, size, fields, z
<1>6. ASSUME p[1] = E[1]
      PROVE  parse_header(p) =
               IF fields > Len(p) THEN [r |-> "DECODE_HEADER_ERR"]
               ELSE IF size > 0 /\ fields + size > Len(p) THEN [r |-> "DECODE_HEADER_LACK"]
               ELSE [r |-> "DECODE_HEADER_OK", ack_offset |-> 0,
                     data |-> SubSeq(p, fields + 1, fields + size), pkg_len |-> fields + size]
  <2>1. none = p[1] % 16 /\ d = p[1] \div 16
    BY <1>4, <1>6
  <2>2. w = IF d = 0 THEN 0 ELSE Width[d]
    <3>1. d # 0
      BY <1>2
    <3>. QED
      BY <1>2, <3>1
  <2>3. (none = IF none = 0 THEN 0 ELSE Width[none]) /\ fields = 1 + none + w
    BY <1>2, <1>5
  <2>7. 1 + none = 1 /\ ~(none > 4) /\ ~(d > 4)
    BY <1>2
  <2>4. ReadNumber(p, 1, none) = 0
    BY ReadNone
  <2>. HIDE DEF none
  <2>5. size = ReadNumber(p, 1 + none, w) % (UINT_MAX + 1)
    BY <2>7 DEF size
  <2>6. parse_header(p) =
           IF none > 4 \/ d > 4 THEN [r |-> "DECODE_HEADER_ERR"]
           ELSE IF fields > Len(p) THEN [r |-> "DECODE_HEADER_ERR"]
           ELSE IF size > 0 /\ fields + size > Len(p) THEN [r |-> "DECODE_HEADER_LACK"]
           ELSE [r |-> "DECODE_HEADER_OK", ack_offset |-> ReadNumber(p, 1, none),
                 data |-> SubSeq(p, fields + 1, fields + size), pkg_len |-> PkgLen(fields, size)]
    BY <2>1, <2>2, <2>3, <2>5, ParseIs
  <2>. QED
    BY <2>4, <2>6, <2>7 DEF PkgLen
<1>7. ASSUME fields <= Len(p), \A i \in 1 .. fields : p[i] = E[i]
      PROVE  size = len
  <2>1. \A i \in 1 .. w : 1 + i \in 1 .. fields
    BY <1>2, <1>5
  <2>2. \A i \in 1 .. w : p[1 + i] = Digit(len, i)
    BY <1>3, <1>7, <2>1
  <2>3. ReadNumber(p, 1, w) = len
    BY <1>1, <2>2, DigitsRead DEF w
  <2>4. len \in 0 .. UINT_MAX
    BY <1>1
  <2>. QED
    BY <2>3, <2>4, SizeFits DEF size
<1>8. ASSUME Len(p) >= Len(E), \A i \in 1 .. Len(E) : p[i] = E[i]
      PROVE  parse_header(p) = [r |-> "DECODE_HEADER_OK", ack_offset |-> 0,
                                data |-> z, pkg_len |-> Len(E)]
  <2>1. /\ fields <= Len(p) /\ ~(fields > Len(p)) /\ ~(fields + len > Len(p))
        /\ 1 .. fields \subseteq 1 .. Len(E) /\ 1 \in 1 .. Len(E)
    BY <1>1, <1>2, <1>5, <1>8
  <2>2. size = len
    BY <1>7, <1>8, <2>1
  <2>3. SubSeq(p, fields + 1, fields + len) = z
    <3>. DEFINE n == fields + len
                q == SubSeq(p, fields + 1, n)
    <3>1. n \in Nat /\ n <= Len(p) /\ fields + 1 \in 1 .. Len(p) + 1 /\ fields + 1 <= n
          /\ n - (fields + 1) + 1 = len /\ n = Len(E)
      BY <1>1, <1>5, <2>1
    <3>2. ASSUME NEW i \in 1 .. len
          PROVE  fields + 1 + i - 1 = fields + i /\ fields + i \in 1 .. n
      BY <1>1, <1>5
    <3>. HIDE DEF n
    <3>3. q \in Seq(Byte) /\ Len(q) = len /\ \A i \in 1 .. len : q[i] = p[fields + 1 + i - 1]
      <4>1. fields + 1 \in Int /\ n \in Int /\ \A i \in fields + 1 .. n : p[i] \in Byte
        <5>1. \A i \in fields + 1 .. n : i \in 1 .. Len(p)
          BY <1>5, <3>1
        <5>. QED
          BY <1>5, <3>1, <5>1
      <4>2. /\ q \in Seq(Byte) /\ Len(q) = IF fields + 1 <= n THEN n - (fields + 1) + 1 ELSE 0
            /\ \A i \in 1 .. n - (fields + 1) + 1 : q[i] = p[fields + 1 + i - 1]
        BY <4>1, SubSeqProperties
      <4>. QED
        BY <3>1, <4>2
    <3>. HIDE DEF q
    <3>4. ASSUME NEW i \in 1 .. len PROVE q[i] = z[i]
      <4>1. q[i] = p[fields + i]
        BY <3>2, <3>3
      <4>2. p[fields + i] = E[fields + i]
        BY <1>8, <3>1, <3>2
      <4>. QED
        BY <1>3, <4>1, <4>2
    <3>5. q = z
      BY <1>3, <3>3, <3>4, SeqEqual
    <3>. QED
      BY <3>5 DEF q, n
  <2>. QED
    BY <1>1, <1>6, <1>8, <2>1, <2>2, <2>3
<1>9. ASSUME Len(p) < Len(E), \A i \in 1 .. Len(p) : p[i] = E[i]
      PROVE  parse_header(p).r \in {"DECODE_HEADER_ERR", "DECODE_HEADER_LACK"}
  <2>1. p[1] = E[1]
    BY <1>5, <1>9
  <2>2. CASE fields > Len(p)
    BY <1>6, <2>1, <2>2
  <2>3. CASE fields <= Len(p)
    <3>1. 1 .. fields \subseteq 1 .. Len(p)
      BY <1>5, <2>3
    <3>2. size = len
      BY <1>7, <1>9, <2>3, <3>1
    <3>3. len > 0 /\ fields + len > Len(p) /\ ~(fields > Len(p))
      BY <1>1, <1>5, <1>9, <2>3
    <3>. QED
      BY <1>6, <2>1, <3>2, <3>3
  <2>. QED
    BY <1>5, <2>2, <2>3
<1>. QED
  BY <1>8, <1>9 DEF z

-----------------------------------------------------------------------------
(* One packet *)

\* The bytes of a packet, and what the receiver makes of it, as functions.
Encodings == [pkt \in Packets |-> Encoded(pkt)]
Meanings == [pkt \in Packets |-> MeaningOf(pkt)]

\* There are packets of two kinds.
LEMMA KindsOfPacket ==
  ASSUME InputAssumption, NEW pkt \in Packets
  PROVE  \/ pkt = AckPacket(0)
         \/ \E n \in 0 .. UINT64_MAX : n > 0 /\ pkt = AckPacket(n)
         \/ \E len \in 1 .. UINT_MAX : pkt = DataPacket(len)
<1>1. CASE \E n \in Offsets : pkt = AckPacket(n)
  <2>1. PICK n \in 0 .. UINT64_MAX : pkt = AckPacket(n)
    BY <1>1 DEF InputAssumption
  <2>2. n = 0 \/ n > 0
    <3>1. UINT64_MAX \in Int
      BY Places DEF UINT64_MAX
    <3>. QED
      BY <3>1
  <2>. QED
    BY <2>1, <2>2
<1>2. CASE \E n \in Lengths : pkt = DataPacket(n)
  BY <1>2 DEF InputAssumption
<1>. QED
  BY <1>1, <1>2 DEF Packets

\* The bytes of an ack of 0: the header and a byte it does not declare.
LEMMA ZeroEncoded ==
  ASSUME InputAssumption
  PROVE  Encoded(AckPacket(0)) = << 0 >> \o << 0 >>
<1>. DEFINE E == Encoded(AckPacket(0))
<1>1. 0 \in 0 .. UINT64_MAX
  <2>1. Place[9] \in Nat \ {0}
    BY Places
  <2>. QED
    BY <2>1 DEF UINT64_MAX
<1>2. /\ E \in Seq(Byte) /\ Len(E) = 1 + NumberWidth(0) /\ E[1] = init_packet_header(0, 0)
      /\ \A i \in 1 .. NumberWidth(0) : E[1 + i] = Digit(0, i)
  BY <1>1, AckEncoded
<1>3. NumberWidth(0) = 1
  BY NoSize
<1>4. E[1] = 0
  BY <1>1, <1>2, HeaderByte
<1>5. E[2] = 0
  <2>1. E[1 + 1] = Digit(0, 1)
    BY <1>2, <1>3
  <2>2. Digit(0, 1) = 0
    <3>1. Place[1] = 1 /\ Base \in Nat \ {0}
      BY Places
    <3>. QED
      BY <3>1 DEF Digit
  <2>. QED
    BY <2>1, <2>2
<1>. HIDE DEF E
<1>6. E = << 0, 0 >>
  BY <1>2, <1>3, <1>4, <1>5
<1>. QED
  BY <1>6 DEF E

\* A packet has two bytes at least.
LEMMA PacketEncoded ==
  ASSUME InputAssumption, NEW pkt \in Packets
  PROVE  Encoded(pkt) \in Seq(Byte) /\ Len(Encoded(pkt)) >= 2
<1>1. CASE pkt = AckPacket(0)
  <2>1. << 0 >> \o << 0 >> \in Seq(Byte) /\ Len(<< 0 >> \o << 0 >>) >= 2
    BY DEF Byte
  <2>. QED
    BY <1>1, <2>1, ZeroEncoded
<1>2. CASE \E n \in 0 .. UINT64_MAX : n > 0 /\ pkt = AckPacket(n)
  <2>1. PICK n \in 0 .. UINT64_MAX : n > 0 /\ pkt = AckPacket(n)
    BY <1>2
  <2>2. NumberWidth(n) \in {1, 2, 4, 8}
    BY NumberWidths
  <2>3. Encoded(pkt) \in Seq(Byte) /\ Len(Encoded(pkt)) = 1 + NumberWidth(n)
    BY <2>1, AckEncoded
  <2>. QED
    BY <2>2, <2>3
<1>3. CASE \E len \in 1 .. UINT_MAX : pkt = DataPacket(len)
  <2>1. PICK len \in 1 .. UINT_MAX : pkt = DataPacket(len)
    BY <1>3
  <2>2. /\ Encoded(pkt) \in Seq(Byte) /\ Len(Encoded(pkt)) = 1 + NumberWidth(len) + len
        /\ len \in 0 .. UINT64_MAX /\ len \in Nat \ {0}
    BY <2>1, DataEncoded
  <2>3. NumberWidth(len) \in {1, 2, 4, 8}
    BY <2>2, NumberWidths
  <2>. QED
    BY <2>2, <2>3
<1>. QED
  BY <1>1, <1>2, <1>3, KindsOfPacket

\* What is made of a packet is of packets.
LEMMA MeaningType ==
  ASSUME NEW pkt \in Packets
  PROVE  MeaningOf(pkt) \in Seq(Packets)
BY DEF MeaningOf

\* Bytes that begin with an encoded packet are parsed as that packet, all of it or,
\* of an ack of 0, the header; the first bytes of one are not parsed.
LEMMA FirstPacket ==
  ASSUME InputAssumption, NEW pkt \in Packets, NEW E, E = Encoded(pkt),
         NEW p \in Seq(Byte), Len(p) > 1, NEW P, P = parse_header(p)
  PROVE  /\ Len(p) >= Len(E) /\ (\A i \in 1 .. Len(E) : p[i] = E[i]) =>
              /\ P.r = "DECODE_HEADER_OK"
              /\ Handlers(P.ack_offset, P.data) = MeaningOf(pkt)
              /\ IF pkt = AckPacket(0) THEN P.pkg_len = 1 ELSE P.pkg_len = Len(E)
         /\ Len(p) < Len(E) /\ (\A i \in 1 .. Len(p) : p[i] = E[i]) =>
              P.r \in {"DECODE_HEADER_ERR", "DECODE_HEADER_LACK"}
<1>1. Len(p) \in Nat /\ Len(p) >= 1
  OBVIOUS
<1>2. CASE pkt = AckPacket(0)
  <2>1. E = << 0 >> \o << 0 >>
    BY <1>2, ZeroEncoded
  <2>2. Len(E) = 2 /\ E[1] = 0
    BY <2>1
  <2>3. ~(Len(p) < Len(E))
    BY <1>1, <2>2
  <2>4. ASSUME \A i \in 1 .. Len(E) : p[i] = E[i]
        PROVE  P = [r |-> "DECODE_HEADER_OK", ack_offset |-> 0, data |-> << >>, pkg_len |-> 1]
    <3>1. p[1] = 0
      BY <2>2, <2>4
    <3>. QED
      BY <1>1, <3>1, ParseZero
  <2>5. Handlers(0, << >>) = MeaningOf(pkt)
    BY <1>2 DEF Handlers, MeaningOf
  <2>. QED
    BY <1>2, <2>3, <2>4, <2>5
<1>3. CASE \E n \in 0 .. UINT64_MAX : n > 0 /\ pkt = AckPacket(n)
  <2>1. PICK n \in 0 .. UINT64_MAX : n > 0 /\ pkt = AckPacket(n)
    BY <1>3
  <2>2. pkt # AckPacket(0)
    BY <2>1 DEF AckPacket
  <2>3. Handlers(n, << >>) = MeaningOf(pkt)
    <3>1. n > 0
      BY <2>1
    <3>2. Handlers(n, << >>) = << AckPacket(n) >> \o << >>
      BY <3>1 DEF Handlers
    <3>. QED
      BY <2>1, <2>2, <3>2 DEF MeaningOf
  <2>4. /\ Len(p) >= Len(E) /\ (\A i \in 1 .. Len(E) : p[i] = E[i]) =>
              P = [r |-> "DECODE_HEADER_OK", ack_offset |-> n, data |-> << >>, pkg_len |-> Len(E)]
        /\ Len(p) < Len(E) /\ p[1] = E[1] => P = [r |-> "DECODE_HEADER_ERR"]
    BY <1>1, <2>1, ParseAck
  <2>5. 1 \in 1 .. Len(p)
    BY <1>1
  <2>. QED
    BY <2>2, <2>3, <2>4, <2>5
<1>4. CASE \E len \in 1 .. UINT_MAX : pkt = DataPacket(len)
  <2>1. PICK len \in 1 .. UINT_MAX : pkt = DataPacket(len)
    BY <1>4
  <2>2. pkt # AckPacket(0)
    BY <2>1 DEF AckPacket, DataPacket
  <2>3. Handlers(0, Payload(len)) = MeaningOf(pkt)
    <3>1. Payload(len) # << >>
      <4>1. len \in Nat \ {0} /\ Len(Payload(len)) = len
        BY DataEncoded
      <4>. QED
        BY <4>1
    <3>. QED
      BY <2>1, <2>2, <3>1 DEF Handlers, MeaningOf, DataPacket
  <2>4. /\ Len(p) >= Len(E) /\ (\A i \in 1 .. Len(E) : p[i] = E[i]) =>
              P = [r |-> "DECODE_HEADER_OK", ack_offset |-> 0,
                   data |-> Payload(len), pkg_len |-> Len(E)]
        /\ Len(p) < Len(E) /\ (\A i \in 1 .. Len(p) : p[i] = E[i]) =>
              P.r \in {"DECODE_HEADER_ERR", "DECODE_HEADER_LACK"}
    BY <1>1, <2>1, ParseData
  <2>. QED
    BY <2>2, <2>3, <2>4
<1>. QED
  BY <1>2, <1>3, <1>4, KindsOfPacket

\* A byte is a number.
LEMMA ByteIsNumber ==
  ASSUME NEW b \in Byte
  PROVE  b \in Nat /\ b \in Int
BY DEF Byte

\* Whatever the bytes, a packet parsed has a length.
LEMMA ParsedLength ==
  ASSUME InputAssumption, NEW p \in Seq(Byte), Len(p) >= 1,
         parse_header(p).r = "DECODE_HEADER_OK"
  PROVE  parse_header(p).pkg_len \in Nat
<1>. DEFINE a == p[1] % 16
            d == p[1] \div 16
            aw == IF a = 0 THEN 0 ELSE Width[a]
            dw == IF d = 0 THEN 0 ELSE Width[d]
            fields == 1 + aw + dw
            n == ReadNumber(p, 1 + aw, dw)
            size == n % (UINT_MAX + 1)
            P == parse_header(p)
<1>1. P = IF a > 4 \/ d > 4 THEN [r |-> "DECODE_HEADER_ERR"]
          ELSE IF fields > Len(p) THEN [r |-> "DECODE_HEADER_ERR"]
          ELSE IF size > 0 /\ fields + size > Len(p) THEN [r |-> "DECODE_HEADER_LACK"]
          ELSE [r |-> "DECODE_HEADER_OK", ack_offset |-> ReadNumber(p, 1, aw),
                data |-> SubSeq(p, fields + 1, fields + size), pkg_len |-> PkgLen(fields, size)]
  BY Zenon DEF parse_header
<1>2. a \in Nat /\ d \in Nat
  <2>. DEFINE b == p[1]
  <2>1. b \in Byte
    OBVIOUS
  <2>. HIDE DEF b
  <2>2. b \in Nat
    BY <2>1, ByteIsNumber
  <2>3. b % 16 \in Nat /\ b \div 16 \in Nat
    BY <2>2
  <2>. QED
    BY <2>3 DEF b
<1>. HIDE DEF a, d, fields, n, size, P
<1>3. ~(a > 4) /\ ~(d > 4) /\ ~(fields > Len(p)) /\ P.pkg_len = PkgLen(fields, size)
  <2>1. P.r = "DECODE_HEADER_OK"
    BY DEF P
  <2>. QED
    BY <1>1, <2>1
<1>4. aw \in 0 .. 8 /\ dw \in 0 .. 8
  <2>1. Width[1] = 1 /\ Width[2] = 2 /\ Width[3] = 4 /\ Width[4] = 8
    BY DEF Width
  <2>2. a \in {0, 1, 2, 3, 4} /\ d \in {0, 1, 2, 3, 4}
    BY <1>2, <1>3
  <2>. QED
    BY <2>1, <2>2
<1>. HIDE DEF aw, dw
<1>5. n \in Int
  <2>1. ASSUME NEW i \in 1 .. dw PROVE p[1 + aw + i] \in Int
    <3>1. 1 + aw + i \in 1 .. Len(p)
      BY <1>3, <1>4 DEF fields
    <3>. DEFINE j == 1 + aw + i
    <3>. HIDE DEF j
    <3>2. p[j] \in Byte
      BY <3>1 DEF j
    <3>3. p[j] \in Int
      BY <3>2, ByteIsNumber
    <3>. QED
      BY <3>3 DEF j
  <2>2. 1 + aw \in Nat
    BY <1>4
  <2>. QED
    BY <1>4, <2>1, <2>2, ReadType DEF n
<1>6. size \in Nat
  <2>. DEFINE m == UINT_MAX + 1
  <2>1. m \in Nat \ {0}
    BY SizeFits
  <2>. HIDE DEF m
  <2>2. n % m \in Nat
    BY <1>5, <2>1
  <2>. QED
    BY <2>2 DEF size, m
<1>7. fields \in Nat
  BY <1>4 DEF fields
<1>. QED
  BY <1>3, <1>6, <1>7 DEF PkgLen, P

-----------------------------------------------------------------------------
(* Types *)

\* The calls of rdts_input.
Calls == [pc : {"loop"}, pinput : Seq(Byte), use_buf : BOOLEAN, drain_len : Nat]

InputTypes ==
    /\ rcv_buf \in Seq(Byte)
    /\ call \in Calls \cup {Idle}
    /\ wire \in Seq(Seq(Byte))
    /\ sent \in Seq(Packets)
    /\ unit \in Units

\* A call is idle or in its loop.
LEMMA CallFacts ==
  ASSUME InputTypes
  PROVE  \/ call = Idle /\ ~Looping
         \/ /\ call # Idle /\ Looping /\ call \in Calls /\ call.pinput \in Seq(Byte)
            /\ call.use_buf \in BOOLEAN /\ call.drain_len \in Nat
BY DEF InputTypes, Calls, Idle, Looping

\* The invariant is TypeOK, and says what has been sent.
LEMMA TypesImplyTypeOK == InputTypes => TypeOK
BY CallFacts DEF InputTypes, TypeOK

LEMMA TypesInit == Init => InputTypes
<1>. SUFFICES ASSUME Init PROVE InputTypes
  OBVIOUS
<1>1. << >> \in Seq(Byte) /\ << >> \in Seq(Seq(Byte)) /\ << >> \in Seq(Packets)
  OBVIOUS
<1>. QED
  BY <1>1 DEF Init, InputTypes, Units

\* The wire when a delivery has taken k packets and c bytes more.
Shortened(w, k, c) == [SubSeq(w, k + 1, Len(w)) EXCEPT ![1] = SubSeq(@, c + 1, Len(@))]

\* What a delivery takes from the wire.
LEMMA DeliveryTakes ==
  ASSUME InputTypes, Deliver
  PROVE  \E k \in 0 .. Len(wire), c \in Nat, buf \in Seq(Byte), part \in Seq(Byte) :
           /\ call = Idle /\ k + c > 0 /\ rdts_input(buf) /\ sent' = sent /\ handled' = handled
           /\ buf = FlattenSeq(SubSeq(wire, 1, k)) \o part
           /\ unit' = IF unit = "torn" THEN "torn" ELSE IF c = 0 THEN "whole" ELSE "cut"
           /\ IF c = 0 THEN part = << >> /\ wire' = SubSeq(wire, k + 1, Len(wire))
              ELSE /\ k < Len(wire) /\ c \in 1 .. Len(wire[k + 1]) - 1
                   /\ part = SubSeq(wire[k + 1], 1, c)
                   /\ wire' = Shortened(wire, k, c)
<1>1. PICK k \in 0 .. Len(wire) : \E c \in CutPlaces(k) :
         LET part == IF c = 0 THEN << >> ELSE SubSeq(wire[k + 1], 1, c)
             rest == SubSeq(wire, k + 1, Len(wire))
         IN  /\ k + c > 0
             /\ rdts_input(FlattenSeq(SubSeq(wire, 1, k)) \o part)
             /\ wire' = IF c = 0 THEN rest
                        ELSE [rest EXCEPT ![1] = SubSeq(@, c + 1, Len(@))]
             /\ unit' = IF unit = "torn" THEN "torn" ELSE IF c = 0 THEN "whole" ELSE "cut"
  BY DEF Deliver
<1>2. PICK c \in CutPlaces(k) :
         LET part == IF c = 0 THEN << >> ELSE SubSeq(wire[k + 1], 1, c)
             rest == SubSeq(wire, k + 1, Len(wire))
         IN  /\ k + c > 0
             /\ rdts_input(FlattenSeq(SubSeq(wire, 1, k)) \o part)
             /\ wire' = IF c = 0 THEN rest
                        ELSE [rest EXCEPT ![1] = SubSeq(@, c + 1, Len(@))]
             /\ unit' = IF unit = "torn" THEN "torn" ELSE IF c = 0 THEN "whole" ELSE "cut"
  BY <1>1
<1>. DEFINE part == IF c = 0 THEN << >> ELSE SubSeq(wire[k + 1], 1, c)
            whole == SubSeq(wire, 1, k)
            buf == FlattenSeq(whole) \o part
<1>3. wire \in Seq(Seq(Byte)) /\ Len(wire) \in Nat
  BY DEF InputTypes
<1>4. c \in Nat /\ (c # 0 => k < Len(wire) /\ c \in 1 .. Len(wire[k + 1]) - 1)
  <2>1. CASE k = Len(wire)
    BY <2>1 DEF CutPlaces
  <2>2. CASE k # Len(wire)
    <3>1. k + 1 \in 1 .. Len(wire) /\ k < Len(wire)
      BY <1>3, <2>2
    <3>2. Len(wire[k + 1]) \in Nat
      BY <1>3, <3>1
    <3>3. c \in 0 .. Len(wire[k + 1]) - 1
      BY <2>2 DEF CutPlaces
    <3>. QED
      BY <3>1, <3>2, <3>3
  <2>. QED
    BY <2>1, <2>2
<1>5. part \in Seq(Byte)
  <2>1. CASE c = 0
    BY <2>1
  <2>2. CASE c # 0
    <3>. DEFINE s == wire[k + 1]
    <3>1. s \in Seq(Byte)
      <4>1. k + 1 \in 1 .. Len(wire)
        BY <1>3, <1>4, <2>2
      <4>. QED
        BY <1>3, <4>1
    <3>2. c \in 1 .. Len(s) - 1
      BY <1>4, <2>2
    <3>. HIDE DEF s
    <3>3. c \in 0 .. Len(s)
      BY <3>1, <3>2
    <3>4. SubSeq(s, 1, c) \in Seq(Byte)
      BY <3>1, <3>3, FirstOnes
    <3>. QED
      BY <2>2, <3>4 DEF s
  <2>. QED
    BY <2>1, <2>2
<1>6. whole \in Seq(Seq(Byte))
  BY <1>3, FirstOnes
<1>7. FlattenSeq(whole) \in Seq(Byte)
  <2>. HIDE DEF whole
  <2>. QED
    BY <1>6, FlattenType
<1>8. buf \in Seq(Byte)
  <2>. HIDE DEF whole, part
  <2>. QED
    BY <1>5, <1>7
<1>9. /\ k + c > 0 /\ rdts_input(buf)
      /\ unit' = IF unit = "torn" THEN "torn" ELSE IF c = 0 THEN "whole" ELSE "cut"
      /\ wire' = IF c = 0 THEN SubSeq(wire, k + 1, Len(wire))
                 ELSE Shortened(wire, k, c)
  BY <1>2 DEF Shortened
<1>10. IF c = 0 THEN part = << >> /\ wire' = SubSeq(wire, k + 1, Len(wire))
       ELSE /\ k < Len(wire) /\ c \in 1 .. Len(wire[k + 1]) - 1
            /\ part = SubSeq(wire[k + 1], 1, c)
            /\ wire' = Shortened(wire, k, c)
  BY <1>4, <1>9, Zenon
<1>11. call = Idle /\ sent' = sent /\ handled' = handled
  BY DEF Deliver
<1>12. buf = FlattenSeq(SubSeq(wire, 1, k)) \o part
  OBVIOUS
<1>. HIDE DEF part, whole, buf
<1>. QED
  BY <1>4, <1>5, <1>8, <1>9, <1>10, <1>11, <1>12, Zenon

\* Which two of three sequences of bytes are put together first makes no difference.
LEMMA BytesJoined ==
  ASSUME NEW x \in Seq(Byte), NEW y \in Seq(Byte), NEW z \in Seq(Byte)
  PROVE  (x \o y) \o z = x \o (y \o z)
BY Joined

\* A sequence is its first element and the others.
LEMMA FirstApart ==
  ASSUME NEW A, NEW s \in Seq(A), Len(s) >= 1, NEW tail \in Seq(A), Len(tail) = Len(s) - 1,
         \A i \in 1 .. Len(s) - 1 : tail[i] = s[1 + i]
  PROVE  s = << s[1] >> \o tail
<1>. DEFINE n == Len(s)
            u == << s[1] >>
            z == u \o tail
<1>1. n \in Nat /\ n >= 1 /\ s[1] \in A
  OBVIOUS
<1>2. u \in Seq(A) /\ Len(u) = 1 /\ u[1] = s[1]
  BY <1>1
<1>. HIDE DEF u
<1>3. /\ z \in Seq(A) /\ Len(z) = Len(u) + Len(tail)
      /\ \A i \in 1 .. Len(u) + Len(tail) : z[i] = IF i <= Len(u) THEN u[i] ELSE tail[i - Len(u)]
  BY <1>2, BothJoined
<1>. HIDE DEF z
<1>4. Len(u) + Len(tail) = n
  BY <1>1, <1>2
<1>5. ASSUME NEW i \in 1 .. n PROVE z[i] = s[i]
  <2>1. CASE i = 1
    BY <1>1, <1>2, <1>3, <1>4, <2>1
  <2>2. CASE i # 1
    <3>. DEFINE j == i - 1
    <3>1. j \in 1 .. n - 1 /\ 1 + j = i /\ ~(i <= 1)
      BY <1>1, <2>2
    <3>2. z[i] = tail[j]
      BY <1>2, <1>3, <1>4, <3>1
    <3>. HIDE DEF j
    <3>3. tail[j] = s[i]
      BY <3>1
    <3>. QED
      BY <3>2, <3>3
  <2>. QED
    BY <2>1, <2>2
<1>6. z = s
  <2>1. Len(z) = Len(s)
    BY <1>3, <1>4
  <2>2. \A i \in 1 .. Len(z) : z[i] = s[i]
    BY <1>5, <2>1
  <2>. QED
    BY <1>3, <2>1, <2>2, SeqEqual
<1>. QED
  BY <1>6 DEF z, u

\* What is left of the wire when a delivery takes k packets and c bytes more.
LEMMA CutWire ==
  ASSUME NEW w \in Seq(Seq(Byte)), NEW k \in 0 .. Len(w), k < Len(w),
         NEW c \in 1 .. Len(w[k + 1]) - 1,
         NEW W, W = Shortened(w, k, c)
  PROVE  /\ W \in Seq(Seq(Byte)) /\ Len(W) = Len(w) - k /\ \A i \in 2 .. Len(W) : W[i] = w[k + i]
         /\ (FlattenSeq(SubSeq(w, 1, k)) \o SubSeq(w[k + 1], 1, c)) \o FlattenSeq(W) = FlattenSeq(w)
<1>. DEFINE n == Len(w)
            rest == SubSeq(w, k + 1, n)
            front == SubSeq(w, 1, k)
            s == rest[1]
            part == SubSeq(s, 1, c)
            drop == SubSeq(s, c + 1, Len(s))
            tail == SubSeq(rest, 1 + 1, Len(rest))
<1>1. /\ rest \in Seq(Seq(Byte)) /\ Len(rest) = n - k
      /\ \A i \in 1 .. n - k : rest[i] = w[k + i]
  BY LastOnes
<1>2. front \in Seq(Seq(Byte)) /\ front \o rest = w
  BY FirstOnes, PartsOfOne
<1>3. n \in Nat /\ n - k >= 1 /\ Len(rest) >= 1 /\ 1 \in 1 .. n - k
  BY <1>1
<1>4. s = w[k + 1] /\ s \in Seq(Byte)
  <2>. HIDE DEF rest, n
  <2>1. s = w[k + 1]
    BY <1>1, <1>3
  <2>2. s \in Seq(Byte)
    BY <1>1, <1>3
  <2>. QED
    BY <2>1, <2>2
<1>. DEFINE new == [rest EXCEPT ![1] = drop]
<1>5. W = new
  BY DEF Shortened
<1>. HIDE DEF rest, front, n, s
<1>6. c \in 0 .. Len(s) /\ Len(s) \in Nat
  BY <1>4
<1>7. part \in Seq(Byte) /\ drop \in Seq(Byte) /\ part \o drop = s
  BY <1>4, <1>6, FirstOnes, LastOnes, PartsOfOne
<1>. HIDE DEF part, drop
<1>13. /\ new \in Seq(Seq(Byte)) /\ Len(new) = Len(rest) /\ new[1] = drop
       /\ \A i \in 2 .. Len(rest) : new[i] = rest[i]
  BY <1>1, <1>3, <1>7
<1>14. /\ tail \in Seq(Seq(Byte)) /\ Len(tail) = Len(rest) - 1
       /\ \A i \in 1 .. Len(rest) - 1 : tail[i] = rest[1 + i]
  <2>1. 1 \in 0 .. Len(rest)
    BY <1>3
  <2>. QED
    BY <1>1, <2>1, LastOnes
<1>. HIDE DEF new, tail
<1>8. rest = << s >> \o tail /\ new = << drop >> \o tail
  <2>1. rest = << rest[1] >> \o tail
    BY <1>1, <1>3, <1>14, FirstApart
  <2>2. \A i \in 1 .. Len(rest) - 1 : 1 + i \in 2 .. Len(rest)
    BY <1>1, <1>3
  <2>3. \A i \in 1 .. Len(new) - 1 : tail[i] = new[1 + i]
    BY <1>13, <1>14, <2>2
  <2>4. new = << new[1] >> \o tail
    BY <1>3, <1>13, <1>14, <2>3, FirstApart
  <2>. QED
    BY <1>13, <2>1, <2>4 DEF s
<1>9. W \in Seq(Seq(Byte)) /\ Len(W) = n - k /\ \A i \in 2 .. Len(W) : W[i] = w[k + i]
  <2>1. W \in Seq(Seq(Byte)) /\ Len(W) = Len(rest) /\ \A i \in 2 .. Len(W) : W[i] = rest[i]
    BY <1>5, <1>13
  <2>2. Len(W) = n - k
    BY <1>1, <2>1
  <2>3. 2 .. Len(W) \subseteq 1 .. n - k
    BY <1>3, <2>2
  <2>. QED
    BY <1>1, <2>1, <2>2, <2>3
<1>10. /\ FlattenSeq(rest) = s \o FlattenSeq(tail) /\ FlattenSeq(W) = drop \o FlattenSeq(tail)
       /\ FlattenSeq(w) = FlattenSeq(front) \o FlattenSeq(rest)
  <2>1. rest = << s >> \o tail /\ W = << drop >> \o tail
    BY <1>5, <1>8
  <2>2. FlattenSeq(<< s >> \o tail) = s \o FlattenSeq(tail)
    BY <1>4, <1>14, FlattenFirst
  <2>3. FlattenSeq(<< drop >> \o tail) = drop \o FlattenSeq(tail)
    BY <1>7, <1>14, FlattenFirst
  <2>4. FlattenSeq(front \o rest) = FlattenSeq(front) \o FlattenSeq(rest)
    BY <1>1, <1>2, FlattenConcat
  <2>. QED
    BY <1>2, <2>1, <2>2, <2>3, <2>4
<1>11. FlattenSeq(tail) \in Seq(Byte) /\ FlattenSeq(front) \in Seq(Byte)
  BY <1>2, <1>14, FlattenType
<1>12. (FlattenSeq(front) \o part) \o FlattenSeq(W) = FlattenSeq(w)
  <2>. DEFINE F == FlattenSeq(front)
              T == FlattenSeq(tail)
  <2>1. F \in Seq(Byte) /\ T \in Seq(Byte)
    BY <1>11
  <2>. HIDE DEF F, T
  <2>2. drop \o T \in Seq(Byte)
    BY <1>7, <2>1
  <2>3. (F \o part) \o (drop \o T) = F \o (part \o (drop \o T))
    BY <1>7, <2>1, <2>2, BytesJoined
  <2>4. part \o (drop \o T) = s \o T
    BY <1>7, <2>1, BytesJoined
  <2>. QED
    BY <1>10, <2>3, <2>4 DEF F, T
<1>. QED
  BY <1>4, <1>9, <1>12 DEF part, front, n

\* What a delivery leaves on the wire: with what it takes, all that was there.
LEMMA DeliveryLeaves ==
  ASSUME InputTypes, Deliver
  PROVE  \E k \in 0 .. Len(wire), buf \in Seq(Byte) :
           /\ call = Idle /\ rdts_input(buf) /\ sent' = sent /\ handled' = handled
           /\ buf \o FlattenSeq(wire') = FlattenSeq(wire)
           /\ wire' \in Seq(Seq(Byte)) /\ Len(wire') = Len(wire) - k
           /\ \A i \in 2 .. Len(wire') : wire'[i] = wire[k + i]
           /\ unit' \in Units /\ (unit' = "torn" <=> unit = "torn")
           /\ unit' = "whole" => k >= 1 /\ \A i \in 1 .. Len(wire') : wire'[i] = wire[k + i]
<1>1. PICK k \in 0 .. Len(wire), c \in Nat, buf \in Seq(Byte), part \in Seq(Byte) :
           /\ call = Idle /\ k + c > 0 /\ rdts_input(buf) /\ sent' = sent /\ handled' = handled
           /\ buf = FlattenSeq(SubSeq(wire, 1, k)) \o part
           /\ unit' = IF unit = "torn" THEN "torn" ELSE IF c = 0 THEN "whole" ELSE "cut"
           /\ IF c = 0 THEN part = << >> /\ wire' = SubSeq(wire, k + 1, Len(wire))
              ELSE /\ k < Len(wire) /\ c \in 1 .. Len(wire[k + 1]) - 1
                   /\ part = SubSeq(wire[k + 1], 1, c)
                   /\ wire' = Shortened(wire, k, c)
  BY DeliveryTakes
<1>2. wire \in Seq(Seq(Byte)) /\ Len(wire) \in Nat /\ k \in Nat
  BY DEF InputTypes
<1>3. unit' \in Units /\ (unit' = "torn" <=> unit = "torn") /\ (unit' = "whole" => c = 0)
  BY <1>1 DEF Units
<1>4. CASE c = 0
  <2>. DEFINE front == SubSeq(wire, 1, k)
              rest == SubSeq(wire, k + 1, Len(wire))
  <2>1. wire' = rest /\ part = << >> /\ k >= 1
    BY <1>1, <1>2, <1>4
  <2>2. /\ rest \in Seq(Seq(Byte)) /\ Len(rest) = Len(wire) - k
        /\ \A i \in 1 .. Len(wire) - k : rest[i] = wire[k + i]
    BY <1>2, LastOnes
  <2>3. front \in Seq(Seq(Byte)) /\ front \o rest = wire
    BY <1>2, FirstOnes, PartsOfOne
  <2>4. buf = FlattenSeq(front)
    <3>1. FlattenSeq(front) \in Seq(Byte)
      <4>. HIDE DEF front
      <4>. QED
        BY <2>3, FlattenType
    <3>. HIDE DEF front
    <3>2. FlattenSeq(front) \o << >> = FlattenSeq(front)
      BY <3>1, ConcatEmptySeq
    <3>. QED
      BY <1>1, <2>1, <3>2 DEF front
  <2>. HIDE DEF front, rest
  <2>5. FlattenSeq(front \o rest) = FlattenSeq(front) \o FlattenSeq(rest)
    BY <2>2, <2>3, FlattenConcat
  <2>6. buf \o FlattenSeq(wire') = FlattenSeq(wire)
    BY <2>1, <2>3, <2>4, <2>5
  <2>7. 2 .. Len(wire') \subseteq 1 .. Len(wire) - k
    BY <1>2, <2>1, <2>2
  <2>. QED
    BY <1>1, <1>3, <2>1, <2>2, <2>6, <2>7
<1>5. CASE c # 0
  <2>1. /\ wire' \in Seq(Seq(Byte)) /\ Len(wire') = Len(wire) - k
        /\ \A i \in 2 .. Len(wire') : wire'[i] = wire[k + i]
        /\ (FlattenSeq(SubSeq(wire, 1, k)) \o SubSeq(wire[k + 1], 1, c)) \o FlattenSeq(wire')
             = FlattenSeq(wire)
    <3>. DEFINE W == Shortened(wire, k, c)
    <3>1. W = Shortened(wire, k, c) /\ wire' = W /\ k < Len(wire) /\ c \in 1 .. Len(wire[k + 1]) - 1
      BY <1>1, <1>5
    <3>. HIDE DEF W
    <3>2. /\ W \in Seq(Seq(Byte)) /\ Len(W) = Len(wire) - k /\ \A i \in 2 .. Len(W) : W[i] = wire[k + i]
          /\ (FlattenSeq(SubSeq(wire, 1, k)) \o SubSeq(wire[k + 1], 1, c)) \o FlattenSeq(W)
               = FlattenSeq(wire)
      BY <1>2, <3>1, CutWire, Zenon
    <3>. QED
      BY <3>1, <3>2
  <2>2. buf \o FlattenSeq(wire') = FlattenSeq(wire)
    BY <1>1, <1>5, <2>1
  <2>. QED
    BY <1>1, <1>3, <1>5, <2>1, <2>2
<1>. QED
  BY <1>4, <1>5

\* Every step keeps the types.
LEMMA TypesNext == InputAssumption /\ InputTypes /\ [Next]_vars => InputTypes'
<1>. SUFFICES ASSUME InputAssumption, InputTypes, [Next]_vars PROVE InputTypes'
  OBVIOUS
<1>1. CASE PeerSends
  <2>1. PICK pkt \in Packets : wire' = Append(wire, Encoded(pkt)) /\ sent' = Append(sent, pkt)
    BY <1>1 DEF PeerSends
  <2>2. Encoded(pkt) \in Seq(Byte)
    BY PacketEncoded
  <2>3. wire' \in Seq(Seq(Byte)) /\ sent' \in Seq(Packets)
    BY <2>1, <2>2, AppendProperties DEF InputTypes
  <2>4. rcv_buf' = rcv_buf /\ call' = call /\ unit' = unit
    BY <1>1 DEF PeerSends
  <2>. QED
    BY <2>3, <2>4 DEF InputTypes
<1>2. CASE Reconnect
  <2>1. << >> \in Seq(Seq(Byte)) /\ << >> \in Seq(Packets)
    OBVIOUS
  <2>. QED
    BY <1>2, <2>1 DEF Reconnect, InputTypes, Units
<1>3. CASE Deliver
  <2>1. PICK k \in 0 .. Len(wire), buf \in Seq(Byte) :
          /\ rdts_input(buf) /\ sent' = sent /\ wire' \in Seq(Seq(Byte)) /\ unit' \in Units
    BY <1>3, DeliveryLeaves
  <2>2. rcv_buf \in Seq(Byte) /\ sent \in Seq(Packets)
    BY DEF InputTypes
  <2>3. rcv_buf \o buf \in Seq(Byte)
    BY <2>2, BothJoined
  <2>4. rcv_buf' \in Seq(Byte)
    BY <2>1, <2>2, <2>3 DEF rdts_input
  <2>5. call' \in Calls
    BY <2>1, <2>3 DEF rdts_input, Calls
  <2>. QED
    BY <2>1, <2>2, <2>4, <2>5 DEF InputTypes
<1>4. CASE TooShort
  <2>1. /\ call.pinput \in Seq(Byte) /\ call.use_buf \in BOOLEAN /\ call.drain_len \in Nat
        /\ rcv_buf \in Seq(Byte)
    BY <1>4, CallFacts DEF TooShort, InputTypes
  <2>2. Keep \in Seq(Byte)
    <3>1. rcv_buf \o call.pinput \in Seq(Byte)
      BY <2>1, BothJoined
    <3>. QED
      BY <2>1, <3>1 DEF Keep
  <2>3. Drained(Keep) \in Seq(Byte)
    <3>. DEFINE b == Keep
                m == call.drain_len + 1
                n == Len(b)
    <3>1. \A i \in m .. n : i \in 1 .. n
      BY <2>1
    <3>2. \A i \in m .. n : b[i] \in Byte
      BY <2>2, <3>1
    <3>3. m \in Int /\ n \in Int
      BY <2>1, <2>2
    <3>. HIDE DEF m, n
    <3>4. SubSeq(b, m, n) \in Seq(Byte)
      BY <3>2, <3>3, SubSeqProperties
    <3>. QED
      BY <2>2, <3>4 DEF Drained, m, n
  <2>4. rcv_buf' \in Seq(Byte) /\ call' = Idle /\ wire' = wire /\ sent' = sent /\ unit' = unit
    BY <1>4, <2>3 DEF TooShort
  <2>. QED
    BY <2>4 DEF InputTypes
<1>5. CASE HeaderOk
  <2>1. /\ call \in Calls /\ call.pinput \in Seq(Byte) /\ call.drain_len \in Nat
    BY <1>5, CallFacts DEF HeaderOk, HasHeader
  <2>. DEFINE p == call.pinput
              l == Parsed.pkg_len
  <2>2. l \in Nat
    <3>1. Len(p) >= 1 /\ parse_header(p).r = "DECODE_HEADER_OK"
      <4>1. Len(p) > 1 /\ Len(p) \in Nat
        BY <1>5, <2>1 DEF HeaderOk, HasHeader
      <4>. QED
        BY <1>5, <4>1 DEF HeaderOk, Parsed
    <3>. QED
      BY <2>1, <3>1, ParsedLength DEF Parsed
  <2>3. SubSeq(p, l + 1, Len(p)) \in Seq(Byte)
    <3>. HIDE DEF p, l
    <3>1. p \in Seq(Byte) /\ Len(p) \in Nat
      BY <2>1 DEF p
    <3>2. \A i \in l + 1 .. Len(p) : i \in 1 .. Len(p)
      BY <2>2
    <3>3. \A i \in l + 1 .. Len(p) : p[i] \in Byte
      BY <3>1, <3>2
    <3>4. l + 1 \in Int /\ Len(p) \in Int
      BY <2>2, <3>1
    <3>. QED
      BY <3>3, <3>4, SubSeqProperties
  <2>4. call.drain_len + l \in Nat
    BY <2>1, <2>2
  <2>5. call' = [call EXCEPT !.pinput = SubSeq(p, l + 1, Len(p)), !.drain_len = call.drain_len + l]
    BY <1>5 DEF HeaderOk
  <2>6. call' \in Calls
    <3>. HIDE DEF p, l
    <3>. QED
      BY <2>1, <2>3, <2>4, <2>5 DEF Calls
  <2>7. rcv_buf' = rcv_buf /\ wire' = wire /\ sent' = sent /\ unit' = unit
    BY <1>5 DEF HeaderOk
  <2>. QED
    BY <2>6, <2>7 DEF InputTypes
<1>6. CASE HeaderLack
  <2>1. call.pinput \in Seq(Byte) /\ rcv_buf \in Seq(Byte)
    BY <1>6, CallFacts DEF HeaderLack, HasHeader, InputTypes
  <2>2. rcv_buf \o call.pinput \in Seq(Byte)
    BY <2>1, BothJoined
  <2>. QED
    BY <1>6, <2>1, <2>2 DEF HeaderLack, Keep, InputTypes
<1>7. CASE HeaderErr
  BY <1>7 DEF HeaderErr, InputTypes
<1>8. CASE UNCHANGED vars
  BY <1>8 DEF vars, InputTypes
<1>. QED
  BY <1>1, <1>2, <1>3, <1>4, <1>5, <1>6, <1>7, <1>8 DEF Next, Turn

\* The bytes that wait and are under way are bytes, and a call that has been made is
\* in its loop, whatever was delivered: RdtInput.TypeOK.
THEOREM InputTypeCorrect ==
  ASSUME InputAssumption
  PROVE  Spec => []TypeOK
<1>1. Init => InputTypes
  BY TypesInit
<1>2. InputTypes /\ [Next]_vars => InputTypes'
  BY TypesNext
<1>. QED
  BY <1>1, <1>2, TypesImplyTypeOK, PTL DEF Spec

-----------------------------------------------------------------------------
(* What becomes of the packets sent *)

\* The bytes of packets.
Bytes(pkts) == Mapped(Encodings, pkts)

\* What is left of the input of the call, or waits for the next one.
Pending == IF call = Idle THEN rcv_buf ELSE call.pinput

\* Between calls one byte at most waits.  In a call, the input is what is left of
\* rcv_buf, or rcv_buf is empty, or the call never ends.
Buffered ==
    \/ call = Idle /\ Len(rcv_buf) <= 1
    \/ /\ Looping
       /\ \/ /\ call.use_buf
             /\ call.drain_len <= Len(rcv_buf)
             /\ call.pinput = SubSeq(rcv_buf, call.drain_len + 1, Len(rcv_buf))
          \/ ~call.use_buf /\ rcv_buf = << >>
          \/ HasHeader /\ Parsed.r = "DECODE_HEADER_LACK"

\* The packets sent are those that are done with, and those whose bytes are still
\* to come, after the stray byte of an ack of 0.
Splits(done, todo, z) ==
    /\ sent = done \o todo
    /\ handled = Mapped(Meanings, done)
    /\ Pending \o FlattenSeq(wire) = z \o Bytes(todo)

Accounted ==
    \E done \in Seq(Packets), todo \in Seq(Packets), z \in {<< >>, << 0 >>} : Splits(done, todo, z)

\* The packets sent last are under way, the first of them perhaps in part.
Carries(gone, way) ==
    /\ sent = gone \o way
    /\ Len(wire) = Len(way)
    /\ \A i \in 1 .. Len(wire) : i > 1 \/ unit = "whole" => wire[i] = Encoded(way[i])

UnderWay == \E gone \in Seq(Packets), way \in Seq(Packets) : Carries(gone, way)

InputInv == InputTypes /\ (unit # "torn" => Buffered /\ Accounted /\ UnderWay)

LEMMA MapTypes ==
  ASSUME InputAssumption
  PROVE  Makes(Encodings, Packets, Byte) /\ Makes(Meanings, Packets, Packets)
BY PacketEncoded, MeaningType DEF Encodings, Meanings, Makes

LEMMA BytesType ==
  ASSUME InputAssumption, NEW s \in Seq(Packets)
  PROVE  Bytes(s) \in Seq(Byte)
BY MapTypes, MappedJoined DEF Bytes

\* Bytes are put together as packets are.
LEMMA BytesTogether ==
  ASSUME InputAssumption, NEW s \in Seq(Packets), NEW t \in Seq(Packets)
  PROVE  Bytes(s \o t) = Bytes(s) \o Bytes(t)
<1>. DEFINE F == Encodings
<1>1. Makes(F, Packets, Byte)
  BY MapTypes
<1>. HIDE DEF F
<1>2. Mapped(F, s \o t) = Mapped(F, s) \o Mapped(F, t)
  BY <1>1, MappedTogether DEF Together
<1>. QED
  BY <1>2 DEF Bytes, F

\* The bytes of no packets, and of one.
LEMMA BytesOfOne ==
  ASSUME InputAssumption, NEW pkt \in Packets
  PROVE  Bytes(<< >>) = << >> /\ Bytes(<< pkt >>) = Encoded(pkt)
<1>1. Encodings[pkt] = Encoded(pkt)
  BY DEF Encodings
<1>. QED
  BY <1>1, MapTypes, MappedNone, MappedOne DEF Bytes

\* The bytes of packets are those of the first and of the others; two at least.
LEMMA BytesOfFirst ==
  ASSUME InputAssumption, NEW s \in Seq(Packets), s # << >>
  PROVE  \E pkt \in Packets, rest \in Seq(Packets) :
           s = << pkt >> \o rest /\ Bytes(s) = Encoded(pkt) \o Bytes(rest) /\ Len(Bytes(s)) >= 2
<1>. DEFINE rest == SubSeq(s, 1 + 1, Len(s))
            pkt == s[1]
            one == << pkt >>
<1>1. Len(s) \in Nat /\ Len(s) >= 1 /\ pkt \in Packets /\ 1 \in 0 .. Len(s)
  OBVIOUS
<1>2. rest \in Seq(Packets) /\ Len(rest) = Len(s) - 1 /\ \A i \in 1 .. Len(s) - 1 : rest[i] = s[1 + i]
  BY <1>1, LastOnes
<1>. HIDE DEF rest
<1>3. s = << s[1] >> \o rest
  BY <1>1, <1>2, FirstApart
<1>4. one \in Seq(Packets) /\ s = one \o rest
  BY <1>1, <1>3
<1>5. Bytes(one) = Encoded(pkt)
  BY <1>1, BytesOfOne
<1>. HIDE DEF one
<1>6. Bytes(s) = Encoded(pkt) \o Bytes(rest)
  BY <1>2, <1>4, <1>5, BytesTogether
<1>7. Len(Bytes(s)) >= 2
  <2>1. Encoded(pkt) \in Seq(Byte) /\ Len(Encoded(pkt)) >= 2 /\ Bytes(rest) \in Seq(Byte)
    BY <1>1, <1>2, PacketEncoded, BytesType
  <2>2. Len(Bytes(s)) = Len(Encoded(pkt)) + Len(Bytes(rest))
    BY <1>6, <2>1, BothJoined
  <2>3. Len(Encoded(pkt)) \in Nat /\ Len(Bytes(rest)) \in Nat
    BY <2>1
  <2>. QED
    BY <2>1, <2>2, <2>3
<1>. QED
  BY <1>1, <1>2, <1>3, <1>6, <1>7

\* What two sequences have in common at the end can be left out.
LEMMA SameEnd ==
  ASSUME NEW A, NEW x \in Seq(A), NEW y \in Seq(A), NEW z \in Seq(A), x \o z = y \o z
  PROVE  x = y
<1>1. Len(x) \in Nat /\ Len(y) \in Nat /\ Len(z) \in Nat
  OBVIOUS
<1>2. Len(x) + Len(z) = Len(y) + Len(z)
  <2>1. Len(x \o z) = Len(x) + Len(z) /\ Len(y \o z) = Len(y) + Len(z)
    BY BothJoined
  <2>. QED
    BY <2>1
<1>3. Len(x) = Len(y) /\ Len(x) >= Len(y)
  BY <1>1, <1>2
<1>4. \A i \in 1 .. Len(y) : x[i] = y[i]
  BY <1>3, TakenOff
<1>. QED
  BY <1>3, <1>4, SeqEqual

\* One of two sequences is the end of the other.
Ends(b, d) == \E m \in Seq(Packets) : b = m \o d \/ d = m \o b

\* Of two splits of the packets sent, one leaves at the end what the other does, and
\* perhaps more.
LEMMA TwoSplits ==
  ASSUME NEW a \in Seq(Packets), NEW b \in Seq(Packets), NEW c \in Seq(Packets), NEW d \in Seq(Packets),
         a \o b = c \o d
  PROVE  Ends(b, d)
<1>1. Len(a) \in Nat /\ Len(c) \in Nat
  OBVIOUS
<1>2. CASE Len(c) >= Len(a)
  <2>1. SubSeq(c, Len(a) + 1, Len(c)) \o d = b
    BY <1>2, TakenOff
  <2>2. SubSeq(c, Len(a) + 1, Len(c)) \in Seq(Packets)
    <3>1. Len(a) \in 0 .. Len(c)
      BY <1>1, <1>2
    <3>. QED
      BY <3>1, LastOnes
  <2>. QED
    BY <2>1, <2>2 DEF Ends
<1>3. CASE Len(a) >= Len(c)
  <2>1. SubSeq(a, Len(c) + 1, Len(a)) \o b = d
    BY <1>3, TakenOff
  <2>2. SubSeq(a, Len(c) + 1, Len(a)) \in Seq(Packets)
    <3>1. Len(c) \in 0 .. Len(a)
      BY <1>1, <1>3
    <3>. QED
      BY <3>1, LastOnes
  <2>. QED
    BY <2>1, <2>2 DEF Ends
<1>4. Len(c) >= Len(a) \/ Len(a) >= Len(c)
  BY <1>1
<1>. QED
  BY <1>2, <1>3, <1>4

\* Whole packets under way are their bytes.
LEMMA WholeWire ==
  ASSUME InputAssumption, InputTypes, unit = "whole",
         NEW gone \in Seq(Packets), NEW way \in Seq(Packets), Carries(gone, way)
  PROVE  FlattenSeq(wire) = Bytes(way)
<1>1. wire \in Seq(Seq(Byte)) /\ Len(wire) = Len(way) /\ Len(way) \in Nat
  BY DEF InputTypes, Carries
<1>2. ASSUME NEW i \in 1 .. Len(way) PROVE wire[i] = Encodings[way[i]]
  <2>1. wire[i] = Encoded(way[i])
    BY <1>1 DEF Carries
  <2>2. way[i] \in Packets
    OBVIOUS
  <2>. QED
    BY <2>1, <2>2 DEF Encodings
<1>. DEFINE m == [i \in 1 .. Len(way) |-> Encodings[way[i]]]
<1>3. m \in Seq(Seq(Byte)) /\ Len(m) = Len(way) /\ \A i \in 1 .. Len(way) : m[i] = Encodings[way[i]]
  <2>1. \A i \in 1 .. Len(way) : Encodings[way[i]] \in Seq(Byte)
    <3>1. \A i \in 1 .. Len(way) : way[i] \in Packets
      OBVIOUS
    <3>. QED
      BY <3>1, MapTypes DEF Makes
  <2>. QED
    BY <1>1, <2>1
<1>. HIDE DEF m
<1>4. wire = m
  BY <1>1, <1>2, <1>3, SeqEqual
<1>. QED
  BY <1>4 DEF Bytes, Mapped, m

\* When all deliveries have been whole packets, and no call is in progress, the
\* packets still to come are those under way.
LEMMA RestIsUnderWay ==
  ASSUME InputAssumption, InputTypes, unit = "whole", call = Idle, Len(rcv_buf) <= 1,
         NEW done \in Seq(Packets), NEW todo \in Seq(Packets), NEW z \in {<< >>, << 0 >>},
         Splits(done, todo, z),
         NEW gone \in Seq(Packets), NEW way \in Seq(Packets), Carries(gone, way)
  PROVE  rcv_buf = z /\ todo = way
<1>. DEFINE b == Bytes(todo)
            w == Bytes(way)
<1>1. b \in Seq(Byte) /\ w \in Seq(Byte)
  BY BytesType
<1>2. rcv_buf \o w = z \o b
  BY WholeWire DEF Splits, Pending
<1>3. z \in Seq(Byte) /\ Len(z) <= 1 /\ rcv_buf \in Seq(Byte)
  <2>1. << >> \in Seq(Byte) /\ << 0 >> \in Seq(Byte) /\ Len(<< >>) <= 1 /\ Len(<< 0 >>) <= 1
    BY DEF Byte
  <2>. QED
    BY <2>1 DEF InputTypes
<1>4. done \o todo = gone \o way
  BY DEF Splits, Carries
<1>5. PICK m \in Seq(Packets) : todo = m \o way \/ way = m \o todo
  <2>1. Ends(todo, way)
    BY <1>4, TwoSplits
  <2>. QED
    BY <2>1 DEF Ends
<1>. DEFINE g == Bytes(m)
<1>6. g \in Seq(Byte)
  BY BytesType
<1>7. b = g \o w \/ w = g \o b
  BY <1>5, BytesTogether
<1>8. (m # << >> => Len(g) >= 2) /\ (m = << >> => g = << >>)
  <2>1. m # << >> => Len(g) >= 2
    BY BytesOfFirst
  <2>2. m = << >> => g = << >>
    BY MappedNone, Zenon DEF Bytes
  <2>. QED
    BY <2>1, <2>2
<1>. HIDE DEF b, w, g
<1>9. CASE todo = m \o way
  <2>1. b = g \o w
    BY <1>9, BytesTogether DEF b, g, w
  <2>2. rcv_buf \o w = (z \o g) \o w
    BY <1>1, <1>2, <1>3, <1>6, <2>1, BytesJoined
  <2>3. z \o g \in Seq(Byte) /\ Len(z \o g) = Len(z) + Len(g)
    BY <1>3, <1>6, BothJoined
  <2>4. rcv_buf = z \o g
    BY <1>1, <1>3, <2>2, <2>3, SameEnd
  <2>5. Len(z) \in Nat /\ Len(g) \in Nat
    BY <1>3, <1>6
  <2>6. Len(rcv_buf) = Len(z) + Len(g)
    BY <2>3, <2>4
  <2>7. m = << >> /\ g = << >>
    BY <1>8, <2>5, <2>6
  <2>8. z \o << >> = z /\ << >> \o way = way
    BY <1>3, ConcatEmptySeq
  <2>. QED
    BY <1>9, <2>4, <2>7, <2>8
<1>10. CASE way = m \o todo
  <2>1. w = g \o b
    BY <1>10, BytesTogether DEF b, g, w
  <2>2. (rcv_buf \o g) \o b = z \o b
    BY <1>1, <1>2, <1>3, <1>6, <2>1, BytesJoined
  <2>3. rcv_buf \o g \in Seq(Byte) /\ Len(rcv_buf \o g) = Len(rcv_buf) + Len(g)
    BY <1>3, <1>6, BothJoined
  <2>4. rcv_buf \o g = z
    BY <1>1, <1>3, <2>2, <2>3, SameEnd
  <2>5. Len(rcv_buf) \in Nat /\ Len(g) \in Nat
    BY <1>3, <1>6
  <2>6. Len(z) = Len(rcv_buf) + Len(g)
    BY <2>3, <2>4
  <2>7. m = << >> /\ g = << >>
    BY <1>3, <1>8, <2>5, <2>6
  <2>8. rcv_buf \o << >> = rcv_buf /\ << >> \o todo = todo
    BY <1>3, ConcatEmptySeq
  <2>. QED
    BY <1>10, <2>4, <2>7, <2>8
<1>. QED
  BY <1>5, <1>9, <1>10

\* FirstPacket, of a packet whose bytes are all there.
Begins(p, E) == Len(p) >= Len(E) /\ \A i \in 1 .. Len(E) : p[i] = E[i]

LEMMA WholePacket ==
  ASSUME InputAssumption, NEW pkt \in Packets, NEW p \in Seq(Byte), Len(p) > 1,
         Begins(p, Encoded(pkt))
  PROVE  /\ Handlers(parse_header(p).ack_offset, parse_header(p).data) = MeaningOf(pkt)
         /\ IF pkt = AckPacket(0) THEN parse_header(p).pkg_len = 1
            ELSE parse_header(p).pkg_len = Len(Encoded(pkt))
<1>. DEFINE E == Encoded(pkt)
            P == parse_header(p)
<1>1. E = Encoded(pkt) /\ P = parse_header(p)
  OBVIOUS
<1>2. Len(p) >= Len(E) /\ \A i \in 1 .. Len(E) : p[i] = E[i]
  BY DEF Begins
<1>. HIDE DEF E, P
<1>3. /\ Handlers(P.ack_offset, P.data) = MeaningOf(pkt)
      /\ IF pkt = AckPacket(0) THEN P.pkg_len = 1 ELSE P.pkg_len = Len(E)
  BY <1>1, <1>2, FirstPacket
<1>. QED
  BY <1>3 DEF E, P

\* x and y together are a and b together.
Same(x, y, a, b) == x \o y = a \o b

\* TakenOff, of bytes.
LEMMA BytesTaken ==
  ASSUME NEW x \in Seq(Byte), NEW y \in Seq(Byte), NEW a \in Seq(Byte), NEW b \in Seq(Byte),
         Same(x, y, a, b), Len(x) >= Len(a)
  PROVE  /\ \A i \in 1 .. Len(a) : x[i] = a[i]
         /\ Same(SubSeq(x, Len(a) + 1, Len(x)), y, << >>, b)
<1>1. x \o y = a \o b
  BY DEF Same
<1>2. (\A i \in 1 .. Len(a) : x[i] = a[i]) /\ SubSeq(x, Len(a) + 1, Len(x)) \o y = b
  BY <1>1, TakenOff
<1>3. << >> \o b = b
  BY ConcatEmptySeq
<1>. QED
  BY <1>2, <1>3 DEF Same

\* No bytes before others change nothing.
LEMMA NothingBefore ==
  ASSUME NEW A, NEW s \in Seq(A)
  PROVE  << >> \o s = s /\ s \o << >> = s
BY ConcatEmptySeq

\* What is made of one packet.
LEMMA HandledOne ==
  ASSUME InputAssumption, NEW pkt \in Packets
  PROVE  << pkt >> \in Seq(Packets) /\ Mapped(Meanings, << pkt >>) = MeaningOf(pkt)
<1>1. Makes(Meanings, Packets, Packets)
  BY MapTypes
<1>2. Mapped(Meanings, << pkt >>) = Meanings[pkt]
  BY <1>1, MappedOne
<1>3. Meanings[pkt] = MeaningOf(pkt)
  BY DEF Meanings
<1>. QED
  BY <1>2, <1>3

\* What is made of packets is put together as they are.
LEMMA HandledTogether ==
  ASSUME InputAssumption, NEW s \in Seq(Packets), NEW t \in Seq(Packets)
  PROVE  /\ Mapped(Meanings, s) \in Seq(Packets)
         /\ Mapped(Meanings, s \o t) = Mapped(Meanings, s) \o Mapped(Meanings, t)
<1>. DEFINE F == Meanings
<1>1. Makes(F, Packets, Packets)
  BY MapTypes
<1>. HIDE DEF F
<1>2. Mapped(F, s \o t) = Mapped(F, s) \o Mapped(F, t)
  BY <1>1, MappedTogether DEF Together
<1>3. Mapped(F, s) \in Seq(Packets)
  BY <1>1, MappedJoined
<1>. QED
  BY <1>2, <1>3 DEF F

\* What parsing P of the input p, which F follows, takes from the packets to come, and
\* what it leaves.
Takes(P, p, F, todo) ==
  \E taken \in Seq(Packets), rest \in Seq(Packets), y \in {<< >>, << 0 >>} :
    /\ todo = taken \o rest
    /\ Handlers(P.ack_offset, P.data) = Mapped(Meanings, taken)
    /\ P.pkg_len \in 1 .. Len(p)
    /\ Same(SubSeq(p, P.pkg_len + 1, Len(p)), F, y, Bytes(rest))

\* A packet parsed is the stray byte, or the next of those to come, all of its bytes
\* or all but the stray one.
LEMMA ParsedOk ==
  ASSUME InputAssumption, NEW p \in Seq(Byte), Len(p) > 1, NEW F \in Seq(Byte),
         NEW todo \in Seq(Packets), NEW z \in {<< >>, << 0 >>}, Same(p, F, z, Bytes(todo)),
         parse_header(p).r = "DECODE_HEADER_OK"
  PROVE  Takes(parse_header(p), p, F, todo)
<1>. DEFINE P == parse_header(p)
<1>0. P = parse_header(p) /\ P.r = "DECODE_HEADER_OK"
  OBVIOUS
<1>. HIDE DEF P
<1>. SUFFICES Takes(P, p, F, todo)
  BY DEF P
<1>. USE <1>0 DEF Takes
<1>1. Len(p) \in Nat /\ Len(p) >= 1
  OBVIOUS
<1>2. << 0 >> \in Seq(Byte) /\ Len(<< 0 >>) = 1 /\ << 0 >>[1] = 0 /\ << >> \in Seq(Packets)
  BY DEF Byte
<1>3. Bytes(todo) \in Seq(Byte)
  BY BytesType
<1>4. CASE z = << 0 >>
  <2>. DEFINE o == << 0 >>
              B == Bytes(todo)
  <2>1. o \in Seq(Byte) /\ Len(o) = 1 /\ o[1] = 0 /\ B \in Seq(Byte) /\ Same(p, F, o, B)
    BY <1>2, <1>3, <1>4
  <2>. HIDE DEF o, B
  <2>2. (\A i \in 1 .. Len(o) : p[i] = o[i]) /\ Same(SubSeq(p, Len(o) + 1, Len(p)), F, << >>, B)
    BY <1>1, <2>1, BytesTaken
  <2>3. p[1] = 0
    BY <2>1, <2>2
  <2>4. P = [r |-> "DECODE_HEADER_OK", ack_offset |-> 0, data |-> << >>, pkg_len |-> 1]
    BY <1>1, <2>3, ParseZero
  <2>5. P.pkg_len = 1 /\ P.ack_offset = 0 /\ P.data = << >>
    BY <2>4
  <2>6. Handlers(0, << >>) = Mapped(Meanings, << >>)
    BY MappedNone DEF Handlers
  <2>7. << >> \o todo = todo
    BY NothingBefore
  <2>8. Same(SubSeq(p, P.pkg_len + 1, Len(p)), F, << >>, Bytes(todo))
    BY <2>1, <2>2, <2>5 DEF B
  <2>9. P.pkg_len \in 1 .. Len(p)
    BY <1>1, <2>5
  <2>10. Handlers(P.ack_offset, P.data) = Mapped(Meanings, << >>)
    BY <2>5, <2>6
  <2>. QED
    BY <1>2, <2>7, <2>8, <2>9, <2>10
<1>5. CASE z = << >>
  <2>1. p \o F = Bytes(todo)
    BY <1>3, <1>5, NothingBefore DEF Same
  <2>2. todo # << >>
    <3>1. Len(p \o F) = Len(p) + Len(F) /\ Len(F) \in Nat
      BY BothJoined
    <3>2. Len(Bytes(todo)) > 1
      BY <1>1, <2>1, <3>1
    <3>3. Bytes(<< >>) = << >> /\ Len(<< >>) = 0
      BY MappedNone DEF Bytes
    <3>. QED
      BY <3>2, <3>3
  <2>3. PICK pkt \in Packets, rest \in Seq(Packets) :
           todo = << pkt >> \o rest /\ Bytes(todo) = Encoded(pkt) \o Bytes(rest)
    BY <2>2, BytesOfFirst
  <2>. DEFINE E == Encoded(pkt)
              R == Bytes(rest)
  <2>4. E \in Seq(Byte) /\ R \in Seq(Byte) /\ E = Encoded(pkt) /\ Len(E) >= 2
    BY PacketEncoded, BytesType
  <2>. HIDE DEF E, R
  <2>5. Same(p, F, E, R)
    BY <2>1, <2>3 DEF E, R, Same
  <2>6. << pkt >> \in Seq(Packets) /\ Mapped(Meanings, << pkt >>) = MeaningOf(pkt)
    BY HandledOne
  <2>7. CASE Len(p) >= Len(E)
    <3>1. (\A i \in 1 .. Len(E) : p[i] = E[i]) /\ Same(SubSeq(p, Len(E) + 1, Len(p)), F, << >>, R)
      BY <2>4, <2>5, <2>7, BytesTaken
    <3>2. /\ Handlers(P.ack_offset, P.data) = MeaningOf(pkt)
          /\ IF pkt = AckPacket(0) THEN P.pkg_len = 1 ELSE P.pkg_len = Len(E)
      <4>1. Begins(p, Encoded(pkt))
        BY <2>4, <2>7, <3>1 DEF Begins
      <4>. QED
        BY <2>4, <4>1, WholePacket
    <3>3. CASE pkt # AckPacket(0)
      <4>1. P.pkg_len = Len(E) /\ Len(E) \in 1 .. Len(p)
        BY <1>1, <2>4, <2>7, <3>2, <3>3
      <4>3. Same(SubSeq(p, P.pkg_len + 1, Len(p)), F, << >>, Bytes(rest))
        BY <3>1, <4>1 DEF R
      <4>. QED
        BY <2>3, <2>6, <3>2, <4>1, <4>3
    <3>4. CASE pkt = AckPacket(0)
      <4>. DEFINE o == << 0 >>
                  b == o \o R
      <4>1. o \in Seq(Byte) /\ Len(o) = 1
        BY <1>2
      <4>2. E = o \o o
        BY <2>4, <3>4, ZeroEncoded
      <4>. HIDE DEF o
      <4>3. b \in Seq(Byte)
        BY <2>4, <4>1, BothJoined
      <4>4. Same(p, F, o, b)
        <5>1. (o \o o) \o R = o \o (o \o R)
          BY <2>4, <4>1, BytesJoined
        <5>2. p \o F = (o \o o) \o R
          BY <2>5, <4>2 DEF Same
        <5>. QED
          BY <5>1, <5>2 DEF Same
      <4>. HIDE DEF b
      <4>5. Same(SubSeq(p, Len(o) + 1, Len(p)), F, << >>, b)
        BY <1>1, <4>1, <4>3, <4>4, BytesTaken
      <4>6. P.pkg_len = 1 /\ P.pkg_len \in 1 .. Len(p)
        BY <1>1, <3>2, <3>4
      <4>7. Same(SubSeq(p, P.pkg_len + 1, Len(p)), F, << 0 >>, Bytes(rest))
        <5>1. << >> \o b = b
          BY <4>3, NothingBefore
        <5>2. SubSeq(p, Len(o) + 1, Len(p)) \o F = b
          BY <4>5, <5>1 DEF Same
        <5>3. SubSeq(p, P.pkg_len + 1, Len(p)) \o F = o \o R
          BY <4>1, <4>6, <5>2 DEF b
        <5>. QED
          BY <5>3 DEF Same, o, R
      <4>. QED
        BY <2>3, <2>6, <3>2, <4>6, <4>7
    <3>. QED
      BY <3>3, <3>4
  <2>8. CASE Len(p) < Len(E)
    <3>1. \A i \in 1 .. Len(p) : E[i] = p[i]
      <4>1. Len(E) >= Len(p)
        BY <1>1, <2>4, <2>8
      <4>. QED
        <5>1. Same(E, R, p, F)
          BY <2>5 DEF Same
        <5>. QED
          BY <2>4, <4>1, <5>1, BytesTaken
    <3>2. P.r \in {"DECODE_HEADER_ERR", "DECODE_HEADER_LACK"}
      BY <2>4, <2>8, <3>1, FirstPacket
    <3>. QED
      BY <3>2
  <2>9. Len(p) >= Len(E) \/ Len(p) < Len(E)
    BY <1>1, <2>4
  <2>. QED
    BY <2>7, <2>8, <2>9
<1>. QED
  BY <1>4, <1>5

\* Which two of three sequences of packets are put together first makes no difference.
LEMMA PacketsJoined ==
  ASSUME NEW x \in Seq(Packets), NEW y \in Seq(Packets), NEW z \in Seq(Packets)
  PROVE  (x \o y) \o z = x \o (y \o z)
BY Joined

\* What is left of what is left.
LEMMA LeftTwice ==
  ASSUME NEW A, NEW s \in Seq(A), NEW d \in 0 .. Len(s),
         NEW l \in 0 .. Len(SubSeq(s, d + 1, Len(s)))
  PROVE  LET q == SubSeq(s, d + 1, Len(s))
         IN  /\ d + l \in 0 .. Len(s)
             /\ SubSeq(q, l + 1, Len(q)) = SubSeq(s, d + l + 1, Len(s))
<1>. DEFINE n == Len(s)
            q == SubSeq(s, d + 1, n)
            u == SubSeq(q, l + 1, Len(q))
            k == d + l
            v == SubSeq(s, k + 1, n)
<1>1. n \in Nat /\ d \in Nat /\ d <= n
  OBVIOUS
<1>2. q \in Seq(A) /\ Len(q) = n - d /\ \A i \in 1 .. n - d : q[i] = s[d + i]
  BY LastOnes
<1>3. l \in 0 .. Len(q)
  OBVIOUS
<1>. HIDE DEF n, q
<1>4. u \in Seq(A) /\ Len(u) = Len(q) - l /\ \A i \in 1 .. Len(q) - l : u[i] = q[l + i]
  BY <1>2, <1>3, LastOnes
<1>5. k \in 0 .. n /\ k = d + l /\ l \in Nat /\ l <= n - d
  BY <1>1, <1>2, <1>3
<1>. HIDE DEF k, u
<1>6. v \in Seq(A) /\ Len(v) = n - k /\ \A i \in 1 .. n - k : v[i] = s[k + i]
  BY <1>5, LastOnes DEF n
<1>. HIDE DEF v
<1>7. Len(u) = n - k /\ Len(v) = n - k /\ Len(q) - l = n - k
  BY <1>1, <1>2, <1>4, <1>5, <1>6
<1>8. ASSUME NEW i \in 1 .. n - k PROVE u[i] = v[i]
  <2>. DEFINE j == l + i
  <2>1. j \in 1 .. n - d /\ d + j = k + i
    BY <1>1, <1>5
  <2>2. u[i] = q[j]
    BY <1>4, <1>7
  <2>. HIDE DEF j
  <2>3. q[j] = s[k + i]
    BY <1>2, <2>1
  <2>. QED
    BY <1>6, <2>2, <2>3
<1>9. u = v
  <2>1. \A i \in 1 .. Len(u) : u[i] = v[i]
    BY <1>7, <1>8
  <2>. QED
    BY <1>4, <1>6, <1>7, <2>1, SeqEqual
<1>. QED
  BY <1>5, <1>9 DEF u, v, k, n, q

\* What is left when nothing is left out.
LEMMA AllOfIt ==
  ASSUME NEW A, NEW s \in Seq(A)
  PROVE  SubSeq(s, 0 + 1, Len(s)) = s
OBVIOUS

-----------------------------------------------------------------------------
(* The invariant *)

LEMMA InvInit == InputAssumption /\ Init => InputInv
<1>. SUFFICES ASSUME InputAssumption, Init PROVE InputInv
  OBVIOUS
<1>1. /\ rcv_buf = << >> /\ call = Idle /\ wire = << >> /\ sent = << >> /\ handled = << >>
      /\ unit = "whole"
  BY DEF Init
<1>2. << >> \in Seq(Packets) /\ << >> \in {<< >>, << 0 >>} /\ << >> \o << >> = << >> /\ Len(<< >>) = 0
  OBVIOUS
<1>3. Buffered
  BY <1>1, <1>2 DEF Buffered
<1>4. Splits(<< >>, << >>, << >>)
  BY <1>1, <1>2, MappedNone, FlattenEmpty DEF Splits, Pending, Bytes
<1>5. Carries(<< >>, << >>)
  BY <1>1, <1>2 DEF Carries
<1>. QED
  BY <1>2, <1>3, <1>4, <1>5, TypesInit DEF InputInv, Accounted, UnderWay

\* A packet sent is still to come and under way.
LEMMA SendKeeps ==
  ASSUME InputAssumption, InputInv, PeerSends, unit # "torn"
  PROVE  (Buffered /\ Accounted /\ UnderWay)'
<1>1. PICK pkt \in Packets : wire' = Append(wire, Encoded(pkt)) /\ sent' = Append(sent, pkt)
  BY DEF PeerSends
<1>2. rcv_buf' = rcv_buf /\ call' = call /\ handled' = handled /\ unit' = unit
  BY DEF PeerSends
<1>3. Buffered'
  BY <1>2 DEF InputInv, Buffered, Looping, HasHeader, Parsed
<1>. DEFINE E == Encoded(pkt)
            o == << pkt >>
            F == FlattenSeq(wire)
<1>4. E \in Seq(Byte) /\ o \in Seq(Packets) /\ Bytes(o) = E
  BY PacketEncoded, BytesOfOne
<1>5. wire \in Seq(Seq(Byte)) /\ sent \in Seq(Packets)
  BY DEF InputInv, InputTypes
<1>6. sent' = sent \o o
  BY <1>1, <1>5
<1>7. FlattenSeq(wire') = F \o E /\ F \in Seq(Byte)
  BY <1>1, <1>4, <1>5, FlattenAppend, FlattenType
<1>8. Pending' = Pending /\ Pending \in Seq(Byte)
  BY <1>2, CallFacts DEF Pending, InputInv, InputTypes
<1>9. Accounted'
  <2>1. PICK done \in Seq(Packets), todo \in Seq(Packets), z \in {<< >>, << 0 >>} : Splits(done, todo, z)
    BY DEF InputInv, Accounted
  <2>. DEFINE t == todo \o o
              B == Bytes(todo)
  <2>2. t \in Seq(Packets) /\ Bytes(t) = B \o E /\ B \in Seq(Byte) /\ z \in Seq(Byte)
    <3>1. Bytes(t) = Bytes(todo) \o Bytes(o)
      BY <1>4, BytesTogether
    <3>2. << >> \in Seq(Byte) /\ << 0 >> \in Seq(Byte)
      BY DEF Byte
    <3>3. t \in Seq(Packets)
      <4>. HIDE DEF o
      <4>. QED
        BY <1>4, BothJoined
    <3>. QED
      BY <1>4, <3>1, <3>2, <3>3, BytesType
  <2>3. sent' = done \o t
    <3>1. sent = done \o todo
      BY <2>1 DEF Splits
    <3>. HIDE DEF o
    <3>2. (done \o todo) \o o = done \o (todo \o o)
      BY <1>4, Joined
    <3>. QED
      BY <1>6, <3>1, <3>2
  <2>. HIDE DEF t, B, F, E
  <2>4. Pending \o F = z \o B
    BY <2>1 DEF Splits, B, F
  <2>5. (Pending \o F)' = z \o Bytes(t)
    <3>1. (Pending \o F)' = Pending \o (F \o E)
      BY <1>7, <1>8 DEF F
    <3>2. Pending \o (F \o E) = (Pending \o F) \o E
      BY <1>4, <1>7, <1>8, BytesJoined
    <3>3. (z \o B) \o E = z \o (B \o E)
      BY <1>4, <2>2, BytesJoined
    <3>. QED
      BY <2>2, <2>4, <3>1, <3>2, <3>3
  <2>6. Splits(done, t, z)'
    BY <1>2, <2>1, <2>3, <2>5 DEF Splits, F
  <2>. QED
    BY <2>2, <2>6 DEF Accounted
<1>10. UnderWay'
  <2>1. PICK gone \in Seq(Packets), way \in Seq(Packets) : Carries(gone, way)
    BY DEF InputInv, UnderWay
  <2>. DEFINE v == Append(way, pkt)
              n == Len(way)
  <2>2. /\ v \in Seq(Packets) /\ Len(v) = n + 1 /\ n \in Nat /\ v[n + 1] = pkt
        /\ \A i \in 1 .. n : v[i] = way[i]
    BY AppendProperties
  <2>3. /\ Len(wire') = n + 1 /\ wire'[n + 1] = Encoded(pkt)
        /\ \A i \in 1 .. n : wire'[i] = wire[i]
    <3>1. Len(wire) = n
      BY <2>1 DEF Carries
    <3>. QED
      BY <1>1, <1>4, <1>5, <3>1, AppendProperties
  <2>4. sent' = gone \o v
    <3>1. sent = gone \o way
      BY <2>1 DEF Carries
    <3>2. v = way \o o
      OBVIOUS
    <3>. HIDE DEF v, o
    <3>3. (gone \o way) \o o = gone \o (way \o o)
      BY <1>4, Joined
    <3>. QED
      BY <1>6, <3>1, <3>2, <3>3
  <2>. HIDE DEF v, n
  <2>5. ASSUME NEW i \in 1 .. n + 1, i > 1 \/ unit = "whole" PROVE wire'[i] = Encoded(v[i])
    <3>1. CASE i = n + 1
      BY <2>2, <2>3, <3>1
    <3>2. CASE i # n + 1
      <4>1. i \in 1 .. n
        BY <2>2, <3>2
      <4>2. wire[i] = Encoded(way[i])
        BY <2>1, <2>5, <4>1 DEF Carries, n
      <4>. QED
        BY <2>2, <2>3, <4>1, <4>2
    <3>. QED
      BY <3>1, <3>2
  <2>6. Carries(gone, v)'
    BY <1>2, <2>2, <2>3, <2>4, <2>5 DEF Carries
  <2>. QED
    BY <2>2, <2>6 DEF UnderWay
<1>. QED
  BY <1>3, <1>9, <1>10

\* A new connection begins where nothing but the stray byte is left of the old one.
LEMMA ReconnectKeeps ==
  ASSUME InputAssumption, InputInv, Reconnect, unit' # "torn"
  PROVE  (Buffered /\ Accounted /\ UnderWay)'
<1>1. /\ unit = "whole" /\ call = Idle /\ call' = call /\ rcv_buf' = rcv_buf
      /\ wire' = << >> /\ sent' = << >> /\ handled' = << >>
  BY DEF Reconnect
<1>2. InputTypes /\ Buffered /\ Accounted /\ UnderWay
  BY <1>1 DEF InputInv
<1>3. Len(rcv_buf) <= 1
  BY <1>1, <1>2 DEF Buffered, Looping, Idle
<1>4. Buffered'
  BY <1>1, <1>3 DEF Buffered
<1>5. PICK done \in Seq(Packets), todo \in Seq(Packets), z \in {<< >>, << 0 >>} : Splits(done, todo, z)
  BY <1>2 DEF Accounted
<1>6. PICK gone \in Seq(Packets), way \in Seq(Packets) : Carries(gone, way)
  BY <1>2 DEF UnderWay
<1>7. rcv_buf = z
  BY <1>1, <1>2, <1>3, <1>5, <1>6, RestIsUnderWay
<1>8. << >> \in Seq(Packets) /\ << >> \o << >> = << >>
  OBVIOUS
<1>9. Splits(<< >>, << >>, z)'
  BY <1>1, <1>7, <1>8, MappedNone, FlattenEmpty DEF Splits, Pending, Bytes
<1>10. Carries(<< >>, << >>)'
  BY <1>1, <1>8 DEF Carries
<1>. QED
  BY <1>4, <1>8, <1>9, <1>10 DEF Accounted, UnderWay

\* A delivery goes from the wire to the input of the call.
LEMMA DeliverKeeps ==
  ASSUME InputAssumption, InputInv, Deliver, unit' # "torn"
  PROVE  (Buffered /\ Accounted /\ UnderWay)'
<1>1. PICK k \in 0 .. Len(wire), buf \in Seq(Byte) :
           /\ call = Idle /\ rdts_input(buf) /\ sent' = sent /\ handled' = handled
           /\ buf \o FlattenSeq(wire') = FlattenSeq(wire)
           /\ wire' \in Seq(Seq(Byte)) /\ Len(wire') = Len(wire) - k
           /\ \A i \in 2 .. Len(wire') : wire'[i] = wire[k + i]
           /\ unit' \in Units /\ (unit' = "torn" <=> unit = "torn")
           /\ unit' = "whole" => k >= 1 /\ \A i \in 1 .. Len(wire') : wire'[i] = wire[k + i]
  BY DeliveryLeaves DEF InputInv
<1>2. InputTypes /\ Buffered /\ Accounted /\ UnderWay
  BY <1>1 DEF InputInv
<1>3. rcv_buf \in Seq(Byte) /\ wire \in Seq(Seq(Byte)) /\ sent \in Seq(Packets)
  BY <1>2 DEF InputTypes
<1>. DEFINE all == rcv_buf \o buf
<1>4. all \in Seq(Byte)
  BY <1>3, BothJoined
<1>5. /\ call' = [pc |-> "loop", pinput |-> all, use_buf |-> rcv_buf # << >>, drain_len |-> 0]
      /\ rcv_buf' = IF rcv_buf # << >> THEN all ELSE rcv_buf
  BY <1>1 DEF rdts_input
<1>6. call'.pc = "loop" /\ call'.pinput = all /\ call'.drain_len = 0
      /\ call' # Idle /\ (call'.use_buf <=> rcv_buf # << >>)
  <2>. HIDE DEF all
  <2>. QED
    BY <1>5 DEF Idle
<1>7. Buffered'
  <2>1. CASE rcv_buf # << >>
    <3>1. rcv_buf' = all /\ call'.use_buf
      BY <1>5, <1>6, <2>1
    <3>. HIDE DEF all
    <3>2. 0 <= Len(all) /\ SubSeq(all, 0 + 1, Len(all)) = all
      BY <1>4, AllOfIt
    <3>. QED
      BY <1>6, <3>1, <3>2 DEF Buffered, Looping
  <2>2. CASE rcv_buf = << >>
    <3>1. rcv_buf' = << >> /\ ~call'.use_buf
      BY <1>5, <1>6, <2>2
    <3>. QED
      BY <1>6, <3>1 DEF Buffered, Looping
  <2>. QED
    BY <2>1, <2>2
<1>8. Accounted'
  <2>1. PICK done \in Seq(Packets), todo \in Seq(Packets), z \in {<< >>, << 0 >>} : Splits(done, todo, z)
    BY <1>2 DEF Accounted
  <2>2. FlattenSeq(wire') \in Seq(Byte)
    BY <1>1, FlattenType
  <2>3. all \o FlattenSeq(wire') = rcv_buf \o FlattenSeq(wire)
    <3>. DEFINE G == FlattenSeq(wire')
    <3>1. G \in Seq(Byte) /\ buf \o G = FlattenSeq(wire)
      BY <1>1, <2>2
    <3>. HIDE DEF G
    <3>2. (rcv_buf \o buf) \o G = rcv_buf \o (buf \o G)
      BY <1>3, <3>1, BytesJoined
    <3>. QED
      BY <3>1, <3>2 DEF G
  <2>4. Pending' = all /\ Pending = rcv_buf
    <3>. HIDE DEF all
    <3>. QED
      BY <1>1, <1>6 DEF Pending
  <2>. HIDE DEF all
  <2>5. Pending' \o FlattenSeq(wire') = z \o Bytes(todo)
    BY <2>1, <2>3, <2>4 DEF Splits
  <2>6. Splits(done, todo, z)'
    BY <1>1, <2>1, <2>5 DEF Splits
  <2>. QED
    BY <2>6 DEF Accounted
<1>9. UnderWay'
  <2>1. PICK gone \in Seq(Packets), way \in Seq(Packets) : Carries(gone, way)
    BY <1>2 DEF UnderWay
  <2>. DEFINE n == Len(way)
              a == SubSeq(way, 1, k)
              b == SubSeq(way, k + 1, n)
  <2>2. Len(wire) = n /\ k \in 0 .. n /\ n \in Nat /\ k \in Nat
    BY <2>1 DEF Carries
  <2>3. a \in Seq(Packets) /\ a \o b = way
    BY <2>2, FirstOnes, PartsOfOne
  <2>4. b \in Seq(Packets) /\ Len(b) = n - k /\ \A i \in 1 .. n - k : b[i] = way[k + i]
    BY <2>2, LastOnes
  <2>. HIDE DEF a, b, n
  <2>5. gone \o a \in Seq(Packets) /\ sent' = (gone \o a) \o b
    <3>1. sent' = gone \o way
      BY <1>1, <2>1 DEF Carries
    <3>2. (gone \o a) \o b = gone \o (a \o b)
      BY <2>1, <2>3, <2>4, PacketsJoined
    <3>3. gone \o a \in Seq(Packets)
      BY <2>3, BothJoined
    <3>. QED
      BY <2>3, <3>1, <3>2, <3>3
  <2>6. Len(wire') = Len(b)
    BY <1>1, <2>2, <2>4
  <2>7. ASSUME NEW i \in 1 .. Len(b), i > 1 \/ unit' = "whole" PROVE wire'[i] = Encoded(b[i])
    <3>. DEFINE j == k + i
    <3>1. i \in 1 .. n - k /\ j \in 1 .. n
      BY <2>2, <2>4
    <3>2. (i > 1 => i \in 2 .. Len(wire')) /\ i \in 1 .. Len(wire')
      BY <2>2, <2>4, <2>6
    <3>3. j > 1
      BY <1>1, <2>2, <2>7, <3>1
    <3>. HIDE DEF j
    <3>4. wire'[i] = wire[j]
      BY <1>1, <2>7, <3>2 DEF j
    <3>5. wire[j] = Encoded(way[j])
      BY <2>1, <2>2, <3>1, <3>3 DEF Carries
    <3>6. b[i] = way[j]
      BY <2>4, <3>1 DEF j
    <3>. QED
      BY <3>4, <3>5, <3>6
  <2>8. Carries(gone \o a, b)'
    BY <2>5, <2>6, <2>7 DEF Carries
  <2>. QED
    BY <2>4, <2>5, <2>8 DEF UnderWay
<1>. QED
  BY <1>7, <1>8, <1>9

\* What is too short for a packet stays in rcv_buf.
LEMMA TooShortKeeps ==
  ASSUME InputInv, TooShort, unit # "torn"
  PROVE  (Buffered /\ Accounted /\ UnderWay)'
<1>. DEFINE p == call.pinput
<1>1. /\ InputTypes /\ Buffered /\ Accounted /\ UnderWay
  BY DEF InputInv
<1>2. /\ call # Idle /\ p \in Seq(Byte) /\ call.use_buf \in BOOLEAN /\ rcv_buf \in Seq(Byte)
      /\ Len(p) \in Nat
  BY <1>1, CallFacts DEF TooShort, InputTypes
<1>3. Len(p) <= 1 /\ rcv_buf' = Drained(Keep) /\ call' = Idle
      /\ wire' = wire /\ sent' = sent /\ handled' = handled /\ unit' = unit
  BY DEF TooShort
<1>4. rcv_buf' = p
  <2>1. ~HasHeader
    BY <1>2, <1>3 DEF HasHeader
  <2>2. \/ call.use_buf /\ p = SubSeq(rcv_buf, call.drain_len + 1, Len(rcv_buf))
        \/ ~call.use_buf /\ rcv_buf = << >>
    BY <1>1, <1>2, <2>1 DEF Buffered
  <2>3. CASE call.use_buf
    BY <1>3, <2>2, <2>3 DEF Keep, Drained
  <2>4. CASE ~call.use_buf
    <3>1. << >> \o p = p
      BY <1>2, NothingBefore
    <3>. QED
      BY <1>3, <2>2, <2>4, <3>1 DEF Keep, Drained
  <2>. QED
    BY <2>3, <2>4
<1>5. Pending' = Pending
  BY <1>2, <1>3, <1>4 DEF Pending
<1>6. Buffered'
  BY <1>3, <1>4 DEF Buffered
<1>7. Accounted'
  <2>1. PICK done \in Seq(Packets), todo \in Seq(Packets), z \in {<< >>, << 0 >>} : Splits(done, todo, z)
    BY <1>1 DEF Accounted
  <2>2. Splits(done, todo, z)'
    BY <1>3, <1>5, <2>1 DEF Splits
  <2>. QED
    BY <2>2 DEF Accounted
<1>8. UnderWay'
  BY <1>1, <1>3 DEF UnderWay, Carries
<1>. QED
  BY <1>6, <1>7, <1>8

\* A packet parsed is done with.
LEMMA OkKeeps ==
  ASSUME InputAssumption, InputInv, HeaderOk, unit # "torn"
  PROVE  (Buffered /\ Accounted /\ UnderWay)'
<1>. DEFINE p == call.pinput
            P == Parsed
            l == P.pkg_len
            q == SubSeq(p, l + 1, Len(p))
            F == FlattenSeq(wire)
<1>1. InputTypes /\ Buffered /\ Accounted /\ UnderWay
  BY DEF InputInv
<1>2. /\ call \in Calls /\ call # Idle /\ p \in Seq(Byte) /\ Len(p) > 1 /\ Len(p) \in Nat
      /\ P = parse_header(p) /\ P.r = "DECODE_HEADER_OK"
      /\ call.drain_len \in Nat /\ rcv_buf \in Seq(Byte)
  BY <1>1, CallFacts DEF HeaderOk, HasHeader, Parsed, InputTypes
<1>3. /\ handled' = handled \o Handlers(P.ack_offset, P.data)
      /\ call' = [call EXCEPT !.pinput = q, !.drain_len = call.drain_len + l]
      /\ rcv_buf' = rcv_buf /\ wire' = wire /\ sent' = sent /\ unit' = unit
  BY DEF HeaderOk
<1>4. F \in Seq(Byte)
  BY <1>1, FlattenType DEF InputTypes
<1>5. PICK done \in Seq(Packets), todo \in Seq(Packets), z \in {<< >>, << 0 >>} : Splits(done, todo, z)
  BY <1>1 DEF Accounted
<1>6. Same(p, F, z, Bytes(todo))
  BY <1>2, <1>5 DEF Splits, Pending, Same
<1>. HIDE DEF P, F
<1>7. PICK taken \in Seq(Packets), rest \in Seq(Packets), y \in {<< >>, << 0 >>} :
        /\ todo = taken \o rest
        /\ Handlers(P.ack_offset, P.data) = Mapped(Meanings, taken)
        /\ l \in 1 .. Len(p)
        /\ Same(q, F, y, Bytes(rest))
  <2>1. Takes(P, p, F, todo)
    <3>. HIDE DEF p
    <3>1. Takes(parse_header(p), p, F, todo)
      BY <1>2, <1>4, <1>6, ParsedOk
    <3>. QED
      BY <1>2, <3>1
  <2>. HIDE DEF p
  <2>. QED
    BY <2>1 DEF Takes
<1>8. /\ call'.pc = call.pc /\ call'.pinput = q /\ call'.use_buf = call.use_buf
      /\ call'.drain_len = call.drain_len + l /\ call' # Idle
  <2>. HIDE DEF q, l, p
  <2>. QED
    BY <1>2, <1>3 DEF Calls, Idle
<1>9. Buffered'
  <2>1. Looping
    BY DEF HeaderOk, HasHeader
  <2>2. CASE ~call.use_buf /\ rcv_buf = << >>
    BY <1>3, <1>8, <2>1, <2>2 DEF Buffered, Looping
  <2>3. CASE /\ call.use_buf /\ call.drain_len <= Len(rcv_buf)
             /\ p = SubSeq(rcv_buf, call.drain_len + 1, Len(rcv_buf))
    <3>. DEFINE d == call.drain_len
                s == rcv_buf
    <3>1. s \in Seq(Byte) /\ d \in 0 .. Len(s) /\ p = SubSeq(s, d + 1, Len(s))
      BY <1>2, <2>3
    <3>2. l \in 0 .. Len(p)
      BY <1>7
    <3>. HIDE DEF p, l, d, s
    <3>3. d + l \in 0 .. Len(s) /\ q = SubSeq(s, d + l + 1, Len(s))
      BY <3>1, <3>2, LeftTwice
    <3>4. d + l <= Len(s)
      BY <3>3
    <3>. HIDE DEF q
    <3>5. /\ call'.use_buf /\ call'.drain_len <= Len(rcv_buf')
          /\ call'.pinput = SubSeq(rcv_buf', call'.drain_len + 1, Len(rcv_buf'))
      BY <1>3, <1>8, <2>3, <3>3, <3>4 DEF d, s
    <3>. QED
      BY <1>8, <2>1, <3>5 DEF Buffered, Looping
  <2>4. P.r # "DECODE_HEADER_LACK"
    BY <1>2
  <2>. QED
    BY <1>1, <1>2, <2>1, <2>2, <2>3, <2>4 DEF Buffered, P
<1>10. Accounted'
  <2>. DEFINE more == done \o taken
  <2>1. more \in Seq(Packets) /\ sent' = more \o rest
    <3>1. sent' = done \o (taken \o rest)
      BY <1>3, <1>5, <1>7 DEF Splits
    <3>2. (done \o taken) \o rest = done \o (taken \o rest)
      BY Joined
    <3>3. more \in Seq(Packets)
      BY BothJoined
    <3>. QED
      BY <3>1, <3>2, <3>3
  <2>2. handled' = Mapped(Meanings, more)
    <3>1. handled = Mapped(Meanings, done)
      BY <1>5 DEF Splits
    <3>2. Mapped(Meanings, done \o taken) = Mapped(Meanings, done) \o Mapped(Meanings, taken)
      BY HandledTogether
    <3>. QED
      BY <1>3, <1>7, <3>1, <3>2
  <2>3. Pending' \o FlattenSeq(wire') = y \o Bytes(rest)
    <3>1. Pending' = q
      <4>. HIDE DEF q
      <4>. QED
        BY <1>8 DEF Pending
    <3>2. q \o F = y \o Bytes(rest)
      BY <1>7 DEF Same
    <3>. QED
      BY <1>3, <3>1, <3>2 DEF F
  <2>. HIDE DEF more
  <2>4. Splits(more, rest, y)'
    BY <2>1, <2>2, <2>3 DEF Splits
  <2>. QED
    BY <2>1, <2>4 DEF Accounted
<1>11. UnderWay'
  BY <1>1, <1>3 DEF UnderWay, Carries
<1>. QED
  BY <1>9, <1>10, <1>11

\* A call that lacks data never ends, and does nothing.
LEMMA LackKeeps ==
  ASSUME InputInv, HeaderLack, unit # "torn"
  PROVE  (Buffered /\ Accounted /\ UnderWay)'
<1>1. InputTypes /\ Buffered /\ Accounted /\ UnderWay
  BY DEF InputInv
<1>2. HasHeader /\ Looping /\ Parsed.r = "DECODE_HEADER_LACK" /\ call # Idle
  BY <1>1, CallFacts DEF HeaderLack, HasHeader
<1>3. call' = call /\ wire' = wire /\ sent' = sent /\ handled' = handled /\ unit' = unit
  BY DEF HeaderLack
<1>4. Buffered'
  BY <1>2, <1>3 DEF Buffered, Looping, HasHeader, Parsed
<1>5. Pending' = Pending
  BY <1>2, <1>3 DEF Pending
<1>6. Accounted'
  <2>1. PICK done \in Seq(Packets), todo \in Seq(Packets), z \in {<< >>, << 0 >>} : Splits(done, todo, z)
    BY <1>1 DEF Accounted
  <2>2. Splits(done, todo, z)'
    BY <1>3, <1>5, <2>1 DEF Splits
  <2>. QED
    BY <2>2 DEF Accounted
<1>7. UnderWay'
  BY <1>1, <1>3 DEF UnderWay, Carries
<1>. QED
  BY <1>4, <1>6, <1>7

\* Every step keeps the invariant; but not a step of a logged call that is given up
\* (HeaderErr), which is why LogInput is assumed to be off.
LEMMA InvNext ==
  InputAssumption /\ ~LogInput /\ InputInv /\ [Next]_vars => InputInv'
<1>. SUFFICES ASSUME InputAssumption, ~LogInput, InputInv, [Next]_vars
              PROVE  InputInv'
  OBVIOUS
<1>1. InputTypes'
  BY TypesNext DEF InputInv
<1>2. ASSUME unit' # "torn" PROVE (Buffered /\ Accounted /\ UnderWay)'
  <2>1. CASE PeerSends
    <3>1. unit # "torn"
      BY <1>2, <2>1 DEF PeerSends
    <3>. QED
      BY <2>1, <3>1, SendKeeps
  <2>2. CASE Reconnect
    BY <1>2, <2>2, ReconnectKeeps
  <2>3. CASE Deliver
    BY <1>2, <2>3, DeliverKeeps
  <2>4. CASE TooShort
    <3>1. unit # "torn"
      BY <1>2, <2>4 DEF TooShort
    <3>. QED
      BY <2>4, <3>1, TooShortKeeps
  <2>5. CASE HeaderOk
    <3>1. unit # "torn"
      BY <1>2, <2>5 DEF HeaderOk
    <3>. QED
      BY <2>5, <3>1, OkKeeps
  <2>6. CASE HeaderLack
    <3>1. unit # "torn"
      BY <1>2, <2>6 DEF HeaderLack
    <3>. QED
      BY <2>6, <3>1, LackKeeps
  <2>7. CASE HeaderErr \/ UNCHANGED vars
    <3>1. /\ rcv_buf' = rcv_buf /\ call' = call /\ wire' = wire /\ sent' = sent
          /\ handled' = handled /\ unit' = unit
      BY <2>7 DEF HeaderErr, vars
    <3>2. unit # "torn"
      BY <1>2, <3>1
    <3>3. Buffered /\ Accounted /\ UnderWay
      BY <3>2 DEF InputInv
    <3>4. Pending' = Pending
      BY <3>1 DEF Pending
    <3>5. Buffered'
      BY <3>1, <3>3 DEF Buffered, Looping, HasHeader, Parsed
    <3>6. Accounted'
      BY <3>1, <3>3, <3>4 DEF Accounted, Splits
    <3>7. UnderWay'
      BY <3>1, <3>3 DEF UnderWay, Carries
    <3>. QED
      BY <3>5, <3>6, <3>7
  <2>. QED
    BY <2>1, <2>2, <2>3, <2>4, <2>5, <2>6, <2>7 DEF Next, Turn
<1>. QED
  BY <1>1, <1>2 DEF InputInv

-----------------------------------------------------------------------------
(* The properties *)

\* Meaning, as the invariant states it.
LEMMA MeaningIs ==
  ASSUME NEW s \in Seq(Packets)
  PROVE  Meaning(s) = Mapped(Meanings, s)
<1>1. \A i \in 1 .. Len(s) : s[i] \in Packets
  OBVIOUS
<1>2. [i \in 1 .. Len(s) |-> MeaningOf(s[i])] = [i \in 1 .. Len(s) |-> Meanings[s[i]]]
  BY <1>1 DEF Meanings
<1>. QED
  BY <1>2 DEF Meaning, Mapped

\* The packets done with are the first of those sent.
LEMMA InvImpliesHandledIsSent == InputAssumption /\ InputInv => HandledIsSent
<1>. SUFFICES ASSUME InputAssumption, InputInv, unit # "torn"
              PROVE  IsPrefix(handled, Meaning(sent))
  BY DEF HandledIsSent
<1>1. PICK done \in Seq(Packets), todo \in Seq(Packets), z \in {<< >>, << 0 >>} : Splits(done, todo, z)
  BY DEF InputInv, Accounted
<1>2. handled = Mapped(Meanings, done) /\ sent = done \o todo
  BY <1>1 DEF Splits
<1>. DEFINE x == Mapped(Meanings, done)
            y == Mapped(Meanings, todo)
<1>3. x \in Seq(Packets) /\ y \in Seq(Packets) /\ Mapped(Meanings, done \o todo) = x \o y
  BY HandledTogether
<1>4. sent \in Seq(Packets)
  BY DEF InputInv, InputTypes
<1>5. Meaning(sent) = x \o y
  BY <1>2, <1>3, <1>4, MeaningIs
<1>. HIDE DEF x, y
<1>6. IsPrefix(x, x \o y)
  BY <1>3, FirstIsPrefix
<1>. QED
  BY <1>2, <1>5, <1>6 DEF x

\* Between calls all but a stray byte has been taken from what was delivered whole.
LEMMA InvImpliesNothingLeft == InputAssumption /\ InputInv => NothingLeft
<1>. SUFFICES ASSUME InputAssumption, InputInv, call = Idle, unit = "whole"
              PROVE  /\ rcv_buf \in {<< >>, << 0 >>}
                     /\ wire = << >> => handled = Meaning(sent)
  BY DEF NothingLeft
<1>1. InputTypes /\ Buffered /\ Accounted /\ UnderWay
  BY DEF InputInv
<1>2. Len(rcv_buf) <= 1
  BY <1>1 DEF Buffered, Looping, Idle
<1>3. PICK done \in Seq(Packets), todo \in Seq(Packets), z \in {<< >>, << 0 >>} : Splits(done, todo, z)
  BY <1>1 DEF Accounted
<1>4. PICK gone \in Seq(Packets), way \in Seq(Packets) : Carries(gone, way)
  BY <1>1 DEF UnderWay
<1>5. rcv_buf = z /\ todo = way
  BY <1>1, <1>2, <1>3, <1>4, RestIsUnderWay
<1>6. ASSUME wire = << >> PROVE handled = Meaning(sent)
  <2>1. way = << >>
    <3>1. Len(way) = 0
      BY <1>4, <1>6 DEF Carries
    <3>. QED
      BY <3>1
  <2>2. sent = done
    <3>1. done \o << >> = done
      BY NothingBefore
    <3>. QED
      BY <1>3, <1>5, <2>1, <3>1 DEF Splits
  <2>. QED
    BY <1>3, <2>2, MeaningIs DEF Splits
<1>. QED
  BY <1>5, <1>6

\* HandledIsSent: rdts_on_rcv_ack and rdts_on_rcv_data are called for the packets the
\* peer has sent, in order, each once, with the numbers and bytes it encoded, however
\* the deliveries cut them and whatever a connection before has left in rcv_buf.
THEOREM PacketsHandledInOrder ==
  ASSUME InputAssumption, ~LogInput
  PROVE  Spec => []HandledIsSent
<1>1. Init => InputInv
  BY InvInit
<1>2. InputInv /\ [Next]_vars => InputInv'
  BY InvNext
<1>3. InputInv => HandledIsSent
  BY InvImpliesHandledIsSent
<1>. QED
  BY <1>1, <1>2, <1>3, PTL DEF Spec

\* NothingLeft: of whole packets delivered, a call leaves at most the stray byte of an
\* ack of 0, and when all have been delivered all have been handled.
THEOREM DeliveredIsHandled ==
  ASSUME InputAssumption, ~LogInput
  PROVE  Spec => []NothingLeft
<1>1. Init => InputInv
  BY InvInit
<1>2. InputInv /\ [Next]_vars => InputInv'
  BY InvNext
<1>3. InputInv => NothingLeft
  BY InvImpliesNothingLeft
<1>. QED
  BY <1>1, <1>2, <1>3, PTL DEF Spec
=============================================================================
