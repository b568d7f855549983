----------------------------- MODULE FoldLemmas -----------------------------
(***************************************************************************)
(* What the other proofs need of numbers and sequences, and what the folds *)
(* of the community modules compute: FlattenSeq over any sequence,         *)
(* SumFunctionOnSet over any set of numbers.  Induction is on sets of      *)
(* numbers, from the well-foundedness of <.                                *)
(***************************************************************************)
EXTENDS Integers, SequencesExt, SequenceTheorems, FiniteSetTheorems, WellFoundedInduction, TLAPS

-----------------------------------------------------------------------------
(* Induction *)

\* m < n, as a set of pairs.
LessThan == {ss \in Nat \X Nat : ss[1] < ss[2]}

\* < on Nat is well founded, for the relation written as a set.
LEMMA LessThanWellFounded == IsWellFoundedOn(LessThan, Nat)
BY NatLessThanWellFounded, Zenon DEF OpToRel, LessThan

\* A set of numbers that is not empty has a least one.
LEMMA LeastNumber ==
  ASSUME NEW T \in SUBSET Nat, T # {}
  PROVE  \E n \in T : \A m \in T : n <= m
<1>1. PICK n \in T : \A m \in T : ~(<< m, n >> \in LessThan)
  BY LessThanWellFounded, WFMin
<1>2. ASSUME NEW m \in T PROVE n <= m
  <2>1. << m, n >> \notin LessThan
    BY <1>1
  <2>2. n \in Nat /\ m \in Nat
    OBVIOUS
  <2>3. m < n => << m, n >> \in LessThan
    BY <2>2 DEF LessThan
  <2>. QED
    BY <2>1, <2>2, <2>3
<1>. QED
  BY <1>2

\* A set that holds 0 and, with each number below n, the next, holds 0 .. n.
LEMMA UpTo ==
  ASSUME NEW n \in Nat, NEW S, 0 \in S,
         \A i \in 1 .. n : i - 1 \in S => i \in S
  PROVE  0 .. n \subseteq S
<1>. DEFINE T == (0 .. n) \ S
<1>1. SUFFICES ASSUME T # {} PROVE FALSE
  OBVIOUS
<1>2. PICK k \in T : \A m \in T : k <= m
  <2>1. T \in SUBSET Nat
    OBVIOUS
  <2>. HIDE DEF T
  <2>. QED
    BY <1>1, <2>1, LeastNumber
<1>3. k \in 1 .. n /\ k - 1 \in 0 .. n /\ k - 1 \notin T
  BY <1>2
<1>. QED
  BY <1>2, <1>3

-----------------------------------------------------------------------------
(* Parts of sequences *)

\* The first m elements of a sequence.
LEMMA FirstOnes ==
  ASSUME NEW A, NEW s \in Seq(A), NEW m \in 0 .. Len(s)
  PROVE  /\ SubSeq(s, 1, m) \in Seq(A) /\ Len(SubSeq(s, 1, m)) = m
         /\ \A i \in 1 .. m : SubSeq(s, 1, m)[i] = s[i]
OBVIOUS

\* What the first m elements of a sequence leave.
LEMMA LastOnes ==
  ASSUME NEW A, NEW s \in Seq(A), NEW m \in 0 .. Len(s)
  PROVE  /\ SubSeq(s, m + 1, Len(s)) \in Seq(A) /\ Len(SubSeq(s, m + 1, Len(s))) = Len(s) - m
         /\ \A i \in 1 .. Len(s) - m : SubSeq(s, m + 1, Len(s))[i] = s[m + i]
<1>. DEFINE n == Len(s)
<1>1. n \in Nat /\ m \in Nat /\ m <= n
  OBVIOUS
<1>2. \A i \in m + 1 .. n : s[i] \in A
  BY <1>1
<1>3. /\ SubSeq(s, m + 1, n) \in Seq(A)
      /\ Len(SubSeq(s, m + 1, n)) = IF m + 1 <= n THEN n - (m + 1) + 1 ELSE 0
      /\ \A i \in 1 .. n - (m + 1) + 1 : SubSeq(s, m + 1, n)[i] = s[m + 1 + i - 1]
  <2>. HIDE DEF n
  <2>1. m + 1 \in Int /\ n \in Int
    BY <1>1
  <2>. QED
    BY <1>2, <2>1, SubSeqProperties
<1>. HIDE DEF n
<1>4. n - (m + 1) + 1 = n - m /\ \A i \in Int : m + 1 + i - 1 = m + i
  BY <1>1
<1>5. Len(SubSeq(s, m + 1, n)) = n - m
  BY <1>1, <1>3
<1>6. \A i \in 1 .. n - m : SubSeq(s, m + 1, n)[i] = s[m + i]
  BY <1>1, <1>3, <1>4
<1>. QED
  BY <1>3, <1>5, <1>6 DEF n

\* A sequence is all but its last element, and that.
LEMMA LastApart ==
  ASSUME NEW A, NEW s \in Seq(A), s # << >>, NEW a \in A
  PROVE  /\ SubSeq(s, 1, Len(s) - 1) \in Seq(A) /\ s[Len(s)] \in A
         /\ s = Append(SubSeq(s, 1, Len(s) - 1), s[Len(s)])
         /\ [s EXCEPT ![Len(s)] = a] = Append(SubSeq(s, 1, Len(s) - 1), a)
<1>. DEFINE n == Len(s)
            front == SubSeq(s, 1, n - 1)
            new == [s EXCEPT ![n] = a]
            app == Append(front, a)
<1>1. n \in Nat \ {0} /\ s[n] \in A
  OBVIOUS
<1>2. front \in Seq(A) /\ Len(front) = n - 1 /\ \A i \in 1 .. n - 1 : front[i] = s[i]
  <2>1. n - 1 \in 0 .. n
    BY <1>1
  <2>. QED
    BY <2>1, FirstOnes
<1>3. s = Append(front, s[n])
  OBVIOUS
<1>4. new \in Seq(A) /\ Len(new) = n /\ \A i \in 1 .. n : new[i] = IF i = n THEN a ELSE s[i]
  BY <1>1, ExceptSeq
<1>. HIDE DEF front
<1>5. app \in Seq(A) /\ Len(app) = n /\ \A i \in 1 .. n : app[i] = IF i = n THEN a ELSE s[i]
  BY <1>1, <1>2
<1>. HIDE DEF new, app
<1>6. new = app
  BY <1>4, <1>5, SeqEqual
<1>. QED
  BY <1>1, <1>2, <1>3, <1>6 DEF front, new, app

\* Which two of three sequences are put together first makes no difference.
LEMMA Joined ==
  ASSUME NEW A, NEW x \in Seq(A), NEW y \in Seq(A), NEW z \in Seq(A)
  PROVE  (x \o y) \o z = x \o (y \o z)
OBVIOUS

\* Nor of numbers, which the provers find more easily.
LEMMA NumbersJoined ==
  ASSUME NEW x \in Seq(Nat), NEW y \in Seq(Nat), NEW z \in Seq(Nat)
  PROVE  (x \o y) \o z = x \o (y \o z)
BY Joined

\* The first i elements are the first i - 1 and the i-th.
LEMMA OneMore ==
  ASSUME NEW A, NEW s \in Seq(A), NEW i \in 1 .. Len(s)
  PROVE  SubSeq(s, 1, i) = Append(SubSeq(s, 1, i - 1), s[i])
OBVIOUS

\* Two sequences put together: the elements of one, then of the other.
LEMMA BothJoined ==
  ASSUME NEW A, NEW x \in Seq(A), NEW y \in Seq(A)
  PROVE  /\ x \o y \in Seq(A) /\ Len(x \o y) = Len(x) + Len(y)
         /\ \A i \in 1 .. Len(x) + Len(y) :
              (x \o y)[i] = IF i <= Len(x) THEN x[i] ELSE y[i - Len(x)]
OBVIOUS

\* The first m elements and the rest are all of them.
LEMMA PartsOfOne ==
  ASSUME NEW A, NEW s \in Seq(A), NEW m \in 0 .. Len(s)
  PROVE  SubSeq(s, 1, m) \o SubSeq(s, m + 1, Len(s)) = s
<1>. DEFINE x == SubSeq(s, 1, m)
            y == SubSeq(s, m + 1, Len(s))
<1>1. x \in Seq(A) /\ Len(x) = m /\ \A i \in 1 .. m : x[i] = s[i]
  BY FirstOnes
<1>2. y \in Seq(A) /\ Len(y) = Len(s) - m /\ \A i \in 1 .. Len(s) - m : y[i] = s[m + i]
  BY LastOnes
<1>3. Len(s) \in Nat /\ m \in Nat /\ m <= Len(s)
  OBVIOUS
<1>. HIDE DEF x, y
<1>4. /\ x \o y \in Seq(A) /\ Len(x \o y) = Len(s)
      /\ \A i \in 1 .. Len(s) : (x \o y)[i] = IF i <= m THEN x[i] ELSE y[i - m]
  BY <1>1, <1>2, <1>3, BothJoined
<1>5. \A i \in 1 .. Len(s) : (x \o y)[i] = s[i]
  <2>1. ASSUME NEW i \in 1 .. Len(s) PROVE (x \o y)[i] = s[i]
    <3>1. CASE i <= m
      <4>1. i \in 1 .. m
        BY <1>3, <3>1
      <4>2. x[i] = s[i]
        BY <1>1, <4>1
      <4>. QED
        BY <1>4, <3>1, <4>2
    <3>2. CASE i > m
      <4>1. i - m \in 1 .. Len(s) - m /\ m + (i - m) = i
        BY <1>3, <3>2
      <4>2. y[i - m] = s[i]
        BY <1>2, <4>1
      <4>3. ~(i <= m)
        BY <1>3, <3>2
      <4>. QED
        BY <1>4, <4>2, <4>3
    <3>3. i <= m \/ i > m
      BY <1>3
    <3>. QED
      BY <3>1, <3>2, <3>3
  <2>. QED
    BY <2>1
<1>6. x \o y = s
  BY <1>4, <1>5, SeqEqual
<1>. QED
  BY <1>6 DEF x, y

\* Leaving out the first a of one sequence and the first b of the next is leaving
\* out the first a + b of both together, if the first is left out altogether or
\* nothing is of the second.
LEMMA PartsJoined ==
  ASSUME NEW A, NEW p \in Seq(A), NEW q \in Seq(A), NEW a \in 0 .. Len(p), NEW b \in 0 .. Len(q),
         a = Len(p) \/ b = 0
  PROVE  SubSeq(p, a + 1, Len(p)) \o SubSeq(q, b + 1, Len(q))
           = SubSeq(p \o q, a + b + 1, Len(p) + Len(q))
<1>. DEFINE m == Len(p)
            n == Len(q)
            pp == SubSeq(p, a + 1, m)
            qq == SubSeq(q, b + 1, n)
            w == p \o q
            k == a + b
            all == SubSeq(w, k + 1, m + n)
<1>1. m \in Nat /\ n \in Nat /\ a \in Nat /\ b \in Nat /\ a <= m /\ b <= n
  OBVIOUS
<1>2. /\ w \in Seq(A) /\ Len(w) = m + n
      /\ \A i \in 1 .. m + n : w[i] = IF i <= m THEN p[i] ELSE q[i - m]
  BY BothJoined
<1>3. pp \in Seq(A) /\ Len(pp) = m - a /\ \A i \in 1 .. m - a : pp[i] = p[a + i]
  BY LastOnes
<1>4. qq \in Seq(A) /\ Len(qq) = n - b /\ \A i \in 1 .. n - b : qq[i] = q[b + i]
  BY LastOnes
<1>5. k \in Nat /\ k = a + b
  BY <1>1
<1>6. /\ all \in Seq(A) /\ Len(all) = m + n - k
      /\ \A i \in 1 .. m + n - k : all[i] = w[k + i]
  <2>. HIDE DEF m, n, w
  <2>1. k \in 0 .. Len(w)
    BY <1>1, <1>2
  <2>. HIDE DEF k
  <2>. DEFINE z == SubSeq(w, k + 1, Len(w))
  <2>2. z \in Seq(A) /\ Len(z) = Len(w) - k /\ \A i \in 1 .. Len(w) - k : z[i] = w[k + i]
    BY <1>2, <2>1, LastOnes
  <2>3. all = z
    BY <1>2
  <2>4. Len(w) - k = m + n - k
    BY <1>1, <1>2, <1>5
  <2>. HIDE DEF z, all, pp, qq
  <2>. QED
    BY <2>2, <2>3, <2>4
<1>. HIDE DEF pp, qq, all, w, k
<1>7. /\ pp \o qq \in Seq(A) /\ Len(pp \o qq) = Len(pp) + Len(qq)
      /\ \A i \in 1 .. Len(pp) + Len(qq) :
           (pp \o qq)[i] = IF i <= Len(pp) THEN pp[i] ELSE qq[i - Len(pp)]
  BY <1>3, <1>4, BothJoined
<1>8. a = m \/ b = 0
  OBVIOUS
<1>. HIDE DEF m, n
<1>9. ASSUME NEW i \in 1 .. (m - a) + (n - b)
      PROVE  (pp \o qq)[i] = all[i]
  <2>1. i \in 1 .. m + n - k /\ k + i \in 1 .. m + n
    BY <1>1, <1>5
  <2>. DEFINE j == k + i
  <2>2. all[i] = IF j <= m THEN p[j] ELSE q[j - m]
    <3>1. all[i] = w[j]
      BY <1>6, <2>1
    <3>2. j \in 1 .. m + n
      BY <2>1
    <3>. HIDE DEF j
    <3>3. w[j] = IF j <= m THEN p[j] ELSE q[j - m]
      BY <1>2, <3>2
    <3>. QED
      BY <3>1, <3>3
  <2>6. j = a + b + i
    BY <1>1, <1>5
  <2>. HIDE DEF j
  <2>3. (pp \o qq)[i] = IF i <= m - a THEN pp[i] ELSE qq[i - (m - a)]
    BY <1>3, <1>4, <1>7
  <2>4. CASE i <= m - a
    <3>1. b = 0 /\ pp[i] = p[a + i] /\ a + i <= m
      <4>1. a # m
        BY <1>1, <2>4
      <4>2. i \in 1 .. m - a
        BY <1>1, <2>4
      <4>. QED
        BY <1>1, <1>3, <1>8, <2>4, <4>1, <4>2
    <3>2. j = a + i /\ j <= m
      BY <1>1, <2>6, <3>1
    <3>. QED
      BY <2>2, <2>3, <2>4, <3>1, <3>2
  <2>5. CASE ~(i <= m - a)
    <3>1. i - (m - a) \in 1 .. n - b
      BY <1>1, <2>5
    <3>2. qq[i - (m - a)] = q[b + (i - (m - a))]
      BY <1>4, <3>1
    <3>3. b + (i - (m - a)) = j - m
      BY <1>1, <2>6
    <3>4. ~(j <= m)
      BY <1>1, <2>5, <2>6
    <3>. QED
      BY <2>2, <2>3, <2>5, <3>2, <3>3, <3>4
  <2>. QED
    BY <2>4, <2>5
<1>10. Len(pp \o qq) = Len(all)
  BY <1>1, <1>3, <1>4, <1>6, <1>7, <1>5
<1>11. pp \o qq = all
  <2>1. \A i \in 1 .. Len(pp \o qq) : (pp \o qq)[i] = all[i]
    BY <1>3, <1>4, <1>7, <1>9
  <2>. QED
    BY <1>6, <1>7, <1>10, <2>1, SeqEqual
<1>. QED
  BY <1>11 DEF pp, qq, all, m, n, w, k

\* Where two splits of one sequence begin, the shorter first part is the start of
\* the longer; what the longer has more, with its second part, is the other's.
LEMMA TakenOff ==
  ASSUME NEW A, NEW x \in Seq(A), NEW y \in Seq(A), NEW a \in Seq(A), NEW b \in Seq(A),
         x \o y = a \o b, Len(x) >= Len(a)
  PROVE  /\ \A i \in 1 .. Len(a) : x[i] = a[i]
         /\ SubSeq(x, Len(a) + 1, Len(x)) \o y = b
<1>. DEFINE m == Len(x)
            n == Len(y)
            k == Len(a)
            l == Len(b)
            w == x \o y
            v == SubSeq(x, k + 1, m)
            u == v \o y
<1>1. m \in Nat /\ n \in Nat /\ k \in Nat /\ l \in Nat /\ k <= m /\ k \in 0 .. m
  OBVIOUS
<1>2. /\ Len(w) = m + n /\ \A i \in 1 .. m + n : w[i] = IF i <= m THEN x[i] ELSE y[i - m]
  BY BothJoined
<1>3. /\ Len(w) = k + l /\ \A i \in 1 .. k + l : w[i] = IF i <= k THEN a[i] ELSE b[i - k]
  BY BothJoined
<1>4. v \in Seq(A) /\ Len(v) = m - k /\ \A i \in 1 .. m - k : v[i] = x[k + i]
  BY <1>1, LastOnes
<1>. HIDE DEF m, n, k, l, w, v
<1>5. m + n = k + l
  BY <1>2, <1>3
<1>6. ASSUME NEW i \in 1 .. k PROVE x[i] = a[i]
  <2>1. i \in 1 .. m + n /\ i \in 1 .. k + l /\ i <= m /\ i <= k
    BY <1>1
  <2>. QED
    BY <1>2, <1>3, <2>1
<1>7. Len(v) \in Nat /\ Len(v) + n = l
  BY <1>1, <1>4, <1>5
<1>8. /\ u \in Seq(A) /\ Len(u) = Len(v) + n
      /\ \A i \in 1 .. Len(v) + n : u[i] = IF i <= Len(v) THEN v[i] ELSE y[i - Len(v)]
  BY <1>4, BothJoined DEF n
<1>. HIDE DEF u
<1>9. ASSUME NEW i \in 1 .. l PROVE u[i] = b[i]
  <2>. DEFINE j == k + i
  <2>1. i \in Nat /\ i >= 1 /\ j \in 1 .. m + n /\ j \in 1 .. k + l /\ ~(j <= k) /\ j - k = i
    BY <1>1, <1>5
  <2>2. (j <= m <=> i <= Len(v)) /\ j - m = i - Len(v) /\ (i <= Len(v) => i \in 1 .. m - k)
    BY <1>1, <1>4
  <2>3. i <= Len(v) => v[i] = x[j]
    BY <1>4, <2>2
  <2>. HIDE DEF j
  <2>4. w[j] = b[i]
    BY <1>3, <2>1
  <2>5. w[j] = IF j <= m THEN x[j] ELSE y[j - m]
    BY <1>2, <2>1
  <2>6. u[i] = IF i <= Len(v) THEN v[i] ELSE y[i - Len(v)]
    BY <1>7, <1>8
  <2>. QED
    BY <2>2, <2>3, <2>4, <2>5, <2>6
<1>10. u = b
  <2>1. Len(u) = Len(b)
    BY <1>7, <1>8 DEF l
  <2>2. \A i \in 1 .. Len(u) : u[i] = b[i]
    BY <1>9, <2>1 DEF l
  <2>. QED
    BY <1>8, <2>1, <2>2, SeqEqual
<1>. QED
  BY <1>6, <1>10 DEF u, v, k, m

\* The first of two sequences put together is a prefix.
LEMMA FirstIsPrefix ==
  ASSUME NEW A, NEW x \in Seq(A), NEW y \in Seq(A)
  PROVE  IsPrefix(x, x \o y)
<1>. DEFINE z == x \o y
            n == Len(x)
            u == SubSeq(x, 1, n)
            v == SubSeq(z, 1, n)
<1>1. /\ z \in Seq(A) /\ Len(z) = Len(x) + Len(y)
      /\ \A i \in 1 .. Len(x) + Len(y) : z[i] = IF i <= Len(x) THEN x[i] ELSE y[i - Len(x)]
  BY BothJoined
<1>2. n \in Nat /\ Len(y) \in Nat /\ n = Len(x) /\ n \in 0 .. Len(x)
  OBVIOUS
<1>. HIDE DEF z, n
<1>3. n \in 0 .. Len(z) /\ Len(x) <= Len(z)
  BY <1>1, <1>2
<1>4. u \in Seq(A) /\ Len(u) = n /\ \A i \in 1 .. n : u[i] = x[i]
  BY <1>2, FirstOnes
<1>5. v \in Seq(A) /\ Len(v) = n /\ \A i \in 1 .. n : v[i] = z[i]
  BY <1>1, <1>3, FirstOnes
<1>6. \A i \in 1 .. n : z[i] = x[i]
  BY <1>1, <1>2
<1>. HIDE DEF u, v
<1>7. \A i \in 1 .. n : u[i] = v[i]
  BY <1>4, <1>5, <1>6
<1>8. u = v
  BY <1>4, <1>5, <1>7, SeqEqual
<1>. QED
  BY <1>3, <1>8 DEF IsPrefix, u, v, z, n

-----------------------------------------------------------------------------
(* FlattenSeq *)

\* F[i] is the first i sequences of ss, one after the other.
IsFlat(F, ss) == F = [i \in 1 .. Len(ss) |-> IF i = 1 THEN ss[i] ELSE F[i - 1] \o ss[i]]

\* There is such a function.
LEMMA FlatExists ==
  ASSUME NEW A, NEW ss \in Seq(Seq(A))
  PROVE  \E F \in [1 .. Len(ss) -> Seq(A)] : IsFlat(F, ss)
<1>. DEFINE n == Len(ss)
            Good(F, i) == F[i] = IF i = 1 THEN ss[i] ELSE F[i - 1] \o ss[i]
            S == {m \in 0 .. n : \E F \in [1 .. n -> Seq(A)] : \A i \in 1 .. m : Good(F, i)}
<1>1. n \in Nat /\ \A i \in 1 .. n : ss[i] \in Seq(A)
  OBVIOUS
<1>2. 0 \in S
  <2>1. [i \in 1 .. n |-> << >>] \in [1 .. n -> Seq(A)]
    OBVIOUS
  <2>2. \A i \in 1 .. 0 : Good([j \in 1 .. n |-> << >>], i)
    OBVIOUS
  <2>. QED
    BY <1>1, <2>1, <2>2
<1>3. ASSUME NEW m \in 1 .. n, m - 1 \in S PROVE m \in S
  <2>1. PICK F \in [1 .. n -> Seq(A)] : \A i \in 1 .. m - 1 : Good(F, i)
    BY <1>3
  <2>. DEFINE s == IF m = 1 THEN ss[m] ELSE F[m - 1] \o ss[m]
              G == [F EXCEPT ![m] = s]
  <2>2. s \in Seq(A)
    <3>1. CASE m = 1
      BY <1>1, <3>1
    <3>2. CASE m # 1
      <4>1. m - 1 \in 1 .. n
        BY <1>1, <3>2
      <4>2. F[m - 1] \in Seq(A) /\ ss[m] \in Seq(A)
        BY <1>1, <4>1
      <4>. QED
        BY <3>2, <4>2
    <3>. QED
      BY <3>1, <3>2
  <2>3. G \in [1 .. n -> Seq(A)]
    BY <2>2
  <2>4. \A i \in 1 .. m : Good(G, i)
    <3>1. \A i \in 1 .. m - 1 : G[i] = F[i]
      BY <1>1
    <3>2. G[m] = s
      BY <1>1
    <3>3. ASSUME NEW i \in 1 .. m - 1 PROVE Good(G, i)
      <4>1. Good(F, i) /\ (i # 1 => i - 1 \in 1 .. m - 1)
        BY <1>1, <2>1
      <4>. QED
        BY <3>1, <4>1
    <3>4. Good(G, m)
      BY <1>1, <3>1, <3>2
    <3>. QED
      BY <1>1, <3>3, <3>4
  <2>5. \E H \in [1 .. n -> Seq(A)] : \A i \in 1 .. m : Good(H, i)
    <3>. HIDE DEF G, Good
    <3>. QED
      BY <2>3, <2>4
  <2>6. m \in 0 .. n
    BY <1>1
  <2>. QED
    BY <2>5, <2>6
<1>4. n \in S
  <2>. HIDE DEF S
  <2>1. 0 .. n \subseteq S
    BY <1>1, <1>2, <1>3, UpTo
  <2>. QED
    BY <1>1, <2>1
<1>5. PICK F \in [1 .. n -> Seq(A)] : \A i \in 1 .. n : Good(F, i)
  BY <1>4
<1>6. F = [i \in 1 .. n |-> IF i = 1 THEN ss[i] ELSE F[i - 1] \o ss[i]]
  BY <1>5
<1>. QED
  BY <1>6 DEF IsFlat

\* Its value at one place.
LEMMA FlatStep ==
  ASSUME NEW ss, NEW F, IsFlat(F, ss), NEW i \in 1 .. Len(ss)
  PROVE  F[i] = IF i = 1 THEN ss[i] ELSE F[i - 1] \o ss[i]
<1>. DEFINE G == [j \in 1 .. Len(ss) |-> IF j = 1 THEN ss[j] ELSE F[j - 1] \o ss[j]]
<1>1. F = G
  BY DEF IsFlat
<1>2. G[i] = IF i = 1 THEN ss[i] ELSE F[i - 1] \o ss[i]
  OBVIOUS
<1>. QED
  BY <1>1, <1>2

\* There is one such function only, and it gives FlattenSeq of each prefix.
LEMMA FlatUnique ==
  ASSUME NEW ss, NEW tt, Len(ss) \in Nat, Len(tt) \in Nat, Len(ss) <= Len(tt),
         \A i \in 1 .. Len(ss) : ss[i] = tt[i],
         NEW F, IsFlat(F, ss), NEW G, IsFlat(G, tt)
  PROVE  \A i \in 1 .. Len(ss) : F[i] = G[i]
<1>. DEFINE m == Len(ss)
            S == {j \in 0 .. m : j = 0 \/ F[j] = G[j]}
<1>1. 0 \in S
  OBVIOUS
<1>2. ASSUME NEW j \in 1 .. m, j - 1 \in S PROVE j \in S
  <2>. j \in 1 .. Len(ss) /\ j \in 1 .. Len(tt)
    OBVIOUS
  <2>1. F[j] = IF j = 1 THEN ss[j] ELSE F[j - 1] \o ss[j]
    BY FlatStep
  <2>3. G[j] = IF j = 1 THEN tt[j] ELSE G[j - 1] \o tt[j]
    BY FlatStep
  <2>2. ss[j] = tt[j] /\ (j # 1 => F[j - 1] = G[j - 1])
    BY <1>2
  <2>. QED
    BY <2>1, <2>2, <2>3
<1>3. 0 .. m \subseteq S
  <2>. HIDE DEF S
  <2>. QED
    BY <1>1, <1>2, UpTo
<1>. QED
  BY <1>3

\* FlattenSeq is its last value.
LEMMA FlattenIsFlat ==
  ASSUME NEW A, NEW ss \in Seq(Seq(A)), ss # << >>
  PROVE  \E F \in [1 .. Len(ss) -> Seq(A)] : IsFlat(F, ss) /\ FlattenSeq(ss) = F[Len(ss)]
<1>. DEFINE C == CHOOSE F : IsFlat(F, ss)
<1>1. PICK F \in [1 .. Len(ss) -> Seq(A)] : IsFlat(F, ss)
  BY FlatExists
<1>2. IsFlat(C, ss)
  <2>1. \E G : IsFlat(G, ss)
    BY <1>1
  <2>. QED
    BY <2>1
<1>3. Len(ss) \in Nat /\ Len(ss) # 0
  OBVIOUS
<1>4. FlattenSeq(ss) = C[Len(ss)]
  BY <1>3, Zenon DEF FlattenSeq, IsFlat
<1>. HIDE DEF C
<1>5. \A i \in 1 .. Len(ss) : F[i] = C[i]
  <2>1. Len(ss) \in Nat /\ Len(ss) <= Len(ss) /\ \A i \in 1 .. Len(ss) : ss[i] = ss[i]
    BY <1>3
  <2>. QED
    BY <1>1, <1>2, <2>1, FlatUnique
<1>. QED
  BY <1>1, <1>3, <1>4, <1>5

\* No sequences, no elements.
LEMMA FlattenEmpty == FlattenSeq(<< >>) = << >>
BY DEF FlattenSeq

\* The elements are those of the sequences.
LEMMA FlattenType ==
  ASSUME NEW A, NEW ss \in Seq(Seq(A))
  PROVE  FlattenSeq(ss) \in Seq(A)
<1>1. CASE ss = << >>
  BY <1>1, FlattenEmpty, EmptySeq
<1>2. CASE ss # << >>
  <2>1. PICK F \in [1 .. Len(ss) -> Seq(A)] : FlattenSeq(ss) = F[Len(ss)]
    BY <1>2, FlattenIsFlat
  <2>2. Len(ss) \in 1 .. Len(ss)
    BY <1>2
  <2>. QED
    BY <2>1, <2>2
<1>. QED
  BY <1>1, <1>2

\* One more sequence adds its elements at the end.
LEMMA FlattenAppend ==
  ASSUME NEW A, NEW ss \in Seq(Seq(A)), NEW s \in Seq(A)
  PROVE  FlattenSeq(Append(ss, s)) = FlattenSeq(ss) \o s
<1>. DEFINE n == Len(ss)
            more == Append(ss, s)
<1>1. /\ more \in Seq(Seq(A)) /\ more # << >> /\ Len(more) = n + 1 /\ n \in Nat
      /\ more[n + 1] = s /\ \A i \in 1 .. n : ss[i] = more[i]
  BY AppendProperties, LenProperties
<1>2. PICK M \in [1 .. Len(more) -> Seq(A)] : IsFlat(M, more) /\ FlattenSeq(more) = M[Len(more)]
  <2>. HIDE DEF more
  <2>. QED
    BY <1>1, FlattenIsFlat
<1>. HIDE DEF more
<1>3. M[n + 1] = IF n + 1 = 1 THEN more[n + 1] ELSE M[n + 1 - 1] \o more[n + 1]
  <2>1. n + 1 \in 1 .. Len(more)
    BY <1>1
  <2>. QED
    BY <1>2, <2>1, FlatStep
<1>4. CASE ss = << >>
  <2>1. FlattenSeq(more) = s
    BY <1>1, <1>2, <1>3, <1>4
  <2>2. FlattenSeq(ss) \o s = s
    BY <1>4, FlattenEmpty
  <2>. QED
    BY <2>1, <2>2 DEF more
<1>5. CASE ss # << >>
  <2>1. PICK F \in [1 .. Len(ss) -> Seq(A)] : IsFlat(F, ss) /\ FlattenSeq(ss) = F[Len(ss)]
    BY <1>5, FlattenIsFlat
  <2>2. \A i \in 1 .. n : F[i] = M[i]
    <3>1. /\ Len(ss) \in Nat /\ Len(more) \in Nat /\ Len(ss) <= Len(more)
          /\ \A i \in 1 .. Len(ss) : ss[i] = more[i]
      BY <1>1
    <3>2. \A i \in 1 .. Len(ss) : F[i] = M[i]
      <4>1. IsFlat(F, ss) /\ IsFlat(M, more)
        BY <1>2, <2>1
      <4>. QED
        BY <3>1, <4>1, FlatUnique, SMTT(30)
    <3>. QED
      BY <3>2
  <2>3. n \in 1 .. n /\ n + 1 # 1 /\ n + 1 - 1 = n
    BY <1>5
  <2>4. FlattenSeq(more) = M[n] \o s
    BY <1>1, <1>2, <1>3, <2>3
  <2>. QED
    BY <2>1, <2>2, <2>3, <2>4 DEF more
<1>. QED
  BY <1>4, <1>5

\* The elements of two sequences put together.
LEMMA FlattenConcat ==
  ASSUME NEW A, NEW ss \in Seq(Seq(A)), NEW tt \in Seq(Seq(A))
  PROVE  FlattenSeq(ss \o tt) = FlattenSeq(ss) \o FlattenSeq(tt)
<1>. DEFINE n == Len(tt)
            P(i) == SubSeq(tt, 1, i)
            S == {m \in 0 .. n : FlattenSeq(ss \o P(m)) = FlattenSeq(ss) \o FlattenSeq(P(m))}
<1>1. n \in Nat /\ P(n) = tt /\ FlattenSeq(ss) \in Seq(A)
  BY FlattenType
<1>2. 0 \in S
  <2>1. P(0) = << >> /\ ss \o P(0) = ss
    OBVIOUS
  <2>2. FlattenSeq(P(0)) = << >>
    BY <2>1, FlattenEmpty
  <2>3. FlattenSeq(ss) \o << >> = FlattenSeq(ss)
    BY <1>1, ConcatEmptySeq
  <2>4. FlattenSeq(ss \o P(0)) = FlattenSeq(ss) \o FlattenSeq(P(0))
    BY <2>1, <2>2, <2>3
  <2>. HIDE DEF P
  <2>. QED
    BY <1>1, <2>4
<1>3. ASSUME NEW m \in 1 .. n, m - 1 \in S PROVE m \in S
  <2>. DEFINE qq == P(m - 1)
  <2>1. qq \in Seq(Seq(A)) /\ tt[m] \in Seq(A) /\ P(m) = Append(qq, tt[m])
    OBVIOUS
  <2>2. ss \o P(m) = Append(ss \o qq, tt[m]) /\ ss \o qq \in Seq(Seq(A))
    BY <2>1
  <2>3. FlattenSeq(ss \o qq) = FlattenSeq(ss) \o FlattenSeq(qq)
    BY <1>3
  <2>. HIDE DEF qq, P
  <2>4. FlattenSeq(P(m)) = FlattenSeq(qq) \o tt[m]
    BY <2>1, FlattenAppend
  <2>5. FlattenSeq(ss \o P(m)) = FlattenSeq(ss \o qq) \o tt[m]
    BY <2>1, <2>2, FlattenAppend
  <2>6. FlattenSeq(qq) \in Seq(A)
    BY <2>1, FlattenType
  <2>7. (FlattenSeq(ss) \o FlattenSeq(qq)) \o tt[m] = FlattenSeq(ss) \o (FlattenSeq(qq) \o tt[m])
    <3>1. FlattenSeq(ss) \in Seq(A) /\ FlattenSeq(qq) \in Seq(A) /\ tt[m] \in Seq(A)
      BY <1>1, <2>1, <2>6
    <3>2. \A x, y, z \in Seq(A) : (x \o y) \o z = x \o (y \o z)
      BY ConcatAssociative
    <3>. HIDE DEF S
    <3>. QED
      BY <3>1, <3>2
  <2>8. FlattenSeq(ss \o P(m)) = FlattenSeq(ss) \o FlattenSeq(P(m))
    BY <2>3, <2>4, <2>5, <2>7
  <2>. QED
    BY <2>8
<1>4. n \in S
  <2>. HIDE DEF S
  <2>1. 0 .. n \subseteq S
    BY <1>1, <1>2, <1>3, UpTo
  <2>. QED
    BY <1>1, <2>1
<1>. QED
  BY <1>1, <1>4

\* One sequence more at the front adds its elements at the front.
LEMMA FlattenFirst ==
  ASSUME NEW A, NEW s \in Seq(A), NEW ss \in Seq(Seq(A))
  PROVE  FlattenSeq(<< s >> \o ss) = s \o FlattenSeq(ss)
<1>1. << s >> \in Seq(Seq(A)) /\ << >> \in Seq(Seq(A)) /\ << s >> = Append(<< >>, s)
  OBVIOUS
<1>2. FlattenSeq(Append(<< >>, s)) = FlattenSeq(<< >>) \o s
  BY <1>1, FlattenAppend
<1>3. FlattenSeq(<< s >>) = s
  BY <1>1, <1>2, FlattenEmpty
<1>. QED
  BY <1>1, <1>3, FlattenConcat

\* A sequence of sequences, one for each element of s, one after the other.
Mapped(F, s) == FlattenSeq([i \in 1 .. Len(s) |-> F[s[i]]])

\* F makes a sequence over B of each member of A.
Makes(F, A, B) == F \in [A -> Seq(B)]

\* It is put together as s is.
LEMMA MappedJoined ==
  ASSUME NEW A, NEW B, NEW F, Makes(F, A, B), NEW s \in Seq(A), NEW t \in Seq(A)
  PROVE  /\ Mapped(F, s) \in Seq(B)
         /\ Mapped(F, s \o t) = Mapped(F, s) \o Mapped(F, t)
<1>. F \in [A -> Seq(B)]
  BY DEF Makes
<1>. DEFINE M(r) == [i \in 1 .. Len(r) |-> F[r[i]]]
<1>1. ASSUME NEW r \in Seq(A) PROVE M(r) \in Seq(Seq(B)) /\ Len(M(r)) = Len(r)
  <2>1. \A i \in 1 .. Len(r) : F[r[i]] \in Seq(B)
    OBVIOUS
  <2>. QED
    BY <2>1
<1>2. M(s \o t) = M(s) \o M(t)
  <2>. DEFINE m == Len(s)
              n == Len(t)
              u == s \o t
              x == M(s)
              y == M(t)
              z == M(u)
  <2>1. m \in Nat /\ n \in Nat
    OBVIOUS
  <2>2. /\ u \in Seq(A) /\ Len(u) = m + n
        /\ \A i \in 1 .. m + n : u[i] = IF i <= m THEN s[i] ELSE t[i - m]
    BY BothJoined
  <2>3. /\ x \in Seq(Seq(B)) /\ Len(x) = m /\ y \in Seq(Seq(B)) /\ Len(y) = n
    BY <1>1
  <2>. HIDE DEF u
  <2>4. z \in Seq(Seq(B)) /\ Len(z) = m + n
    BY <1>1, <2>2
  <2>5. /\ (\A i \in 1 .. m : x[i] = F[s[i]]) /\ (\A i \in 1 .. n : y[i] = F[t[i]])
        /\ \A i \in 1 .. m + n : z[i] = F[u[i]]
    BY <2>2
  <2>. HIDE DEF m, n, x, y, z
  <2>6. /\ x \o y \in Seq(Seq(B)) /\ Len(x \o y) = m + n
        /\ \A i \in 1 .. m + n : (x \o y)[i] = IF i <= m THEN x[i] ELSE y[i - m]
    BY <2>3, BothJoined
  <2>7. ASSUME NEW i \in 1 .. m + n PROVE z[i] = (x \o y)[i]
    <3>. DEFINE k == i - m
    <3>1. z[i] = F[u[i]]
      BY <2>5
    <3>2. u[i] = IF i <= m THEN s[i] ELSE t[k]
      BY <2>2
    <3>3. (x \o y)[i] = IF i <= m THEN x[i] ELSE y[k]
      BY <2>6
    <3>4. (i <= m => i \in 1 .. m) /\ (~(i <= m) => k \in 1 .. n)
      BY <2>1
    <3>. HIDE DEF k
    <3>5. (i <= m => x[i] = F[s[i]]) /\ (~(i <= m) => y[k] = F[t[k]])
      BY <2>5, <3>4
    <3>. QED
      BY <3>1, <3>2, <3>3, <3>5
  <2>8. z = x \o y
    BY <2>4, <2>6, <2>7, SeqEqual
  <2>. QED
    BY <2>8 DEF z, x, y, u
<1>3. FlattenSeq(M(s) \o M(t)) = FlattenSeq(M(s)) \o FlattenSeq(M(t))
  <2>1. M(s) \in Seq(Seq(B)) /\ M(t) \in Seq(Seq(B))
    BY <1>1
  <2>. HIDE DEF M
  <2>. QED
    BY <2>1, FlattenConcat
<1>4. FlattenSeq(M(s)) \in Seq(B)
  <2>1. M(s) \in Seq(Seq(B))
    BY <1>1
  <2>. HIDE DEF M
  <2>. QED
    BY <2>1, FlattenType
<1>. QED
  BY <1>2, <1>3, <1>4 DEF Mapped

\* What is made of s and t together is what is made of each, together.
Together(F, s, t) == Mapped(F, s \o t) = Mapped(F, s) \o Mapped(F, t)

LEMMA MappedTogether ==
  ASSUME NEW A, NEW B, NEW F, Makes(F, A, B), NEW s \in Seq(A), NEW t \in Seq(A)
  PROVE  Together(F, s, t)
BY MappedJoined DEF Together

\* No elements make nothing.
LEMMA MappedNone ==
  ASSUME NEW F
  PROVE  Mapped(F, << >>) = << >>
<1>1. [i \in 1 .. Len(<< >>) |-> F[<< >>[i]]] = << >>
  OBVIOUS
<1>. QED
  BY <1>1, FlattenEmpty DEF Mapped

\* One element makes what is made of it.
LEMMA MappedOne ==
  ASSUME NEW A, NEW B, NEW F, Makes(F, A, B), NEW a \in A
  PROVE  Mapped(F, << a >>) = F[a]
<1>. F \in [A -> Seq(B)]
  BY DEF Makes
<1>2. [i \in 1 .. Len(<< a >>) |-> F[<< a >>[i]]] = << F[a] >>
  OBVIOUS
<1>3. FlattenSeq(<< F[a] >>) = F[a]
  <2>1. << F[a] >> = << F[a] >> \o << >> /\ << >> \in Seq(Seq(B)) /\ F[a] \in Seq(B)
    OBVIOUS
  <2>2. FlattenSeq(<< F[a] >> \o << >>) = F[a] \o << >>
    BY <2>1, FlattenFirst, FlattenEmpty
  <2>3. F[a] \o << >> = F[a]
    BY <2>1, ConcatEmptySeq
  <2>. QED
    BY <2>1, <2>2, <2>3
<1>. QED
  BY <1>2, <1>3 DEF Mapped

-----------------------------------------------------------------------------
(* SumFunctionOnSet *)

\* h[i] is the sum of f over the members of S up to i.
Sums(h, f, S, n) ==
    /\ h \in [0 .. n -> Int]
    /\ h[0] = 0
    /\ \A i \in 1 .. n : h[i] = IF i \in S THEN h[i - 1] + f[i] ELSE h[i - 1]

\* The fold over all subsets of S, taking out a chosen member at a time.
IsSum(g, f, S) ==
    g = [s \in SUBSET S |->
           IF s = {} THEN 0
           ELSE f[CHOOSE x \in s : TRUE] + g[s \ {CHOOSE x \in s : TRUE}]]

\* There are such sums.
LEMMA SumsExist ==
  ASSUME NEW n \in Nat, NEW S, NEW f \in [1 .. n -> Int]
  PROVE  \E h : Sums(h, f, S, n)
<1>. DEFINE Good(h, i) == h[i] = IF i \in S THEN h[i - 1] + f[i] ELSE h[i - 1]
            T == {m \in 0 .. n : \E h \in [0 .. n -> Int] :
                                    h[0] = 0 /\ \A i \in 1 .. m : Good(h, i)}
<1>1. 0 \in T
  <2>. DEFINE k == [i \in 0 .. n |-> 0]
  <2>2. k \in [0 .. n -> Int] /\ k[0] = 0 /\ \A i \in 1 .. 0 : Good(k, i)
    OBVIOUS
  <2>3. \E h \in [0 .. n -> Int] : h[0] = 0 /\ \A i \in 1 .. 0 : Good(h, i)
    <3>. HIDE DEF k, Good
    <3>. QED
      BY <2>2
  <2>. QED
    BY <2>3
<1>2. ASSUME NEW m \in 1 .. n, m - 1 \in T PROVE m \in T
  <2>1. PICK h \in [0 .. n -> Int] : h[0] = 0 /\ \A i \in 1 .. m - 1 : Good(h, i)
    BY <1>2
  <2>. DEFINE v == IF m \in S THEN h[m - 1] + f[m] ELSE h[m - 1]
              k == [h EXCEPT ![m] = v]
  <2>2. v \in Int /\ k \in [0 .. n -> Int] /\ k[0] = 0 /\ k[m] = v
        /\ \A i \in 0 .. m - 1 : k[i] = h[i]
    BY <2>1
  <2>3. \A i \in 1 .. m : Good(k, i)
    <3>1. ASSUME NEW i \in 1 .. m - 1 PROVE Good(k, i)
      <4>1. Good(h, i) /\ i - 1 \in 0 .. m - 1 /\ i \in 0 .. m - 1
        BY <2>1
      <4>. QED
        BY <2>2, <4>1
    <3>2. Good(k, m)
      <4>1. k[m - 1] = h[m - 1]
        BY <2>2
      <4>. QED
        BY <2>2, <4>1
    <3>. QED
      BY <3>1, <3>2
  <2>4. \E q \in [0 .. n -> Int] : q[0] = 0 /\ \A i \in 1 .. m : Good(q, i)
    <3>. HIDE DEF k, Good
    <3>. QED
      BY <2>2, <2>3
  <2>. QED
    BY <2>4
<1>3. n \in T
  <2>. HIDE DEF T
  <2>1. 0 .. n \subseteq T
    BY <1>1, <1>2, UpTo
  <2>. QED
    BY <2>1
<1>4. PICK h \in [0 .. n -> Int] : h[0] = 0 /\ \A i \in 1 .. n : Good(h, i)
  BY <1>3
<1>. QED
  BY <1>4 DEF Sums

\* Two sums of the same numbers are the same.
LEMMA SumsUnique ==
  ASSUME NEW n \in Nat, NEW S, NEW f \in [1 .. n -> Int],
         NEW h, Sums(h, f, S, n), NEW k, Sums(k, f, S, n)
  PROVE  h[n] = k[n]
<1>. DEFINE T == {i \in 0 .. n : h[i] = k[i]}
<1>1. 0 \in T
  BY DEF Sums
<1>2. ASSUME NEW i \in 1 .. n, i - 1 \in T PROVE i \in T
  <2>1. h[i] = IF i \in S THEN h[i - 1] + f[i] ELSE h[i - 1]
    BY DEF Sums
  <2>2. k[i] = IF i \in S THEN k[i - 1] + f[i] ELSE k[i - 1]
    BY DEF Sums
  <2>3. h[i - 1] = k[i - 1]
    BY <1>2
  <2>. QED
    BY <2>1, <2>2, <2>3
<1>3. 0 .. n \subseteq T
  <2>. HIDE DEF T
  <2>. QED
    BY <1>1, <1>2, UpTo
<1>. QED
  BY <1>3

\* A member taken out lowers the sum by its number.
LEMMA SumsWithout ==
  ASSUME NEW n \in Nat, NEW S \in SUBSET (1 .. n), NEW f \in [1 .. n -> Int],
         NEW h, Sums(h, f, S, n), NEW x \in S, NEW q, Sums(q, f, S \ {x}, n)
  PROVE  h[n] = f[x] + q[n]
<1>. DEFINE k == [i \in 0 .. n |-> IF i < x THEN h[i] ELSE h[i] - f[x]]
<1>1. x \in 1 .. n /\ f[x] \in Int /\ h \in [0 .. n -> Int] /\ h[0] = 0
  BY DEF Sums
<1>2. k \in [0 .. n -> Int] /\ k[0] = 0
  BY <1>1
<1>3. ASSUME NEW i \in 1 .. n
      PROVE  k[i] = IF i \in S \ {x} THEN k[i - 1] + f[i] ELSE k[i - 1]
  <2>1. h[i] = IF i \in S THEN h[i - 1] + f[i] ELSE h[i - 1]
    BY DEF Sums
  <2>2. /\ k[i] = IF i < x THEN h[i] ELSE h[i] - f[x]
        /\ k[i - 1] = IF i - 1 < x THEN h[i - 1] ELSE h[i - 1] - f[x]
        /\ h[i] \in Int /\ h[i - 1] \in Int /\ f[i] \in Int
    BY <1>1
  <2>. HIDE DEF k
  <2>3. CASE i < x
    BY <1>1, <2>1, <2>2, <2>3
  <2>4. CASE i = x
    BY <1>1, <2>1, <2>2, <2>4
  <2>5. CASE i > x
    BY <1>1, <2>1, <2>2, <2>5
  <2>. QED
    BY <1>1, <2>3, <2>4, <2>5
<1>4. h[n] = f[x] + k[n]
  BY <1>1
<1>5. Sums(k, f, S \ {x}, n)
  BY <1>2, <1>3 DEF Sums
<1>. HIDE DEF k
<1>6. k[n] = q[n]
  BY <1>5, SumsUnique
<1>. QED
  BY <1>4, <1>6

\* Whatever order the members are taken in, a fold finds the sum.
LEMMA FoldIsSum ==
  ASSUME NEW n \in Nat, NEW S \in SUBSET (1 .. n), NEW f \in [1 .. n -> Int],
         NEW g, IsSum(g, f, S), NEW h, Sums(h, f, S, n)
  PROVE  g[S] = h[n]
<1>. DEFINE Size(s, m) == IsFiniteSet(s) /\ Cardinality(s) = m
            T == {m \in Nat : \E s \in SUBSET S : Size(s, m)
                                /\ \E k : Sums(k, f, s, n) /\ g[s] # k[n]}
<1>1. SUFFICES ASSUME g[S] # h[n] PROVE FALSE
  OBVIOUS
<1>2. IsFiniteSet(S) /\ Cardinality(S) \in Nat
  <2>1. IsFiniteSet(1 .. n)
    BY FS_Interval
  <2>2. S \subseteq 1 .. n
    OBVIOUS
  <2>3. IsFiniteSet(S)
    BY <2>1, <2>2, FS_Subset
  <2>. QED
    BY <2>3, FS_CardinalityType
<1>3. T # {} /\ T \in SUBSET Nat
  <2>1. Cardinality(S) \in T
    BY <1>1, <1>2
  <2>. QED
    BY <2>1
<1>4. PICK m \in T : \A j \in T : m <= j
  <2>. HIDE DEF T
  <2>. QED
    BY <1>3, LeastNumber
<1>5. PICK s \in SUBSET S : Size(s, m) /\ \E k : Sums(k, f, s, n) /\ g[s] # k[n]
  BY <1>4
<1>8. PICK k : Sums(k, f, s, n) /\ g[s] # k[n]
  BY <1>5
<1>6. CASE s = {}
  <2>1. g[s] = 0
    BY <1>6 DEF IsSum
  <2>2. Sums([i \in 0 .. n |-> 0], f, s, n)
    BY <1>6 DEF Sums
  <2>3. k[n] = [i \in 0 .. n |-> 0][n]
    BY <1>8, <2>2, SumsUnique
  <2>. QED
    BY <1>8, <2>1, <2>3
<1>7. CASE s # {}
  <2>. DEFINE x == CHOOSE y \in s : TRUE
  <2>1. x \in s
    BY <1>7
  <2>2. g[s] = f[x] + g[s \ {x}]
    <3>1. s \in SUBSET S
      OBVIOUS
    <3>. QED
      BY <1>7, <3>1 DEF IsSum
  <2>. HIDE DEF x
  <2>3. PICK q : Sums(q, f, s \ {x}, n)
    BY SumsExist
  <2>7. k[n] = f[x] + q[n]
    <3>1. s \in SUBSET (1 .. n)
      OBVIOUS
    <3>. QED
      BY <1>8, <2>1, <2>3, <3>1, SumsWithout
  <2>4. IsFiniteSet(s \ {x}) /\ Cardinality(s \ {x}) = m - 1 /\ m - 1 \in Nat
    <3>1. IsFiniteSet(s) /\ Cardinality(s) = m /\ m \in Nat
      BY <1>4, <1>5
    <3>2. IsFiniteSet(s \ {x}) /\ Cardinality(s \ {x}) = m - 1
      BY <2>1, <3>1, FS_RemoveElement
    <3>3. Cardinality(s \ {x}) \in Nat
      BY <3>2, FS_CardinalityType
    <3>. QED
      BY <3>2, <3>3
  <2>5. m - 1 \notin T
    BY <1>4, <2>4
  <2>6. g[s \ {x}] = q[n]
    <3>1. s \ {x} \in SUBSET S
      OBVIOUS
    <3>2. Size(s \ {x}, m - 1)
      BY <2>4
    <3>. QED
      BY <2>3, <2>4, <2>5, <3>1, <3>2
  <2>. QED
    BY <1>8, <2>2, <2>6, <2>7
<1>. QED
  BY <1>6, <1>7

\* There is a fold: the sums are one.
LEMMA FoldExists ==
  ASSUME NEW n \in Nat, NEW S \in SUBSET (1 .. n), NEW f \in [1 .. n -> Int]
  PROVE  \E g : IsSum(g, f, S)
<1>. DEFINE Of(s) == CHOOSE h : Sums(h, f, s, n)
            g == [s \in SUBSET S |-> Of(s)[n]]
<1>1. ASSUME NEW s PROVE Sums(Of(s), f, s, n)
  BY SumsExist
<1>. HIDE DEF Of
<1>2. ASSUME NEW s \in SUBSET S
      PROVE  Of(s)[n] = IF s = {} THEN 0
                        ELSE f[CHOOSE x \in s : TRUE] + g[s \ {CHOOSE x \in s : TRUE}]
  <2>1. CASE s = {}
    <3>1. Sums([i \in 0 .. n |-> 0], f, s, n)
      BY <2>1 DEF Sums
    <3>2. Of(s)[n] = [i \in 0 .. n |-> 0][n]
      BY <1>1, <3>1, SumsUnique
    <3>. QED
      BY <2>1, <3>2
  <2>2. CASE s # {}
    <3>. DEFINE x == CHOOSE y \in s : TRUE
    <3>1. x \in s
      BY <2>2
    <3>2. g[s \ {x}] = Of(s \ {x})[n]
      OBVIOUS
    <3>3. Of(s)[n] = f[x] + Of(s \ {x})[n]
      <4>. HIDE DEF x
      <4>1. s \in SUBSET (1 .. n)
        OBVIOUS
      <4>2. Sums(Of(s), f, s, n) /\ Sums(Of(s \ {x}), f, s \ {x}, n)
        BY <1>1
      <4>. QED
        BY <3>1, <4>1, <4>2, SumsWithout
    <3>. QED
      BY <2>2, <3>2, <3>3
  <2>. QED
    BY <2>1, <2>2
<1>3. g = [s \in SUBSET S |->
             IF s = {} THEN 0
             ELSE f[CHOOSE x \in s : TRUE] + g[s \ {CHOOSE x \in s : TRUE}]]
  BY <1>2
<1>. QED
  BY <1>3 DEF IsSum

\* SumFunctionOnSet is the sum.
LEMMA SumIs ==
  ASSUME NEW n \in Nat, NEW S \in SUBSET (1 .. n), NEW f \in [1 .. n -> Int],
         NEW h, Sums(h, f, S, n)
  PROVE  SumFunctionOnSet(f, S) = h[n]
<1>. DEFINE g == CHOOSE q : IsSum(q, f, S)
<1>1. IsSum(g, f, S)
  BY FoldExists
<1>2. SumFunctionOnSet(f, S) = g[S]
  BY Zenon DEF SumFunctionOnSet, FoldFunctionOnSet, MapThenFoldSet, IsSum
<1>. HIDE DEF g
<1>. QED
  BY <1>1, <1>2, FoldIsSum, SMTT(30)
=============================================================================
