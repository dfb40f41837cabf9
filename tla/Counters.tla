------------------------------ MODULE Counters ------------------------------
(***************************************************************************)
(* Arithmetic of the counters of pipe.c and console.c: uints that count up *)
(* for ever, wrap at U = 2^32, and are used modulo the size P of a ring    *)
(* buffer to find a byte.                                                  *)
(***************************************************************************)
EXTENDS Integers, SequenceTheorems, TLAPS

\* The number of bytes from counter r up to counter w.
Dist(U, r, w) == (w - r + U) % U

\* Adding to a counter below U wraps at most once.
LEMMA Wrap ==
  ASSUME NEW U \in Nat \ {0}, NEW a \in 0 .. U-1, NEW k \in 0 .. U
  PROVE  (a + k) % U = IF a + k < U THEN a + k ELSE a + k - U
OBVIOUS

\* Dist is the difference, corrected when w has wrapped around and r has not.
LEMMA DistIs ==
  ASSUME NEW U \in Nat \ {0}, NEW r \in 0 .. U-1, NEW w \in 0 .. U-1
  PROVE  Dist(U, r, w) = IF r <= w THEN w - r ELSE w - r + U
<1>1. CASE r <= w
  <2>1. w - r \in 0 .. U-1 /\ U \in 0 .. U
    BY <1>1
  <2>2. QED
    BY <1>1, <2>1 DEF Dist
<1>2. CASE w < r
  <2>1. w - r + U \in 0 .. U-1
    BY <1>2
  <2>2. QED
    BY <1>2, <2>1 DEF Dist
<1>3. QED
  BY <1>1, <1>2

\* One more byte written, one byte fewer to read, at the wrap around as well.
LEMMA DistMoves ==
  ASSUME NEW U \in Nat \ {0}, NEW r \in 0 .. U-1, NEW w \in 0 .. U-1
  PROVE  /\ Dist(U, r, w) \in 0 .. U-1
         /\ (r + 1) % U \in 0 .. U-1
         /\ (w + 1) % U \in 0 .. U-1
         /\ Dist(U, r, w) < U-1 => Dist(U, r, (w + 1) % U) = Dist(U, r, w) + 1
         /\ Dist(U, r, w) > 0 => Dist(U, (r + 1) % U, w) = Dist(U, r, w) - 1
<1>1. /\ (r + 1) % U = IF r + 1 < U THEN r + 1 ELSE r + 1 - U
      /\ (w + 1) % U = IF w + 1 < U THEN w + 1 ELSE w + 1 - U
  <2>1. 1 \in 0 .. U
    OBVIOUS
  <2>2. QED
    BY <2>1, Wrap
<1>2. (r + 1) % U \in 0 .. U-1 /\ (w + 1) % U \in 0 .. U-1
  BY <1>1
<1>3. Dist(U, r, w) = IF r <= w THEN w - r ELSE w - r + U
  BY DistIs
<1>4. Dist(U, r, (w + 1) % U)
        = IF r <= (w + 1) % U THEN ((w + 1) % U) - r ELSE ((w + 1) % U) - r + U
  BY <1>2, DistIs
<1>5. Dist(U, (r + 1) % U, w)
        = IF (r + 1) % U <= w THEN w - ((r + 1) % U) ELSE w - ((r + 1) % U) + U
  BY <1>2, DistIs
<1>6. QED
  BY <1>1, <1>2, <1>3, <1>4, <1>5

\* A ring of P bytes is full when w is P ahead of r, and empty when w is r.
LEMMA FullOrEmpty ==
  ASSUME NEW U \in Nat \ {0}, NEW r \in 0 .. U-1, NEW w \in 0 .. U-1,
         NEW P \in 0 .. U-1
  PROVE  /\ r = w <=> Dist(U, r, w) = 0
         /\ w = (r + P) % U <=> Dist(U, r, w) = P
<1>1. (r + P) % U = IF r + P < U THEN r + P ELSE r + P - U
  <2>1. P \in 0 .. U
    OBVIOUS
  <2>2. QED
    BY <2>1, Wrap
<1>2. Dist(U, r, w) = IF r <= w THEN w - r ELSE w - r + U
  BY DistIs
<1>3. QED
  BY <1>1, <1>2

\* A counter that wrapped around names the same byte: P divides U.
LEMMA ModWrap ==
  ASSUME NEW P \in Nat \ {0}, NEW U \in Nat, U % P = 0, NEW a \in Nat
  PROVE  (a + U) % P = a % P
<1> DEFINE k == U \div P
<1> DEFINE q == a \div P
<1> DEFINE r == a % P
<1>1. U = P * k /\ k \in Int
  OBVIOUS
<1>2. a = P * q + r /\ q \in Int /\ r \in 0 .. P-1
  OBVIOUS
<1> HIDE DEF k, q, r
<1>3. a + U = P * (q + k) + r
  BY <1>1, <1>2
<1>4. (P * (q + k) + r) % P = r
  BY <1>1, <1>2
<1>5. QED
  BY <1>3, <1>4 DEF r

\* P consecutive counters name different bytes.
LEMMA ModApart ==
  ASSUME NEW P \in Nat \ {0}, NEW a \in Nat, NEW b \in Nat, a < b, b < a + P
  PROVE  a % P # b % P
<1> SUFFICES ASSUME a % P = b % P PROVE FALSE
  OBVIOUS
<1> DEFINE i == a \div P
<1> DEFINE j == b \div P
<1> DEFINE r == a % P
<1>1. a = P * i + r /\ i \in Int /\ r \in Int
  OBVIOUS
<1>2. b = P * j + r /\ j \in Int
  OBVIOUS
<1> HIDE DEF i, j, r
<1>3. b - a = P * (j - i)
  BY <1>1, <1>2
<1>4. j - i <= 0 \/ j - i >= 1
  BY <1>1, <1>2
<1>5. CASE j - i <= 0
  BY <1>1, <1>2, <1>3, <1>5
<1>6. CASE j - i >= 1
  BY <1>1, <1>2, <1>3, <1>6
<1>7. QED
  BY <1>4, <1>5, <1>6

-----------------------------------------------------------------------------
(* The bytes of a ring *)

\* The n bytes from counter a on in the ring d of P bytes, oldest first.
Slice(P, d, a, n) == [i \in 1 .. n |-> d[(a + i - 1) % P]]

\* Equality, as the predicate by which the provers find the lemmas below.
Is(x, y) == x = y

\* The n bytes are a sequence of members of V.
IsSlice(V, P, d, a, n) ==
  /\ Slice(P, d, a, n) \in Seq(V)
  /\ Len(Slice(P, d, a, n)) = n
  /\ \A i \in 1 .. n : Slice(P, d, a, n)[i] = d[(a + i - 1) % P]

\* A slice is a sequence of n bytes.
LEMMA SliceSeq ==
  ASSUME NEW P \in Nat \ {0}, NEW V, NEW d, \A i \in 0 .. P-1 : d[i] \in V,
         NEW a \in Nat, NEW n \in Nat
  PROVE  IsSlice(V, P, d, a, n)
<1>1. \A i \in 1 .. n : d[(a + i - 1) % P] \in V
  <2>1. \A i \in 1 .. n : (a + i - 1) % P \in 0 .. P-1
    BY SMT
  <2>2. QED
    BY Zenon, <2>1
<1>2. QED
  BY SMT, <1>1 DEF Slice, IsSlice

\* Writing behind a slice, in a ring that is not full, leaves it as it is.
LEMMA SliceSame ==
  ASSUME NEW P \in Nat \ {0}, NEW d, DOMAIN d = 0 .. P-1, NEW a \in Nat,
         NEW m \in 0 .. P-1, NEW n \in 0 .. m, NEW v
  PROVE  Is(Slice(P, [d EXCEPT ![(a + m) % P] = v], a, n), Slice(P, d, a, n))
<1> DEFINE e == [d EXCEPT ![(a + m) % P] = v]
<1>1. ASSUME NEW i \in 1 .. n PROVE e[(a + i - 1) % P] = d[(a + i - 1) % P]
  <2>1. /\ a + i - 1 \in Nat /\ a + m \in Nat
        /\ a + i - 1 < a + m /\ a + m < a + i - 1 + P
    BY SMT
  <2>2. (a + i - 1) % P # (a + m) % P
    BY Zenon, <2>1, ModApart
  <2>3. (a + i - 1) % P \in 0 .. P-1
    BY SMT, <2>1
  <2>4. QED
    BY Zenon, <2>2, <2>3
<1> HIDE DEF e
<1>2. Slice(P, e, a, n) = Slice(P, d, a, n)
  BY Zenon, <1>1 DEF Slice
<1>3. QED
  BY Zenon, <1>2 DEF e, Is

\* Writing at the end of a slice that does not fill the ring appends to it.
LEMMA SliceAppend ==
  ASSUME NEW P \in Nat \ {0}, NEW d, DOMAIN d = 0 .. P-1, NEW a \in Nat,
         NEW n \in 0 .. P-1, NEW v
  PROVE  Is(Slice(P, [d EXCEPT ![(a + n) % P] = v], a, n + 1), Append(Slice(P, d, a, n), v))
<1> DEFINE e == [d EXCEPT ![(a + n) % P] = v]
<1> DEFINE V == {d[i] : i \in 0 .. P-1} \cup {v}
<1>0. n \in Nat /\ n + 1 \in Nat /\ n \in 0 .. n /\ (a + n) % P \in 0 .. P-1
  BY SMT
<1>1. /\ \A i \in 0 .. P-1 : d[i] \in V /\ e[i] \in V
      /\ v \in V /\ e[(a + n) % P] = v
  BY Zenon, <1>0
<1>2. Is(Slice(P, e, a, n), Slice(P, d, a, n))
  BY Zenon, <1>0, SliceSame
<1> HIDE DEF e, V
<1> DEFINE s == Slice(P, e, a, n)
<1> DEFINE t == Slice(P, e, a, n + 1)
<1>3. IsSlice(V, P, e, a, n) /\ IsSlice(V, P, e, a, n + 1)
  BY Zenon, <1>0, <1>1, SliceSeq
<1>4. /\ s \in Seq(V) /\ Len(s) = n
      /\ \A i \in 1 .. n : s[i] = e[(a + i - 1) % P]
      /\ t \in Seq(V) /\ Len(t) = n + 1
      /\ \A i \in 1 .. n+1 : t[i] = e[(a + i - 1) % P]
  BY Zenon, <1>3 DEF IsSlice
<1> HIDE DEF s, t
<1>5. t[n + 1] = v
  <2>1. a + (n + 1) - 1 = a + n /\ n + 1 \in 1 .. n+1
    BY SMT, <1>0
  <2>2. QED
    BY Zenon, <1>1, <1>4, <2>1
<1>6. /\ Append(s, v) \in Seq(V) /\ Len(Append(s, v)) = n + 1
      /\ \A i \in 1 .. n : Append(s, v)[i] = s[i]
      /\ Append(s, v)[n + 1] = v
  BY SMT, <1>1, <1>4, AppendProperties
<1>7. \A i \in 1 .. n+1 : t[i] = Append(s, v)[i]
  <2>1. \A i \in 1 .. n+1 : i \in 1 .. n \/ i = n + 1
    BY SMT, <1>0
  <2>2. QED
    BY Zenon, <1>4, <1>5, <1>6, <2>1
<1>8. t = Append(s, v)
  BY Zenon, <1>4, <1>6, <1>7, SeqEqual
<1>9. QED
  BY Zenon, <1>2, <1>8 DEF e, s, t, Is

\* The byte i places after a counter, with and without the wrap around.
LEMMA SliceByte ==
  ASSUME NEW U \in Nat \ {0}, NEW P \in Nat \ {0}, U % P = 0,
         NEW a \in 0 .. U-1, NEW m \in 0 .. U-1, NEW i \in Nat
  PROVE  Is((((a + m) % U) + i) % P, (a + m + i) % P)
<1>1. (a + m) % U = IF a + m < U THEN a + m ELSE a + m - U
  <2>1. m \in 0 .. U
    BY SMT
  <2>2. QED
    BY Zenon, <2>1, Wrap
<1>2. CASE a + m < U
  BY Zenon, <1>1, <1>2 DEF Is
<1>3. CASE ~(a + m < U)
  <2>1. a + m - U + i \in Nat /\ a + m + i = (a + m - U + i) + U /\ U \in Nat
    BY SMT, <1>3
  <2>2. ((a + m - U + i) + U) % P = (a + m - U + i) % P
    BY Zenon, <2>1, ModWrap
  <2>3. QED
    BY Zenon, <1>1, <1>3, <2>1, <2>2 DEF Is
<1>4. QED
  BY Zenon, <1>2, <1>3

\* Two slices, the second from where the first ends, make one.
LEMMA SliceConcat ==
  ASSUME NEW U \in Nat \ {0}, NEW P \in 1 .. U-1, U % P = 0,
         NEW d, NEW a \in 0 .. U-1, NEW m \in 0 .. P, NEW n \in 0 .. P
  PROVE  Is(Slice(P, d, a, m + n), Slice(P, d, a, m) \o Slice(P, d, (a + m) % U, n))
<1> DEFINE b == (a + m) % U
<1> DEFINE V == {d[i] : i \in 0 .. P-1}
<1> DEFINE s == Slice(P, d, a, m)
<1> DEFINE t == Slice(P, d, b, n)
<1> DEFINE u == Slice(P, d, a, m + n)
<1>0. /\ m \in Nat /\ n \in Nat /\ m + n \in Nat /\ a \in Nat /\ b \in Nat
      /\ P \in Nat \ {0} /\ m \in 0 .. U-1
  BY SMT
<1>1. \A i \in 0 .. P-1 : d[i] \in V
  BY Zenon
<1>2. ASSUME NEW i \in 1 .. n PROVE (b + i - 1) % P = (a + (m + i) - 1) % P
  <2>1. i - 1 \in Nat
    BY SMT, <1>0
  <2>2. (b + (i - 1)) % P = (a + m + (i - 1)) % P
    <3>1. Is((((a + m) % U) + (i - 1)) % P, (a + m + (i - 1)) % P)
      BY Zenon, <1>0, <2>1, SliceByte
    <3>2. QED
      BY Zenon, <3>1 DEF Is
  <2> HIDE DEF b
  <2>3. b + i - 1 = b + (i - 1) /\ a + (m + i) - 1 = a + m + (i - 1)
    BY SMT, <1>0
  <2>4. QED
    BY Zenon, <2>2, <2>3
<1> HIDE DEF b, V
<1>3. IsSlice(V, P, d, a, m) /\ IsSlice(V, P, d, b, n) /\ IsSlice(V, P, d, a, m + n)
  BY Zenon, <1>0, <1>1, SliceSeq
<1>4. /\ s \in Seq(V) /\ Len(s) = m /\ \A i \in 1 .. m : s[i] = d[(a + i - 1) % P]
      /\ t \in Seq(V) /\ Len(t) = n /\ \A i \in 1 .. n : t[i] = d[(b + i - 1) % P]
      /\ u \in Seq(V) /\ Len(u) = m + n /\ \A i \in 1 .. m+n : u[i] = d[(a + i - 1) % P]
  BY Zenon, <1>3 DEF IsSlice
<1> HIDE DEF s, t, u
<1>5. /\ s \o t \in Seq(V) /\ Len(s \o t) = m + n
      /\ \A i \in 1 .. m+n : (s \o t)[i] = IF i <= m THEN s[i] ELSE t[i - m]
  <2>0. s \in Seq(V) /\ t \in Seq(V)
    BY Zenon, <1>4
  <2>1. s \o t \in Seq(V)
    BY Zenon, <2>0, ConcatProperties
  <2>2. Len(s \o t) = Len(s) + Len(t)
    BY SMT, <2>0, ConcatProperties
  <2>3. \A i \in 1 .. Len(s)+Len(t) :
          (s \o t)[i] = IF i <= Len(s) THEN s[i] ELSE t[i - Len(s)]
    BY SMT, <2>0, ConcatProperties
  <2>4. QED
    BY Zenon, <1>4, <2>1, <2>2, <2>3
<1>6. ASSUME NEW i \in 1 .. m+n PROVE u[i] = (s \o t)[i]
  <2>1. CASE i <= m
    <3>1. i \in 1 .. m
      BY SMT, <1>0, <2>1
    <3>2. QED
      BY Zenon, <1>4, <1>5, <2>1, <3>1
  <2>2. CASE ~(i <= m)
    <3>1. i - m \in 1 .. n /\ m + (i - m) = i
      BY SMT, <1>0, <2>2
    <3>2. t[i - m] = d[(a + i - 1) % P]
      <4> DEFINE j == i - m
      <4> HIDE DEF j
      <4>1. j \in 1 .. n /\ m + j = i
        BY Zenon, <3>1 DEF j
      <4>2. t[j] = d[(b + j - 1) % P] /\ (b + j - 1) % P = (a + (m + j) - 1) % P
        BY Zenon, <1>2, <1>4, <4>1
      <4>3. QED
        BY Zenon, <4>1, <4>2 DEF j
    <3>3. QED
      BY Zenon, <1>4, <1>5, <2>2, <3>2
  <2>3. QED
    BY Zenon, <2>1, <2>2
<1>7. u = s \o t
  BY Zenon, <1>4, <1>5, <1>6, SeqEqual
<1>8. QED
  BY Zenon, <1>7 DEF b, s, t, u, Is

\* Reading moves a slice on by one byte, also over the wrap around.
LEMMA SliceTail ==
  ASSUME NEW U \in Nat \ {0}, NEW P \in 1 .. U-1, U % P = 0,
         NEW d, NEW a \in 0 .. U-1, NEW n \in 1 .. P
  PROVE  Is(Slice(P, d, (a + 1) % U, n - 1), Tail(Slice(P, d, a, n)))
<1> DEFINE q == (a + 1) % U
<1> DEFINE V == {d[i] : i \in 0 .. P-1}
<1> DEFINE s == Slice(P, d, a, n)
<1> DEFINE t == Slice(P, d, q, n - 1)
<1>0. /\ n \in Nat /\ n - 1 \in Nat /\ a \in Nat /\ q \in Nat /\ P \in Nat \ {0}
      /\ 1 \in 0 .. U-1
  BY SMT
<1>1. \A i \in 0 .. P-1 : d[i] \in V
  BY Zenon
<1>2. ASSUME NEW i \in 1 .. n-1 PROVE (q + i - 1) % P = (a + (i + 1) - 1) % P
  <2>1. i - 1 \in Nat
    BY SMT, <1>0
  <2>2. (q + (i - 1)) % P = (a + 1 + (i - 1)) % P
    <3>1. Is((((a + 1) % U) + (i - 1)) % P, (a + 1 + (i - 1)) % P)
      BY Zenon, <1>0, <2>1, SliceByte
    <3>2. QED
      BY Zenon, <3>1 DEF Is
  <2> HIDE DEF q
  <2>3. q + i - 1 = q + (i - 1) /\ a + (i + 1) - 1 = a + 1 + (i - 1)
    BY SMT, <1>0
  <2>4. QED
    BY Zenon, <2>2, <2>3
<1> HIDE DEF q, V
<1>3. IsSlice(V, P, d, a, n) /\ IsSlice(V, P, d, q, n - 1)
  BY Zenon, <1>0, <1>1, SliceSeq
<1>4. /\ s \in Seq(V) /\ Len(s) = n
      /\ \A i \in 1 .. n : s[i] = d[(a + i - 1) % P]
      /\ t \in Seq(V) /\ Len(t) = n - 1
      /\ \A i \in 1 .. n-1 : t[i] = d[(q + i - 1) % P]
  BY Zenon, <1>3 DEF IsSlice
<1> HIDE DEF s, t
<1>5. ASSUME NEW i \in 1 .. n-1 PROVE t[i] = s[i + 1]
  <2>1. i + 1 \in 1 .. n
    BY SMT, <1>0
  <2>2. QED
    <3>1. s[i + 1] = d[(a + (i + 1) - 1) % P]
      BY Zenon, <1>4, <2>1
    <3>2. t[i] = d[(q + i - 1) % P] /\ (q + i - 1) % P = (a + (i + 1) - 1) % P
      BY Zenon, <1>2, <1>4
    <3>3. QED
      BY Zenon, <3>1, <3>2
<1>6. /\ Tail(s) \in Seq(V) /\ Len(Tail(s)) = n - 1
      /\ \A i \in 1 .. n-1 : Tail(s)[i] = s[i + 1]
  <2>1. s # <<>>
    BY SMT, <1>0, <1>4
  <2>2. QED
    BY SMT, <1>0, <1>4, <2>1, HeadTailProperties
<1>7. t = Tail(s)
  <2>1. \A i \in 1 .. n-1 : t[i] = Tail(s)[i]
    BY Zenon, <1>5, <1>6
  <2>2. QED
    BY Zenon, <1>4, <1>6, <2>1, SeqEqual
<1>8. QED
  BY Zenon, <1>7 DEF q, s, t, Is

\* Without its last byte a slice is the beginning of what it was.
LEMMA SliceFront ==
  ASSUME NEW P \in Nat \ {0}, NEW d, NEW a \in Nat, NEW n \in Nat \ {0}
  PROVE  Is(Slice(P, d, a, n - 1), SubSeq(Slice(P, d, a, n), 1, n - 1))
<1> DEFINE V == {d[i] : i \in 0 .. P-1}
<1> DEFINE s == Slice(P, d, a, n)
<1> DEFINE t == Slice(P, d, a, n - 1)
<1>0. n - 1 \in Nat /\ n \in Nat
  BY SMT
<1>1. \A i \in 0 .. P-1 : d[i] \in V
  BY Zenon
<1> HIDE DEF V
<1>2. IsSlice(V, P, d, a, n) /\ IsSlice(V, P, d, a, n - 1)
  BY Zenon, <1>0, <1>1, SliceSeq
<1>3. /\ s \in Seq(V) /\ Len(s) = n
      /\ \A i \in 1 .. n : s[i] = d[(a + i - 1) % P]
      /\ t \in Seq(V) /\ Len(t) = n - 1
      /\ \A i \in 1 .. n-1 : t[i] = d[(a + i - 1) % P]
  BY Zenon, <1>2 DEF IsSlice
<1> HIDE DEF s, t
<1>4. \A i \in 1 .. n-1 : i \in 1 .. n /\ s[i] \in V
  BY SMT, <1>3
<1>5. /\ SubSeq(s, 1, n - 1) \in Seq(V) /\ Len(SubSeq(s, 1, n - 1)) = n - 1
      /\ \A i \in 1 .. n-1 : SubSeq(s, 1, n - 1)[i] = s[i]
  BY SMT, <1>0, <1>4, SubSeqProperties
<1>6. \A i \in 1 .. n-1 : t[i] = SubSeq(s, 1, n - 1)[i]
  BY Zenon, <1>3, <1>4, <1>5
<1>7. t = SubSeq(s, 1, n - 1)
  BY Zenon, <1>3, <1>5, <1>6, SeqEqual
<1>8. QED
  BY Zenon, <1>7 DEF s, t, Is
=============================================================================
