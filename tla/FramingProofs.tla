--------------------------- MODULE FramingProofs ----------------------------
(***************************************************************************)
(* Each direction of a channel is a queue, for all frames and datagrams,   *)
(* all sizes of buffers and pipes and any number of messages.              *)
(*                                                                         *)
(* The argument: the bytes a reader has consumed of its current message,   *)
(* followed by the bytes in the pipe, are the encodings of the messages in *)
(* flight, laid end to end, and the beginning of one more.                 *)
(***************************************************************************)
EXTENDS Framing, SequenceTheorems, TLAPS

-----------------------------------------------------------------------------
(* Byte strings laid end to end *)

\* The m bytes of B are C[1], C[2], ... end to end, up to somewhere inside C[n];
\* C[i] begins after p[i] bytes.
Layout(B, m, C, n, p) ==
    /\ p \in [1..(n + 1) -> Nat] /\ p[1] = 0
    /\ \A i \in 1..n : p[i] < p[i + 1]
    /\ \A i, k \in 1..(n + 1) : i <= k => p[i] <= p[k]
    /\ \A i \in 1..n : \A j \in (p[i] + 1)..p[i + 1] : j <= m => B[j] = C[i][j - p[i]]
    /\ m < p[n + 1]

\* Fewer bytes.
LEMMA LayoutPrefix ==
    ASSUME NEW m \in Nat, NEW n \in Nat, NEW B, NEW C, NEW p, Layout(B, m, C, n, p),
           NEW a \in 0..m, NEW A, \A j \in 1..a : A[j] = B[j]
    PROVE  Layout(A, a, C, n, p)
<1>1. ASSUME NEW i \in 1..n, NEW j \in (p[i] + 1)..p[i + 1], j <= a PROVE A[j] = C[i][j - p[i]]
  <2>1. p[i] \in Nat /\ p[i + 1] \in Nat
    BY DEF Layout
  <2>2. j \in 1..a /\ j <= m
    BY <1>1, <2>1
  <2>3. B[j] = C[i][j - p[i]]
    BY <2>2 DEF Layout
  <2> QED BY <2>2, <2>3
<1>2. a < p[n + 1]
  BY DEF Layout
<1> QED BY <1>1, <1>2 DEF Layout

\* One byte more of the last one, which does not end with it.
LEMMA LayoutGrow ==
    ASSUME NEW m \in Nat, NEW n \in Nat \ {0}, NEW B, NEW C, NEW p, Layout(B, m, C, n, p),
           p[n] <= m, m + 1 < p[n + 1],
           NEW A, \A j \in 1..m : A[j] = B[j], A[m + 1] = C[n][m + 1 - p[n]]
    PROVE  Layout(A, m + 1, C, n, p)
<1>1. ASSUME NEW i \in 1..n, NEW j \in (p[i] + 1)..p[i + 1], j <= m + 1
      PROVE  A[j] = C[i][j - p[i]]
  <2>1. p[i] \in Nat /\ p[i + 1] \in Nat /\ p[n] \in Nat
    BY DEF Layout
  <2>2. CASE j <= m
    <3>1. j \in 1..m
      BY <2>1, <2>2
    <3>2. B[j] = C[i][j - p[i]]
      BY <2>2 DEF Layout
    <3> QED BY <3>1, <3>2
  <2>3. CASE j = m + 1
    <3>1. i + 1 <= n => p[i + 1] <= p[n]
      BY DEF Layout
    <3>2. i = n
      BY <2>1, <2>3, <3>1
    <3>3. A[m + 1] = C[n][m + 1 - p[n]]
      OBVIOUS
    <3>4. j = m + 1 /\ j - p[i] = m + 1 - p[n]
      BY <2>1, <2>3, <3>2
    <3> QED BY <3>2, <3>3, <3>4, Zenon
  <2> QED BY <1>1, <2>1, <2>2, <2>3
<1> QED BY <1>1 DEF Layout

\* The last one ends, and one more of length l is begun.
Closes(m, n, B, C, p, A, D, r, l) ==
    /\ m \in Nat /\ n \in Nat \ {0} /\ Layout(B, m, C, n, p) /\ p[n] <= m /\ m + 1 = p[n + 1]
    /\ \A j \in 1..m : A[j] = B[j]
    /\ A[m + 1] = C[n][m + 1 - p[n]]
    /\ \A i \in 1..n : D[i] = C[i]
    /\ l \in Nat \ {0} /\ r = [i \in 1..(n + 2) |-> IF i <= n + 1 THEN p[i] ELSE p[n + 1] + l]

LEMMA LayoutClose ==
    ASSUME NEW m, NEW n, NEW B, NEW C, NEW p, NEW A, NEW D, NEW r, NEW l, Closes(m, n, B, C, p, A, D, r, l)
    PROVE  Layout(A, m + 1, D, n + 1, r)
<1> USE DEF Closes
<1>1. /\ \A i \in 1..(n + 1) : p[i] \in Nat /\ r[i] = p[i]
      /\ r[n + 2] = p[n + 1] + l
  BY DEF Layout
<1>2. p[n + 1] \in Nat /\ p[n] \in Nat
  BY <1>1
<1>3. r \in [1..(n + 2) -> Nat] /\ r[1] = 0
  <2>1. \A i \in 1..(n + 2) : r[i] \in Nat
    BY <1>1, <1>2
  <2>2. r[1] = 0
    BY <1>1 DEF Layout
  <2> QED BY <2>1, <2>2
<1>4. ASSUME NEW i \in 1..(n + 1) PROVE r[i] < r[i + 1]
  <2>1. CASE i = n + 1
    BY <1>1, <1>2, <2>1
  <2>2. CASE i # n + 1
    <3>1. i \in 1..n /\ i + 1 \in 1..(n + 1)
      BY <2>2
    <3> QED BY <1>1, <3>1 DEF Layout
  <2> QED BY <2>1, <2>2
<1>5. ASSUME NEW i \in 1..(n + 2), NEW k \in 1..(n + 2), i <= k PROVE r[i] <= r[k]
  <2>1. CASE k # n + 2
    <3>1. i \in 1..(n + 1) /\ k \in 1..(n + 1)
      BY <1>5, <2>1
    <3> QED BY <1>1, <1>5, <3>1 DEF Layout
  <2>2. CASE k = n + 2 /\ i # n + 2
    <3>1. i \in 1..(n + 1) /\ n + 1 \in 1..(n + 1) /\ i <= n + 1
      BY <2>2
    <3>2. p[i] <= p[n + 1]
      BY <3>1 DEF Layout
    <3> QED BY <1>1, <1>2, <2>2, <3>1, <3>2
  <2>3. CASE k = n + 2 /\ i = n + 2
    BY <1>1, <1>2, <2>3
  <2> QED BY <2>1, <2>2, <2>3
<1>6. ASSUME NEW i \in 1..(n + 1), NEW j \in (r[i] + 1)..r[i + 1], j <= m + 1
      PROVE  A[j] = D[i][j - r[i]]
  <2>1. i # n + 1
    BY <1>1, <1>2, <1>6
  <2>2. i \in 1..n /\ i + 1 \in 1..(n + 1)
    BY <2>1
  <2>3. r[i] = p[i] /\ r[i + 1] = p[i + 1] /\ D[i] = C[i] /\ p[i] \in Nat /\ p[i + 1] \in Nat
    BY <1>1, <2>2
  <2>4. CASE j <= m
    <3>1. j \in 1..m
      BY <2>3, <2>4
    <3>2. B[j] = C[i][j - p[i]]
      BY <2>2, <2>3, <2>4 DEF Layout
    <3> QED BY <2>3, <3>1, <3>2
  <2>5. CASE j = m + 1
    <3>1. i + 1 <= n => p[i + 1] <= p[n]
      BY <2>2 DEF Layout
    <3>2. i = n
      BY <1>2, <2>2, <2>3, <2>5, <3>1
    <3>3. A[m + 1] = C[n][m + 1 - p[n]]
      OBVIOUS
    <3>4. D[i] = C[n] /\ r[i] = p[n]
      <4>1. D[i] = C[i] /\ r[i] = p[i]
        BY <2>3
      <4> QED BY <4>1, <3>2, Zenon
    <3>5. j = m + 1 /\ j - r[i] = m + 1 - p[n]
      <4>1. r[i] = p[n]
        BY <3>4, Zenon
      <4>2. r[i] \in Nat /\ m \in Nat /\ j \in Nat
        BY <1>2, <2>5, <4>1
      <4> HIDE DEF Closes
      <4> QED BY <2>5, <4>1, <4>2
    <3>6. C[i][j - r[i]] = C[n][m + 1 - p[n]] /\ D[i] = C[i]
      BY <2>3, <3>2, <3>5, Zenon
    <3>7. A[j] = A[m + 1]
      BY <3>5, Zenon
    <3> QED BY <3>3, <3>6, <3>7, Zenon
  <2> QED BY <1>6, <2>3, <2>4, <2>5
<1>7. m + 1 < r[n + 2]
  BY <1>1, <1>2
<1>8. n + 1 + 1 = n + 2
  OBVIOUS
<1> QED BY <1>3, <1>4, <1>5, <1>6, <1>7, <1>8 DEF Layout

\* Before its first byte the last one may as well be another one, of length l.
LEMMA LayoutSwap ==
    ASSUME NEW m \in Nat, NEW n \in Nat \ {0}, NEW B, NEW C, NEW p, Layout(B, m, C, n, p),
           p[n] = m,
           NEW D, \A i \in 1..(n - 1) : D[i] = C[i],
           NEW r, NEW l \in Nat \ {0}, r = [p EXCEPT ![n + 1] = m + l]
    PROVE  Layout(B, m, D, n, r)
<1>1. /\ \A i \in 1..n : p[i] \in Nat /\ r[i] = p[i]
      /\ r[n + 1] = m + l
  BY DEF Layout
<1>2. r \in [1..(n + 1) -> Nat] /\ r[1] = 0
  BY <1>1 DEF Layout
<1>3. ASSUME NEW i \in 1..n PROVE r[i] < r[i + 1]
  <2>1. CASE i = n
    BY <1>1, <2>1
  <2>2. CASE i # n
    <3>1. i + 1 \in 1..n
      BY <2>2
    <3> QED BY <1>1, <3>1 DEF Layout
  <2> QED BY <2>1, <2>2
<1>4. ASSUME NEW i \in 1..n, NEW k \in 1..n, i <= k PROVE r[i] <= r[k]
  <2>1. i \in 1..(n + 1) /\ k \in 1..(n + 1)
    OBVIOUS
  <2> QED BY <1>1, <1>4, <2>1 DEF Layout
<1>5. ASSUME NEW i \in 1..n PROVE r[i] <= m
  <2>1. r[i] <= r[n] /\ r[n] = m
    BY <1>1, <1>4
  <2> QED BY <2>1
<1>6. ASSUME NEW i \in 1..(n + 1), NEW k \in 1..(n + 1), i <= k PROVE r[i] <= r[k]
  <2>1. CASE k # n + 1
    <3>1. i \in 1..n /\ k \in 1..n
      BY <1>6, <2>1
    <3> QED BY <1>4, <1>6, <3>1
  <2>2. CASE k = n + 1 /\ i # n + 1
    <3>1. i \in 1..n
      BY <2>2
    <3>2. r[i] \in Nat /\ r[i] <= m
      BY <1>1, <1>5, <3>1
    <3> QED BY <1>1, <2>2, <3>2
  <2>3. CASE k = n + 1 /\ i = n + 1
    BY <1>1, <2>3
  <2> QED BY <2>1, <2>2, <2>3
<1>7. ASSUME NEW i \in 1..n, NEW j \in (r[i] + 1)..r[i + 1], j <= m PROVE B[j] = D[i][j - r[i]]
  <2>1. i # n
    BY <1>1, <1>7
  <2>2. i \in 1..(n - 1) /\ i + 1 \in 1..n
    BY <2>1
  <2>3. r[i] = p[i] /\ r[i + 1] = p[i + 1] /\ D[i] = C[i]
    BY <1>1, <2>2
  <2> QED BY <1>7, <2>3 DEF Layout
<1>8. m < r[n + 1]
  BY <1>1
<1> QED BY <1>2, <1>3, <1>6, <1>7, <1>8 DEF Layout

\* Without the first one.
Pops(m, n, B, C, p, a, A, D, r) ==
    /\ m \in Nat /\ n \in Nat \ {0} /\ Layout(B, m, C, n + 1, p) /\ a \in Nat /\ m = p[2] + a
    /\ \A j \in 1..a : A[j] = B[p[2] + j]
    /\ \A i \in 1..n : D[i] = C[i + 1]
    /\ r = [i \in 1..(n + 1) |-> p[i + 1] - p[2]]

LEMMA LayoutPop ==
    ASSUME NEW m, NEW n, NEW B, NEW C, NEW p, NEW a, NEW A, NEW D, NEW r, Pops(m, n, B, C, p, a, A, D, r)
    PROVE  Layout(A, a, D, n, r)
<1>1. /\ m \in Nat /\ n \in Nat \ {0} /\ Layout(B, m, C, n + 1, p) /\ a \in Nat /\ m = p[2] + a
      /\ \A j \in 1..a : A[j] = B[p[2] + j]
      /\ \A i \in 1..n : D[i] = C[i + 1]
  BY DEF Pops
<1>2. r = [i \in 1..(n + 1) |-> p[i + 1] - p[2]]
  BY DEF Pops
<1> USE <1>1
<1>r. ASSUME r = [i \in 1..(n + 1) |-> p[i + 1] - p[2]] PROVE Layout(A, a, D, n, r)
  <2>0. n + 1 + 1 = n + 2
    OBVIOUS
  <2>1. \A i \in 1..(n + 2) : p[i] \in Nat
    BY <2>0 DEF Layout
  <2>2. p[2] \in Nat
    BY <2>1
  <2>3. ASSUME NEW i \in 1..(n + 1) PROVE p[i + 1] \in Nat /\ p[2] <= p[i + 1] /\ r[i] = p[i + 1] - p[2]
    <3>1. i + 1 \in 1..(n + 2) /\ 2 \in 1..(n + 2) /\ 2 <= i + 1
      OBVIOUS
    <3>2. p[i + 1] \in Nat /\ p[2] <= p[i + 1]
      BY <2>0, <2>1, <3>1 DEF Layout
    <3> QED BY <1>r, <3>2
  <2>4. ASSUME NEW i \in 1..(n + 1) PROVE r[i] \in Nat
    BY <2>2, <2>3
  <2>5. r \in [1..(n + 1) -> Nat]
    BY <1>r, <2>4
  <2>6. r[1] = 0
    BY <2>2, <2>3
  <2>7. ASSUME NEW i \in 1..n PROVE r[i] < r[i + 1]
    <3>1. i \in 1..(n + 1) /\ i + 1 \in 1..(n + 1)
      OBVIOUS
    <3>2. p[i + 1] < p[i + 1 + 1]
      BY <3>1 DEF Layout
    <3> QED BY <2>2, <2>3, <3>1, <3>2
  <2>8. ASSUME NEW i \in 1..(n + 1), NEW k \in 1..(n + 1), i <= k PROVE r[i] <= r[k]
    <3>1. i + 1 \in 1..(n + 2) /\ k + 1 \in 1..(n + 2) /\ i + 1 <= k + 1
      BY <2>8
    <3>2. p[i + 1] <= p[k + 1]
      BY <2>0, <3>1 DEF Layout
    <3> QED BY <2>2, <2>3, <3>2
  <2>9. ASSUME NEW i \in 1..n, NEW j \in (r[i] + 1)..r[i + 1], j <= a PROVE A[j] = D[i][j - r[i]]
    <3>1. i \in 1..(n + 1) /\ i + 1 \in 1..(n + 1)
      OBVIOUS
    <3>2. /\ r[i] = p[i + 1] - p[2] /\ r[i + 1] = p[i + 1 + 1] - p[2]
          /\ p[i + 1] \in Nat /\ p[i + 1 + 1] \in Nat /\ p[2] <= p[i + 1]
      BY <2>3, <3>1
    <3> DEFINE q == p[2] + j
    <3>3. /\ j \in 1..a /\ q \in (p[i + 1] + 1)..p[i + 1 + 1] /\ q <= m
          /\ q - p[i + 1] = j - r[i]
      BY <2>2, <2>9, <3>2
    <3>4. B[q] = C[i + 1][q - p[i + 1]]
      <4> HIDE DEF q
      <4> QED BY <3>1, <3>3 DEF Layout
    <3> QED BY <3>3, <3>4
  <2>10. a < r[n + 1]
    <3>1. m < p[n + 1 + 1]
      BY DEF Layout
    <3> QED BY <2>2, <2>3, <3>1
  <2> QED BY <2>5, <2>6, <2>7, <2>8, <2>9, <2>10 DEF Layout
<1> QED BY <1>2, <1>r

\* The first bytes are those of the first one.
LEMMA LayoutFirst ==
    ASSUME NEW m \in Nat, NEW n \in Nat \ {0}, NEW B, NEW C, NEW p, Layout(B, m, C, n, p)
    PROVE  p[2] \in Nat \ {0} /\ \A j \in 1..p[2] : j <= m => B[j] = C[1][j]
<1>1. 1 \in 1..n /\ 2 \in 1..(n + 1) /\ 1 + 1 = 2
  OBVIOUS
<1>2. p[2] \in Nat /\ p[1] = 0 /\ p[1] < p[2]
  BY <1>1 DEF Layout
<1>3. \A j \in (p[1] + 1)..p[2] : j <= m => B[j] = C[1][j - p[1]]
  BY <1>1 DEF Layout
<1>4. ASSUME NEW j \in 1..p[2], j <= m PROVE B[j] = C[1][j]
  <2>1. j \in (p[1] + 1)..p[2] /\ j - p[1] = j
    BY <1>2
  <2> QED BY <1>3, <1>4, <2>1
<1> QED BY <1>2, <1>4

LEMMA LayoutStart ==
    ASSUME NEW B, NEW C, NEW l \in Nat \ {0}, NEW p, p = [i \in 1..2 |-> IF i = 1 THEN 0 ELSE l]
    PROVE  Layout(B, 0, C, 1, p)
<1>1. p \in [1..2 -> Nat] /\ p[1] = 0 /\ p[2] = l
  OBVIOUS
<1> QED BY <1>1 DEF Layout
-----------------------------------------------------------------------------
(* Messages and their encodings *)

\* What a reader may get on a channel of kind k.
Whole(k) ==
    {m \in Seq(Nat) : /\ k = "control" => Len(m) <= MAX_FRAME
                      /\ k = "udp" => Len(m) \in 1..(1 + UDP_BUFFER_SIZE)}

\* What is sent on it.
Sendable(k) == IF k = "control" THEN {m \in Frames : Len(m) <= MAX_FRAME}
               ELSE {Truncated(m) : m \in Datagrams}

\* The d bytes e are the encoding of m, which has l bytes.
IsCode(k, m, l, e, d) ==
    /\ l \in Nat /\ l = Len(m) /\ e \in Seq(Nat) /\ d \in Nat /\ d = Len(e)
    /\ k = "control" => d = 1 + l /\ e[1] = l /\ \A j \in 1..l : e[1 + j] = m[j]
    /\ k = "udp" => /\ d = 2 + l /\ e[1] = 2 /\ e[2] = m[1] /\ e[3] = l - 1
                    /\ \A j \in 2..l : e[2 + j] = m[j]

LEMMA MinOfTwo == ASSUME NEW a \in Nat, NEW b \in Nat
                  PROVE  Min({a, b}) \in Nat /\ Min({a, b}) = IF a <= b THEN a ELSE b
<1> DEFINE c == IF a <= b THEN a ELSE b
<1>1. c \in {a, b} /\ \A y \in {a, b} : c <= y
  OBVIOUS
<1>2. \A x \in {a, b} : (\A y \in {a, b} : x <= y) => x = c
  OBVIOUS
<1>3. Min({a, b}) = c
  BY <1>1, <1>2, Zenon DEF Min
<1> QED BY <1>3

LEMMA TruncatedWhole == ASSUME NEW m \in Datagrams PROVE Truncated(m) \in Whole("udp")
<1>1. m \in Seq(Nat) /\ Len(m) \in Nat \ {0}
  BY MessagesAssumption
<1>2. 1 + UDP_BUFFER_SIZE \in Nat \ {0}
  BY SizesAssumption
<1> DEFINE n == Min({Len(m), 1 + UDP_BUFFER_SIZE})
<1>3. n \in 1..(1 + UDP_BUFFER_SIZE) /\ n \in 1..Len(m) /\ Truncated(m) = SubSeq(m, 1, n)
  BY <1>1, <1>2, MinOfTwo DEF Truncated
<1> HIDE DEF n
<1>4. SubSeq(m, 1, n) \in Seq(Nat) /\ Len(SubSeq(m, 1, n)) = n
  <2>1. 1 \in Int /\ n \in Int /\ 1 <= n /\ \A i \in 1..n : m[i] \in Nat
    BY <1>1, <1>3
  <2> QED BY <2>1, SubSeqProperties
<1> QED BY <1>3, <1>4 DEF Whole

LEMMA SendableWhole == ASSUME NEW k \in {"control", "udp"} PROVE Sendable(k) \subseteq Whole(k)
<1>1. CASE k = "control"
  BY <1>1, MessagesAssumption DEF Sendable, Whole
<1>2. CASE k = "udp"
  BY <1>2, TruncatedWhole DEF Sendable
<1> QED BY <1>1, <1>2

LEMMA ModSmall == ASSUME NEW x \in Nat, NEW n \in Nat, x < n PROVE x % n = x
OBVIOUS

LEMMA Concat ==
    ASSUME NEW s \in Seq(Nat), NEW t \in Seq(Nat), NEW a \in Nat, Len(s) = a
    PROVE  /\ s \o t \in Seq(Nat) /\ Len(s \o t) = a + Len(t)
           /\ \A i \in 1..a : (s \o t)[i] = s[i]
           /\ \A i \in 1..Len(t) : (s \o t)[a + i] = t[i]
<1>1. Len(s) \in Nat /\ Len(t) \in Nat
  OBVIOUS
<1>2. /\ s \o t \in Seq(Nat) /\ Len(s \o t) = Len(s) + Len(t)
      /\ \A i \in 1..(Len(s) + Len(t)) :
            (s \o t)[i] = IF i <= Len(s) THEN s[i] ELSE t[i - Len(s)]
  BY ConcatProperties
<1>3. ASSUME NEW i \in 1..a PROVE (s \o t)[i] = s[i]
  <2>1. i \in 1..(Len(s) + Len(t)) /\ i <= Len(s)
    BY <1>1
  <2> QED BY <1>2, <2>1
<1>4. ASSUME NEW i \in 1..Len(t) PROVE (s \o t)[a + i] = t[i]
  <2>1. a + i \in 1..(Len(s) + Len(t)) /\ ~(a + i <= Len(s)) /\ a + i - Len(s) = i
    BY <1>1
  <2>2. (s \o t)[a + i] = t[a + i - Len(s)]
    BY <1>2, <2>1
  <2> QED BY <2>1, <2>2
<1> QED BY <1>2, <1>3, <1>4

LEMMA EncodeIsCode ==
    ASSUME kind \in {"control", "udp"}, NEW m \in Whole(kind)
    PROVE  IsCode(kind, m, Len(m), Encode(m), Len(Encode(m)))
<1>0. m \in Seq(Nat) /\ Len(m) \in Nat
  BY DEF Whole
<1>1. CASE kind = "control"
  <2> DEFINE h == <<Len(m)>>
  <2>1. Encode(m) = h \o m
    BY <1>1 DEF Encode
  <2>2. h \in Seq(Nat) /\ m \in Seq(Nat) /\ 1 \in Nat /\ Len(h) = 1 /\ h[1] = Len(m)
    BY <1>0
  <2> HIDE DEF h
  <2>3. /\ h \o m \in Seq(Nat) /\ Len(h \o m) = 1 + Len(m)
        /\ \A j \in 1..1 : (h \o m)[j] = h[j]
        /\ \A j \in 1..Len(m) : (h \o m)[1 + j] = m[j]
    BY <2>2, Concat, Zenon
  <2>4. (h \o m)[1] = Len(m)
    BY <2>2, <2>3
  <2> QED BY <1>0, <1>1, <2>1, <2>3, <2>4 DEF IsCode
<1>2. CASE kind = "udp"
  <2>1. Len(m) \in 1..(1 + UDP_BUFFER_SIZE) /\ m # <<>>
    BY <1>2, <1>0 DEF Whole
  <2>2. (Len(m) - 1) % UdpPacketLen = Len(m) - 1
    <3>1. Len(m) - 1 \in Nat /\ UdpPacketLen \in Nat /\ Len(m) - 1 < UdpPacketLen
      BY <1>0, <2>1, SizesAssumption
    <3> QED BY <3>1, ModSmall
  <2> DEFINE h == <<2, m[1], Len(m) - 1>>
             t == Tail(m)
  <2>3. Encode(m) = h \o t
    BY <1>2, <2>2 DEF Encode
  <2>4. h \in Seq(Nat) /\ 3 \in Nat /\ Len(h) = 3 /\ h[1] = 2 /\ h[2] = m[1] /\ h[3] = Len(m) - 1
    BY <1>0, <2>1
  <2>5. t \in Seq(Nat) /\ Len(t) = Len(m) - 1 /\ \A i \in 1..(Len(m) - 1) : t[i] = m[i + 1]
    BY <1>0, <2>1, HeadTailProperties
  <2> HIDE DEF h, t
  <2>6. /\ h \o t \in Seq(Nat) /\ Len(h \o t) = 3 + Len(t)
        /\ \A i \in 1..3 : (h \o t)[i] = h[i]
        /\ \A i \in 1..Len(t) : (h \o t)[3 + i] = t[i]
    BY <2>4, <2>5, Concat, Zenon
  <2>7. Len(h \o t) = 2 + Len(m)
    BY <1>0, <2>5, <2>6
  <2>8. ASSUME NEW j \in 2..Len(m) PROVE (h \o t)[2 + j] = m[j]
    <3>1. 3 + (j - 1) = 2 + j /\ j - 1 \in 1..(Len(m) - 1) /\ j - 1 + 1 = j
      BY <1>0
    <3>2. (h \o t)[3 + (j - 1)] = t[j - 1]
      BY <2>5, <2>6, <3>1
    <3>3. t[j - 1] = m[j]
      BY <2>5, <3>1
    <3> QED BY <3>1, <3>2, <3>3
  <2>9. (h \o t)[1] = 2 /\ (h \o t)[2] = m[1] /\ (h \o t)[3] = Len(m) - 1
    BY <2>4, <2>6
  <2> DEFINE e == h \o t
             l == Len(m)
             d == Len(e)
  <2>10. /\ l \in Nat /\ l = Len(m) /\ e \in Seq(Nat) /\ d \in Nat /\ d = Len(e) /\ d = 2 + l
         /\ e[1] = 2 /\ e[2] = m[1] /\ e[3] = l - 1
    BY <1>0, <2>6, <2>7, <2>9
  <2>11. \A j \in 2..l : e[2 + j] = m[j]
    BY <2>8
  <2>12. Encode(m) = e
    BY <2>3
  <2>13. kind # "control"
    BY <1>2
  <2> HIDE DEF e, l, d
  <2>14. IsCode(kind, m, l, e, d)
    BY <2>10, <2>11, <2>13 DEF IsCode
  <2> QED BY <2>12, <2>14 DEF l, d
<1> QED BY <1>1, <1>2

-----------------------------------------------------------------------------
(* The reader *)

Reading(at, need, buf) == [at |-> at, need |-> need, buf |-> buf]

\* A read in progress on a channel of kind k has consumed the c bytes g; its
\* buffer has a bytes.
Consumed(k, at, need, buf, a, g, c) ==
    /\ at \in {"length", "header", "body"} /\ need \in Nat
    /\ buf \in Seq(Nat) /\ a \in Nat /\ a = Len(buf)
    /\ g \in Seq(Nat) /\ c \in Nat /\ c = Len(g)
    /\ at = "length" => need = 1 /\ a = 0 /\ c = 0
    /\ at = "header" => /\ k = "udp" /\ a + need = 2 /\ need # 0
                        /\ c = 1 + a /\ g[1] = 2
                        /\ \A j \in 1..a : g[1 + j] = buf[j]
    /\ at = "body" /\ k = "control" =>
          /\ c = 1 + a /\ g[1] = need + a
          /\ \A j \in 1..a : g[1 + j] = buf[j]
    /\ at = "body" /\ k = "udp" =>
          /\ c = 2 + a /\ a # 0
          /\ g[1] = 2 /\ g[2] = buf[1] /\ g[3] = need + a - 1
          /\ \A j \in 2..a : g[2 + j] = buf[j]

LEMMA AppendByte ==
    ASSUME NEW s \in Seq(Nat), NEW b \in Nat
    PROVE  /\ Append(s, b) \in Seq(Nat) /\ Len(Append(s, b)) = Len(s) + 1 /\ Len(s) \in Nat
           /\ Append(s, b)[Len(s) + 1] = b
           /\ \A i \in 1..Len(s) : Append(s, b)[i] = s[i]
OBVIOUS

\* The byte of a length, a header or a body is consumed: the first byte of a frame
\* is a length within the limit, the first of a datagram the length of a header.
LEMMA StepConsumes ==
    ASSUME kind \in {"control", "udp"}, NEW at, NEW need, NEW buf, NEW a, NEW g, NEW c,
           Consumed(kind, at, need, buf, a, g, c), at = "body" => need # 0, NEW b \in Nat,
           at = "length" /\ kind = "control" => b <= MAX_FRAME,
           at = "length" /\ kind = "udp" => b = 2
    PROVE  \E at2, need2, buf2, a2 :
              /\ Step(Reading(at, need, buf), b) = Reading(at2, need2, buf2)
              /\ Consumed(kind, at2, need2, buf2, a2, Append(g, b), c + 1)
<1> DEFINE h == Append(g, b)
           u == Append(buf, b)
           r == Reading(at, need, buf)
<1>1. need \in Nat /\ a \in Nat /\ c \in Nat /\ at \in {"length", "header", "body"}
  BY DEF Consumed
<1>2. h \in Seq(Nat) /\ c + 1 = Len(h) /\ h[c + 1] = b /\ \A i \in 1..c : h[i] = g[i]
  BY AppendByte DEF Consumed
<1>3. u \in Seq(Nat) /\ a + 1 = Len(u) /\ u[a + 1] = b /\ \A i \in 1..a : u[i] = buf[i]
  BY AppendByte DEF Consumed
<1>4. r.at = at /\ r.need = need /\ r.buf = buf
  BY DEF Reading
<1> HIDE DEF h, u, r
<1>5. CASE at = "length"
  <2>1. c + 1 = 1 /\ h[1] = b
    BY <1>2, <1>5 DEF Consumed
  <2>2. <<>> \in Seq(Nat) /\ 0 = Len(<<>>)
    OBVIOUS
  <2>3. CASE kind = "control"
    <3>1. Step(r, b) = Reading("body", b, <<>>)
      BY <1>4, <1>5, <2>3, SizesAssumption DEF Step, AfterLength, Reading
    <3>2. Consumed(kind, "body", b, <<>>, 0, h, c + 1)
      BY <1>2, <2>1, <2>2, <2>3 DEF Consumed
    <3> QED BY <3>1, <3>2 DEF h, r
  <2>4. CASE kind = "udp"
    <3>1. Step(r, b) = Reading("header", 2, <<>>)
      BY <1>4, <1>5, <2>4 DEF Step, AfterLength, Reading
    <3>2. Consumed(kind, "header", 2, <<>>, 0, h, c + 1)
      BY <1>2, <1>5, <2>1, <2>2, <2>4 DEF Consumed
    <3> QED BY <3>1, <3>2 DEF h, r
  <2> QED BY <2>3, <2>4
<1>6. CASE at = "header"
  <2>1. kind = "udp" /\ a + need = 2 /\ need # 0 /\ c = 1 + a /\ g[1] = 2
    BY <1>6 DEF Consumed
  <2>2. \A j \in 1..a : g[1 + j] = buf[j]
    BY <1>6 DEF Consumed
  <2>3. h[1] = 2
    <3>1. 1 \in 1..c
      BY <1>1, <2>1
    <3> QED BY <1>2, <2>1, <3>1
  <2>4. CASE need = 1
    <3> DEFINE z == buf[1]
    <3>1. a = 1 /\ c = 2 /\ c + 1 = 3
      BY <1>1, <2>1, <2>4
    <3>2. u[1] = z /\ u[2] = b /\ Len(u) = 2
      BY <1>3, <3>1
    <3>3. Step(r, b) = Reading("body", b, <<z>>)
      <4>1. Step(r, b) = AfterHeader(u)
        BY <1>4, <1>6, <2>4 DEF Step, u
      <4> QED BY <3>2, <4>1 DEF AfterHeader, Reading
    <3>4. h[2] = z /\ h[3] = b
      <4>1. 2 \in 1..c /\ 1 \in 1..a /\ 1 + 1 = 2
        BY <3>1
      <4>2. g[2] = z
        BY <2>2, <4>1
      <4> QED BY <1>2, <3>1, <4>1, <4>2
    <3>5. z \in Nat
      <4>1. buf \in Seq(Nat) /\ 1 \in 1..Len(buf)
        BY <3>1 DEF Consumed
      <4> QED BY <4>1
    <3> HIDE DEF z
    <3>6. <<z>> \in Seq(Nat) /\ 1 = Len(<<z>>) /\ <<z>>[1] = z
      BY <3>5
    <3>7. Consumed(kind, "body", b, <<z>>, 1, h, c + 1)
      BY <1>2, <2>1, <2>3, <3>1, <3>4, <3>6 DEF Consumed
    <3> QED BY <3>3, <3>7 DEF h, r
  <2>5. CASE need # 1
    <3>1. need = 2 /\ a = 0 /\ c = 1 /\ c + 1 = 2 /\ a + 1 = 1
      BY <1>1, <2>1, <2>5
    <3>2. Step(r, b) = Reading("header", 1, u)
      <4>1. Step(r, b) = [r EXCEPT !.need = 1, !.buf = u]
        BY <1>4, <1>6, <3>1 DEF Step, u
      <4> QED BY <1>6, <4>1 DEF Reading, r
    <3>3. h[2] = b /\ u[1] = b
      BY <1>2, <1>3, <3>1
    <3>4. Consumed(kind, "header", 1, u, a + 1, h, c + 1)
      BY <1>2, <1>3, <2>1, <2>3, <3>1, <3>3 DEF Consumed
    <3> QED BY <3>2, <3>4 DEF h, r
  <2> QED BY <2>4, <2>5
<1>7. CASE at = "body"
  <2>1. need \in Nat /\ need # 0 /\ need - 1 \in Nat /\ need - 1 + (a + 1) = need + a
    BY <1>1, <1>7
  <2>2. Step(r, b) = Reading("body", need - 1, u)
    <3>1. Step(r, b) = [r EXCEPT !.need = need - 1, !.buf = u]
      BY <1>4, <1>7 DEF Step, u
    <3> QED BY <1>7, <3>1 DEF Reading, r
  <2>3. CASE kind = "control"
    <3>1. c = 1 + a /\ g[1] = need + a
      BY <1>7, <2>3 DEF Consumed
    <3>2. h[1] = need - 1 + (a + 1) /\ c + 1 = 1 + (a + 1)
      <4>1. 1 \in 1..c
        BY <1>1, <3>1
      <4> QED BY <1>1, <1>2, <2>1, <3>1, <4>1
    <3>3. ASSUME NEW j \in 1..(a + 1) PROVE h[1 + j] = u[j]
      <4>1. CASE j = a + 1
        <5>1. 1 + j = c + 1
          BY <1>1, <3>1, <4>1
        <5> QED BY <1>2, <1>3, <4>1, <5>1
      <4>2. CASE j # a + 1
        <5>1. j \in 1..a /\ 1 + j \in 1..c
          BY <1>1, <3>1, <4>2
        <5>2. g[1 + j] = buf[j]
          BY <1>7, <2>3, <5>1 DEF Consumed
        <5> QED BY <1>2, <1>3, <5>1, <5>2
      <4> QED BY <4>1, <4>2
    <3>4. Consumed(kind, "body", need - 1, u, a + 1, h, c + 1)
      BY <1>1, <1>2, <1>3, <2>1, <2>3, <3>2, <3>3 DEF Consumed
    <3> QED BY <2>2, <3>4 DEF h, r
  <2>4. CASE kind = "udp"
    <3>1. c = 2 + a /\ a # 0 /\ g[1] = 2 /\ g[2] = buf[1] /\ g[3] = need + a - 1
      BY <1>7, <2>4 DEF Consumed
    <3>2. h[1] = 2 /\ h[2] = u[1] /\ h[3] = need - 1 + (a + 1) - 1 /\ c + 1 = 2 + (a + 1)
      <4>1. 1 \in 1..c /\ 2 \in 1..c /\ 3 \in 1..c /\ 1 \in 1..a
        BY <1>1, <3>1
      <4> QED BY <1>1, <1>2, <1>3, <2>1, <3>1, <4>1
    <3>3. ASSUME NEW j \in 2..(a + 1) PROVE h[2 + j] = u[j]
      <4>1. CASE j = a + 1
        <5>1. 2 + j = c + 1
          BY <1>1, <3>1, <4>1
        <5> QED BY <1>2, <1>3, <4>1, <5>1
      <4>2. CASE j # a + 1
        <5>1. j \in 2..a /\ j \in 1..a /\ 2 + j \in 1..c
          BY <1>1, <3>1, <4>2
        <5>2. g[2 + j] = buf[j]
          BY <1>7, <2>4, <5>1 DEF Consumed
        <5> QED BY <1>2, <1>3, <5>1, <5>2
      <4> QED BY <4>1, <4>2
    <3>4. Consumed(kind, "body", need - 1, u, a + 1, h, c + 1)
      BY <1>1, <1>2, <1>3, <2>1, <2>4, <3>1, <3>2, <3>3 DEF Consumed
    <3> QED BY <2>2, <3>4 DEF h, r
  <2> QED BY <2>3, <2>4
<1> QED BY <1>1, <1>5, <1>6, <1>7

\* A complete body is the message whose encoding it was read from.
LEMMA BodyIsMessage ==
    ASSUME NEW k \in {"control", "udp"}, NEW buf, NEW a, NEW g, NEW c,
           Consumed(k, "body", 0, buf, a, g, c),
           NEW m \in Whole(k), NEW l, NEW e, NEW d, IsCode(k, m, l, e, d),
           \A j \in 1..d : j <= c => g[j] = e[j]
    PROVE  buf = m /\ c = d
<1>1. a \in Nat /\ c \in Nat /\ l \in Nat /\ d \in Nat
  BY DEF Consumed, IsCode
<1>2. a = Len(buf) /\ l = Len(m) /\ buf \in Seq(Nat) /\ m \in Seq(Nat)
  BY DEF Consumed, IsCode, Whole
<1>3. a = l /\ c = d
  <2>1. CASE k = "control"
    <3>1. c = 1 + a /\ g[1] = a /\ d = 1 + l /\ e[1] = l
      BY <1>1, <2>1 DEF Consumed, IsCode
    <3>2. 1 \in 1..d /\ 1 <= c
      BY <1>1, <3>1
    <3> QED BY <3>1, <3>2
  <2>2. CASE k = "udp"
    <3>1. c = 2 + a /\ a # 0 /\ g[3] = a - 1 /\ d = 2 + l /\ e[3] = l - 1
      BY <1>1, <2>2 DEF Consumed, IsCode
    <3>2. l # 0
      BY <1>2, <2>2, SizesAssumption DEF Whole
    <3>3. 3 \in 1..d /\ 3 <= c
      BY <1>1, <3>1, <3>2
    <3>4. a - 1 = l - 1
      BY <3>1, <3>3
    <3> QED BY <1>1, <3>1, <3>4
  <2> QED BY <2>1, <2>2
<1>4. ASSUME NEW j \in 1..a PROVE buf[j] = m[j]
  <2>1. CASE k = "control"
    <3>1. g[1 + j] = buf[j] /\ e[1 + j] = m[j] /\ d = 1 + l
      BY <1>3, <2>1 DEF Consumed, IsCode
    <3>2. 1 + j \in 1..d /\ 1 + j <= c
      BY <1>1, <1>3, <3>1
    <3> QED BY <3>1, <3>2
  <2>2. CASE k = "udp" /\ j = 1
    <3>1. g[2] = buf[1] /\ e[2] = m[1] /\ d = 2 + l
      BY <2>2 DEF Consumed, IsCode
    <3>2. 2 \in 1..d /\ 2 <= c
      BY <1>1, <1>3, <3>1
    <3> QED BY <2>2, <3>1, <3>2
  <2>3. CASE k = "udp" /\ j # 1
    <3>1. j \in 2..a
      BY <1>1, <2>3
    <3>2. g[2 + j] = buf[j] /\ e[2 + j] = m[j] /\ d = 2 + l
      BY <1>3, <2>3, <3>1 DEF Consumed, IsCode
    <3>3. 2 + j \in 1..d /\ 2 + j <= c
      BY <1>1, <1>3, <3>1, <3>2
    <3> QED BY <3>2, <3>3
  <2> QED BY <2>1, <2>2, <2>3
<1>5. Len(buf) = Len(m)
  BY <1>2, <1>3
<1>6. \A j \in 1..Len(buf) : buf[j] = m[j]
  BY <1>2, <1>4
<1>7. buf = m
  BY <1>2, <1>5, <1>6, SeqEqual
<1> QED BY <1>3, <1>7
-----------------------------------------------------------------------------
(* Messages on a stream *)

\* The bytes e of the whole message m lie from u to v.
Coded(k, m, e, u, v) ==
    m \in Whole(k) /\ \E l, d : IsCode(k, m, l, e, d) /\ u \in Nat /\ v = u + d

\* The m bytes of B are the messages f, and the beginning of x.
Carries(k, f, n, B, m, x, C, p) ==
    /\ n \in Nat \ {0} /\ Len(f) = n - 1 /\ f \in Seq(Seq(Nat)) /\ m \in Nat
    /\ Layout(B, m, C, n, p)
    /\ \A i \in 1..(n - 1) : Coded(k, f[i], C[i], p[i], p[i + 1])
    /\ Coded(k, x, C[n], p[n], p[n + 1])

\* The rest of x is the bytes o, which are being written, with y the message
\* sent last; if there are none nothing of x has been written.
Unwritten(o, y, n, m, x, C, p) ==
    /\ o = <<>> => p[n] = m
    /\ o # <<>> => /\ x = y /\ p[n] <= m /\ m + Len(o) = p[n + 1]
                   /\ \A j \in 1..Len(o) : o[j] = C[n][m - p[n] + j]

LEMMA IsCarried ==
    ASSUME NEW k, NEW f, NEW n \in Nat \ {0}, NEW B, NEW m \in Nat, NEW x, NEW C, NEW p,
           f \in Seq(Seq(Nat)), Len(f) = n - 1, Layout(B, m, C, n, p),
           \A i \in 1..(n - 1) : Coded(k, f[i], C[i], p[i], p[i + 1]),
           Coded(k, x, C[n], p[n], p[n + 1])
    PROVE  Carries(k, f, n, B, m, x, C, p)
BY DEF Carries

LEMMA IsUnwritten ==
    ASSUME NEW o, NEW x, NEW n, NEW m, NEW C, NEW p,
           o # <<>>, p[n] <= m, m + Len(o) = p[n + 1],
           \A j \in 1..Len(o) : o[j] = C[n][m - p[n] + j]
    PROVE  Unwritten(o, x, n, m, x, C, p)
BY DEF Unwritten

LEMMA CodeNotEmpty ==
    ASSUME NEW k \in {"control", "udp"}, NEW m \in Whole(k), NEW l, NEW e, NEW d, IsCode(k, m, l, e, d)
    PROVE  d \in Nat \ {0} /\ e \in Seq(Nat) /\ Len(e) = d
<1>1. CASE k = "control"
  BY <1>1 DEF IsCode
<1>2. CASE k = "udp"
  BY <1>2 DEF IsCode
<1> QED BY <1>1, <1>2

\* A new message is written where there is no other.
LEMMA CarriesWrite ==
    ASSUME NEW k \in {"control", "udp"}, NEW f, NEW n, NEW B, NEW m, NEW x, NEW C, NEW p,
           Carries(k, f, n, B, m, x, C, p), p[n] = m,
           NEW z \in Whole(k), NEW l, NEW e, NEW d, IsCode(k, z, l, e, d)
    PROVE  \E C2, p2 : Carries(k, f, n, B, m, z, C2, p2) /\ Unwritten(e, z, n, m, z, C2, p2)
<1>1. n \in Nat \ {0} /\ m \in Nat /\ Layout(B, m, C, n, p)
  BY DEF Carries
<1>2. d \in Nat \ {0} /\ e \in Seq(Nat) /\ Len(e) = d
  BY CodeNotEmpty, Zenon
<1> DEFINE D == [i \in 1..n |-> IF i = n THEN e ELSE C[i]]
           r == [p EXCEPT ![n + 1] = m + d]
<1>3. \A i \in 1..(n - 1) : D[i] = C[i]
  BY <1>1
<1>4. D[n] = e
  BY <1>1
<1>5. p \in [1..(n + 1) -> Nat]
  BY DEF Carries, Layout
<1>6. r[n + 1] = m + d /\ \A i \in 1..n : r[i] = p[i]
  BY <1>1, <1>5
<1>7. r = [p EXCEPT ![n + 1] = m + d]
  OBVIOUS
<1> HIDE DEF D, r
<1>8. Layout(B, m, D, n, r)
  BY <1>1, <1>2, <1>3, <1>7, LayoutSwap
<1>9. Coded(k, z, D[n], r[n], r[n + 1])
  <2>1. r[n] = m
    BY <1>1, <1>6
  <2>2. r[n] \in Nat /\ r[n + 1] = r[n] + d
    BY <1>1, <1>6, <2>1
  <2> QED BY <1>4, <2>2, Zenon DEF Coded
<1>10. ASSUME NEW i \in 1..(n - 1) PROVE Coded(k, f[i], D[i], r[i], r[i + 1])
  <2>1. i \in 1..n /\ i + 1 \in 1..n
    BY <1>1
  <2>2. r[i] = p[i] /\ r[i + 1] = p[i + 1] /\ D[i] = C[i]
    BY <1>3, <1>6, <2>1
  <2>3. Coded(k, f[i], C[i], p[i], p[i + 1])
    BY DEF Carries
  <2> QED BY <2>2, <2>3, Zenon
<1>11. Carries(k, f, n, B, m, z, D, r)
  <2>1. Len(f) = n - 1 /\ f \in Seq(Seq(Nat))
    BY DEF Carries
  <2> QED BY <1>1, <1>8, <1>9, <1>10, <2>1, Zenon DEF Carries
<1>12. Unwritten(e, z, n, m, z, D, r)
  <2>1. r[n] = m /\ e # <<>>
    BY <1>1, <1>2, <1>6
  <2>2. r[n] <= m /\ m + Len(e) = r[n + 1]
    BY <1>1, <1>2, <1>6, <2>1
  <2>3. ASSUME NEW j \in 1..Len(e) PROVE e[j] = D[n][m - r[n] + j]
    <3>1. m - r[n] + j = j
      BY <1>1, <1>2, <2>1
    <3> QED BY <1>4, <3>1
  <2> QED BY <2>1, <2>2, <2>3, Zenon DEF Unwritten
<1> QED BY <1>11, <1>12

\* A byte of x is written, and not its last one.
LEMMA CarriesMore ==
    ASSUME NEW k, NEW f, NEW n, NEW B, NEW m, NEW x, NEW C, NEW p, NEW A,
           Carries(k, f, n, B, m, x, C, p), p[n] <= m, m + 1 < p[n + 1],
           \A j \in 1..m : A[j] = B[j], A[m + 1] = C[n][m + 1 - p[n]],
           NEW m2, m2 = m + 1
    PROVE  Carries(k, f, n, A, m2, x, C, p)
<1>1. n \in Nat \ {0} /\ m \in Nat /\ Layout(B, m, C, n, p)
  BY DEF Carries
<1>2. Layout(A, m + 1, C, n, p)
  BY <1>1, LayoutGrow
<1>3. m2 \in Nat /\ Layout(A, m2, C, n, p)
  BY <1>1, <1>2
<1> QED BY <1>3, Zenon DEF Carries

\* There is a message, which may be the next.
LEMMA SomeMessage ==
    ASSUME NEW k \in {"control", "udp"}
    PROVE  \E x \in Whole(k) : \E l, e, d : IsCode(k, x, l, e, d)
<1>1. CASE k = "control"
  <2>1. <<>> \in Whole(k)
    BY <1>1, SizesAssumption DEF Whole
  <2>2. IsCode(k, <<>>, 0, <<0>>, 1)
    BY <1>1 DEF IsCode
  <2> QED BY <2>1, <2>2
<1>2. CASE k = "udp"
  <2>1. <<0>> \in Whole(k)
    BY <1>2, SizesAssumption DEF Whole
  <2>2. IsCode(k, <<0>>, 1, <<2, 0, 0>>, 3)
    BY <1>2 DEF IsCode
  <2> QED BY <2>1, <2>2
<1> QED BY <1>1, <1>2

\* Its last byte is written: it is in flight.
Ends(k, f, n, B, m, x, C, p, A, h) ==
    /\ Carries(k, f, n, B, m, x, C, p) /\ p[n] <= m /\ m + 1 = p[n + 1]
    /\ \A j \in 1..m : A[j] = B[j]
    /\ A[m + 1] = C[n][m + 1 - p[n]]
    /\ h \in Seq(Seq(Nat)) /\ Len(h) = n /\ h[n] = x
    /\ \A i \in 1..(n - 1) : h[i] = f[i]

LEMMA CarriesLast ==
    ASSUME NEW k \in {"control", "udp"}, NEW f, NEW n, NEW B, NEW m, NEW x, NEW C, NEW p, NEW A, NEW h,
           Ends(k, f, n, B, m, x, C, p, A, h)
    PROVE  \E x2, D, r, m2, n2 : /\ m2 = m + 1 /\ n2 = n + 1 /\ r[n2] = m2
                                 /\ Carries(k, h, n2, A, m2, x2, D, r)
<1>1. /\ Carries(k, f, n, B, m, x, C, p) /\ p[n] <= m /\ m + 1 = p[n + 1]
      /\ \A j \in 1..m : A[j] = B[j]
      /\ A[m + 1] = C[n][m + 1 - p[n]]
      /\ h \in Seq(Seq(Nat)) /\ Len(h) = n /\ h[n] = x
      /\ \A i \in 1..(n - 1) : h[i] = f[i]
  BY DEF Ends
<1>2. n \in Nat \ {0} /\ m \in Nat /\ Layout(B, m, C, n, p)
  BY <1>1 DEF Carries
<1>3. p[n] \in Nat /\ p[n + 1] \in Nat
  BY <1>2 DEF Layout
<1>4. \E y \in Whole(k) : \E l, e, d : IsCode(k, y, l, e, d)
  BY SomeMessage
<1>5. SUFFICES ASSUME NEW y, y \in Whole(k), NEW l, NEW e, NEW d, IsCode(k, y, l, e, d)
               PROVE  \E x2, D, r, m2, n2 : /\ m2 = m + 1 /\ n2 = n + 1 /\ r[n2] = m2
                                            /\ Carries(k, h, n2, A, m2, x2, D, r)
  BY <1>4, Zenon
<1>6. d \in Nat \ {0}
  BY <1>5, CodeNotEmpty
<1> DEFINE D == [i \in 1..(n + 1) |-> IF i = n + 1 THEN e ELSE C[i]]
           r == [i \in 1..(n + 2) |-> IF i <= n + 1 THEN p[i] ELSE p[n + 1] + d]
           m2 == m + 1
           n2 == n + 1
<1>7. D[n2] = e /\ \A i \in 1..n : D[i] = C[i]
  BY <1>2
<1>8. r[n2 + 1] = p[n2] + d /\ \A i \in 1..n2 : r[i] = p[i]
  BY <1>2
<1>9. r = [i \in 1..(n + 2) |-> IF i <= n + 1 THEN p[i] ELSE p[n + 1] + d]
  OBVIOUS
<1>10. m2 = m + 1 /\ n2 = n + 1 /\ n2 - 1 = n /\ n2 \in Nat \ {0} /\ m2 \in Nat
  BY <1>2
<1> HIDE DEF D, r, m2, n2
<1>11. Layout(A, m2, D, n2, r)
  <2>1. \A i \in 1..n : D[i] = C[i]
    BY <1>7
  <2>2. /\ p[n] <= m /\ m + 1 = p[n + 1] /\ A[m + 1] = C[n][m + 1 - p[n]]
        /\ \A j \in 1..m : A[j] = B[j]
    BY <1>1
  <2>3. Layout(A, m + 1, D, n + 1, r)
    <3>1. Closes(m, n, B, C, p, A, D, r, d)
      BY <1>2, <1>6, <1>9, <2>1, <2>2, Zenon DEF Closes
    <3> QED BY <3>1, LayoutClose
  <2> QED BY <1>10, <2>3
<1>12. r[n2] = p[n2] /\ p[n2] = m2
  BY <1>1, <1>8, <1>10
<1>13. Coded(k, y, D[n2], r[n2], r[n2 + 1])
  <2>1. r[n2] \in Nat /\ r[n2 + 1] = r[n2] + d
    BY <1>8, <1>10, <1>12
  <2> QED BY <1>5, <1>7, <2>1, Zenon DEF Coded
<1>14. ASSUME NEW i \in 1..(n2 - 1) PROVE Coded(k, h[i], D[i], r[i], r[i + 1])
  <2>1. i \in 1..n /\ i \in 1..n2 /\ i + 1 \in 1..n2
    BY <1>2, <1>10
  <2>2. r[i] = p[i] /\ r[i + 1] = p[i + 1] /\ D[i] = C[i]
    BY <1>7, <1>8, <2>1
  <2>3. CASE i = n
    <3>1. Coded(k, x, C[n], p[n], p[n + 1])
      BY <1>1 DEF Carries
    <3>2. h[n] = x
      BY <1>1
    <3> QED BY <2>2, <2>3, <3>1, <3>2, Zenon
  <2>4. CASE i # n
    <3>1. i \in 1..(n - 1)
      BY <1>2, <2>1, <2>4
    <3>2. Coded(k, f[i], C[i], p[i], p[i + 1])
      BY <1>1, <3>1 DEF Carries
    <3>3. h[i] = f[i]
      BY <1>1, <3>1
    <3> QED BY <2>2, <3>2, <3>3, Zenon
  <2> QED BY <2>3, <2>4
<1>15. Carries(k, h, n2, A, m2, y, D, r)
  <2>1. h \in Seq(Seq(Nat)) /\ Len(h) = n2 - 1
    BY <1>1, <1>10
  <2> QED BY <1>10, <1>11, <1>13, <1>14, <2>1, IsCarried
<1> QED BY <1>10, <1>12, <1>15, Zenon

\* The first message is delivered.
Delivers(k, f, n, B, m, x, C, p, A, a, t) ==
    /\ Carries(k, f, n, B, m, x, C, p) /\ n # 1 /\ a \in Nat /\ m = p[2] + a
    /\ \A j \in 1..a : A[j] = B[p[2] + j]
    /\ t \in Seq(Seq(Nat)) /\ Len(t) = n - 2 /\ \A i \in 1..(n - 2) : t[i] = f[i + 1]

LEMMA CarriesPop ==
    ASSUME NEW k, NEW f, NEW n, NEW B, NEW m, NEW x, NEW C, NEW p, NEW A, NEW a, NEW t,
           Delivers(k, f, n, B, m, x, C, p, A, a, t)
    PROVE  \E D, r, n2 : /\ n2 = n - 1 /\ Carries(k, t, n2, A, a, x, D, r)
                         /\ r[n2] = p[n] - p[2] /\ r[n2 + 1] = p[n + 1] - p[2] /\ D[n2] = C[n]
<1>1. /\ Carries(k, f, n, B, m, x, C, p) /\ n # 1 /\ a \in Nat /\ m = p[2] + a
      /\ \A j \in 1..a : A[j] = B[p[2] + j]
      /\ t \in Seq(Seq(Nat)) /\ Len(t) = n - 2 /\ \A i \in 1..(n - 2) : t[i] = f[i + 1]
  BY DEF Delivers
<1>2. n \in Nat \ {0} /\ m \in Nat /\ Layout(B, m, C, n, p)
  BY <1>1 DEF Carries
<1> DEFINE n2 == n - 1
           D == [i \in 1..n2 |-> C[i + 1]]
           r == [i \in 1..(n2 + 1) |-> p[i + 1] - p[2]]
<1>3. n2 \in Nat \ {0} /\ n2 + 1 = n /\ n2 = n - 1 /\ n2 - 1 = n - 2
  BY <1>1, <1>2
<1>4. r = [i \in 1..(n2 + 1) |-> p[i + 1] - p[2]] /\ \A i \in 1..n2 : D[i] = C[i + 1]
  OBVIOUS
<1>5. \A i \in 1..(n2 + 1) : r[i] = p[i + 1] - p[2]
  OBVIOUS
<1> HIDE DEF n2, D, r
<1>6. Layout(A, a, D, n2, r)
  <2>1. a \in Nat /\ m = p[2] + a /\ \A j \in 1..a : A[j] = B[p[2] + j]
    BY <1>1
  <2>2. Layout(B, m, C, n2 + 1, p)
    BY <1>2, <1>3
  <2>3. Pops(m, n2, B, C, p, a, A, D, r)
    BY <1>2, <1>3, <1>4, <2>1, <2>2, Zenon DEF Pops
  <2> QED BY <2>3, LayoutPop
<1>7. n2 \in 1..n2 /\ n2 + 1 \in 1..(n2 + 1) /\ n2 \in 1..(n2 + 1)
  BY <1>3
<1>8. r[n2] = p[n] - p[2] /\ r[n2 + 1] = p[n + 1] - p[2] /\ D[n2] = C[n]
  BY <1>3, <1>4, <1>5, <1>7
<1>9. \A i \in 1..(n + 1) : p[i] \in Nat
  BY <1>2 DEF Layout
<1>10. p[2] \in Nat /\ \A i \in 2..(n + 1) : p[2] <= p[i]
  <2>1. 2 \in 1..(n + 1)
    BY <1>2
  <2>2. ASSUME NEW i \in 2..(n + 1) PROVE p[2] <= p[i]
    <3>1. i \in 1..(n + 1) /\ 2 <= i
      BY <1>2
    <3> QED BY <1>2, <2>1, <3>1 DEF Layout
  <2> QED BY <1>9, <2>1, <2>2
<1>11. ASSUME NEW y, NEW i \in 1..n2, Coded(k, y, C[i + 1], p[i + 1], p[i + 1 + 1])
       PROVE  Coded(k, y, D[i], r[i], r[i + 1])
  <2> DEFINE u == p[i + 1]
             v == p[i + 1 + 1]
  <2>1. i \in 1..(n2 + 1) /\ i + 1 \in 1..(n2 + 1) /\ i + 1 \in 2..(n + 1)
    BY <1>2, <1>3
  <2>2. D[i] = C[i + 1] /\ r[i] = u - p[2] /\ r[i + 1] = v - p[2] /\ p[2] <= u
    BY <1>4, <1>5, <1>10, <2>1
  <2>3. Coded(k, y, C[i + 1], u, v)
    BY <1>11
  <2> HIDE DEF u, v
  <2>4. PICK l, d : IsCode(k, y, l, C[i + 1], d) /\ u \in Nat /\ v = u + d
    BY <2>3, Zenon DEF Coded
  <2>5. d \in Nat
    BY <2>4, Zenon DEF IsCode
  <2>6. r[i] \in Nat /\ r[i + 1] = r[i] + d
    BY <1>10, <2>2, <2>4, <2>5
  <2>7. y \in Whole(k) /\ IsCode(k, y, l, D[i], d)
    BY <2>2, <2>3, <2>4, Zenon DEF Coded
  <2> QED BY <2>6, <2>7, Zenon DEF Coded
<1>12. Coded(k, x, D[n2], r[n2], r[n2 + 1])
  <2>1. Coded(k, x, C[n], p[n], p[n + 1])
    BY <1>1 DEF Carries
  <2>2. Coded(k, x, C[n2 + 1], p[n2 + 1], p[n2 + 1 + 1])
    BY <1>3, <2>1
  <2> QED BY <1>7, <1>11, <2>2, Zenon
<1>13. ASSUME NEW i \in 1..(n2 - 1) PROVE Coded(k, t[i], D[i], r[i], r[i + 1])
  <2>1. i \in 1..(n - 2) /\ i + 1 \in 1..(n - 1) /\ i \in 1..n2
    BY <1>2, <1>3
  <2>2. t[i] = f[i + 1]
    BY <1>1, <2>1
  <2>3. Coded(k, f[i + 1], C[i + 1], p[i + 1], p[i + 1 + 1])
    BY <1>1, <2>1 DEF Carries
  <2> QED BY <1>11, <2>1, <2>2, <2>3, Zenon
<1>14. Carries(k, t, n2, A, a, x, D, r)
  <2>1. t \in Seq(Seq(Nat)) /\ Len(t) = n2 - 1 /\ a \in Nat
    BY <1>1, <1>3
  <2> QED BY <1>3, <1>6, <1>12, <1>13, <2>1, IsCarried
<1> QED BY <1>3, <1>8, <1>14, Zenon

\* What remains to be written does not depend on what was read.
Shifted(o, n, m, C, p, n2, a, D, r, v) ==
    /\ v \in Nat /\ a \in Nat /\ m = v + a /\ p[n] \in Nat /\ p[n + 1] \in Nat /\ v <= p[n]
    /\ r[n2] = p[n] - v /\ r[n2 + 1] = p[n + 1] - v /\ D[n2] = C[n] /\ Len(o) \in Nat

LEMMA UnwrittenPop ==
    ASSUME NEW o, NEW y, NEW n, NEW m, NEW x, NEW C, NEW p, NEW n2, NEW a, NEW D, NEW r, NEW v,
           Unwritten(o, y, n, m, x, C, p), Shifted(o, n, m, C, p, n2, a, D, r, v)
    PROVE  Unwritten(o, y, n2, a, x, D, r)
<1> USE DEF Shifted
<1>1. CASE o = <<>>
  <2>1. p[n] = m
    BY <1>1 DEF Unwritten
  <2>2. r[n2] = a
    BY <2>1
  <2> QED BY <1>1, <2>2, Zenon DEF Unwritten
<1>2. CASE o # <<>>
  <2>1. x = y /\ p[n] <= m /\ m + Len(o) = p[n + 1]
    BY <1>2 DEF Unwritten
  <2>2. r[n2] <= a /\ a + Len(o) = r[n2 + 1]
    BY <2>1
  <2>3. ASSUME NEW j \in 1..Len(o) PROVE o[j] = D[n2][a - r[n2] + j]
    <3>1. m - p[n] = a - r[n2]
      OBVIOUS
    <3>2. o[j] = C[n][m - p[n] + j]
      BY <1>2 DEF Unwritten
    <3> QED BY <3>1, <3>2
  <2>4. x = y
    BY <2>1
  <2> QED BY <1>2, <2>2, <2>3, <2>4, IsUnwritten
<1> QED BY <1>1, <1>2

-----------------------------------------------------------------------------
(* A stream: the read in progress, the pipe, the write in progress *)

\* The m bytes of B are the c bytes g followed by the w bytes q.
Bytes(g, c, q, w, B, m) ==
    /\ q \in Seq(Nat) /\ w \in Nat /\ w = Len(q) /\ c \in Nat /\ m = c + w
    /\ \A i \in 1..c : B[i] = g[i]
    /\ \A i \in 1..w : B[c + i] = q[i]

Stream(k, f, q, o, y, broken, at, need, buf, a, g, c, w, B, m, n, x, C, p) ==
    /\ Consumed(k, at, need, buf, a, g, c)
    /\ Bytes(g, c, q, w, B, m)
    /\ Carries(k, f, n, B, m, x, C, p)
    /\ broken \/ Unwritten(o, y, n, m, x, C, p)

\* What reader r has consumed and what is in the pipe q is the messages f and
\* the beginning of message y, of which o is still to be written, or of some
\* message, if o is empty or the connection broke.
OnStream(k, r, f, q, o, y, broken) ==
    \E at, need, buf, a, g, c, w, B, m, n, x, C, p :
        /\ r = Reading(at, need, buf)
        /\ Stream(k, f, q, o, y, broken, at, need, buf, a, g, c, w, B, m, n, x, C, p)

LEMMA StreamStart ==
    ASSUME NEW k \in {"control", "udp"}, NEW y, NEW broken
    PROVE  OnStream(k, Fresh, <<>>, <<>>, <<>>, y, broken)
<1>1. PICK x \in Whole(k) : \E l, e, d : IsCode(k, x, l, e, d)
  BY SomeMessage
<1>2. PICK l, e, d : IsCode(k, x, l, e, d)
  BY <1>1
<1>3. d \in Nat \ {0}
  BY <1>2, CodeNotEmpty
<1> DEFINE p == [i \in 1..2 |-> IF i = 1 THEN 0 ELSE d]
           C == <<e>>
<1>4. p = [i \in 1..2 |-> IF i = 1 THEN 0 ELSE d] /\ p[1] = 0 /\ p[2] = d
  OBVIOUS
<1>5. C[1] = e
  OBVIOUS
<1> HIDE DEF p, C
<1>6. Layout(<<>>, 0, C, 1, p)
  BY <1>3, <1>4, LayoutStart
<1>7. Coded(k, x, C[1], p[1], p[2])
  <2>1. p[1] \in Nat /\ p[2] = p[1] + d
    BY <1>3, <1>4
  <2> QED BY <1>1, <1>2, <1>5, <2>1, Zenon DEF Coded
<1>8. Carries(k, <<>>, 1, <<>>, 0, x, C, p)
  <2>1. 1 \in Nat \ {0} /\ Len(<<>>) = 1 - 1 /\ <<>> \in Seq(Seq(Nat)) /\ 0 \in Nat /\ 1 + 1 = 2
    OBVIOUS
  <2>2. \A i \in 1..(1 - 1) : Coded(k, <<>>[i], C[i], p[i], p[i + 1])
    OBVIOUS
  <2> QED BY <1>6, <1>7, <2>1, <2>2 DEF Carries
<1>9. Unwritten(<<>>, y, 1, 0, x, C, p)
  BY <1>4 DEF Unwritten
<1>10. Consumed(k, "length", 1, <<>>, 0, <<>>, 0)
  BY DEF Consumed
<1>11. Bytes(<<>>, 0, <<>>, 0, <<>>, 0)
  BY DEF Bytes
<1>12. Fresh = Reading("length", 1, <<>>)
  BY DEF Fresh, Reading
<1>13. Stream(k, <<>>, <<>>, <<>>, y, broken, "length", 1, <<>>, 0, <<>>, 0, 0, <<>>, 0, 1, x, C, p)
  BY <1>8, <1>9, <1>10, <1>11, Zenon DEF Stream
<1> QED BY <1>12, <1>13, Zenon DEF OnStream

\* On a broken connection it does not matter what is still to be written.
LEMMA StreamBreaks ==
    ASSUME NEW k, NEW r, NEW f, NEW q, NEW o, NEW y, NEW broken, OnStream(k, r, f, q, o, y, broken),
           NEW o2, NEW y2
    PROVE  OnStream(k, r, f, q, o2, y2, TRUE)
<1>1. PICK at, need, buf, a, g, c, w, B, m, n, x, C, p :
         /\ r = Reading(at, need, buf)
         /\ Stream(k, f, q, o, y, broken, at, need, buf, a, g, c, w, B, m, n, x, C, p)
  BY Zenon DEF OnStream
<1>2. Stream(k, f, q, o2, y2, TRUE, at, need, buf, a, g, c, w, B, m, n, x, C, p)
  BY <1>1, Zenon DEF Stream
<1> QED BY <1>1, <1>2, Zenon DEF OnStream

\* Of the bytes in the pipe some prefix arrives.
LEMMA StreamCut ==
    ASSUME NEW k, NEW r, NEW f, NEW q, NEW o, NEW y, NEW broken, OnStream(k, r, f, q, o, y, broken),
           NEW o2, NEW y2, NEW z, NEW v \in Nat, z \in Seq(Nat), Len(z) = v, v <= Len(q),
           \A i \in 1..v : z[i] = q[i]
    PROVE  OnStream(k, r, f, z, o2, y2, TRUE)
<1>1. PICK at, need, buf, a, g, c, w, B, m, n, x, C, p :
         /\ r = Reading(at, need, buf)
         /\ Stream(k, f, q, o, y, broken, at, need, buf, a, g, c, w, B, m, n, x, C, p)
  BY Zenon DEF OnStream
<1>2. Bytes(g, c, q, w, B, m) /\ Carries(k, f, n, B, m, x, C, p)
  BY <1>1, Zenon DEF Stream
<1>3. c \in Nat /\ w \in Nat /\ w = Len(q) /\ m = c + w
  BY <1>2, Zenon DEF Bytes
<1> DEFINE m2 == c + v
<1>4. m2 \in Nat /\ m2 = c + v /\ m2 \in 0..m /\ m \in Nat /\ \A i \in 1..v : i \in 1..w
  BY <1>3
<1> HIDE DEF m2
<1>5. Bytes(g, c, z, v, B, m2)
  <2>1. \A i \in 1..v : B[c + i] = z[i]
    BY <1>2, <1>4 DEF Bytes
  <2>2. \A i \in 1..c : B[i] = g[i]
    BY <1>2 DEF Bytes
  <2> QED BY <1>3, <1>4, <2>1, <2>2, Zenon DEF Bytes
<1>6. Carries(k, f, n, B, m2, x, C, p)
  <2>1. Layout(B, m, C, n, p) /\ n \in Nat
    BY <1>2 DEF Carries
  <2>2. \A j \in 1..m2 : B[j] = B[j]
    OBVIOUS
  <2>3. Layout(B, m2, C, n, p)
    BY <1>4, <2>1, <2>2, LayoutPrefix
  <2> QED BY <1>2, <1>4, <2>3, Zenon DEF Carries
<1>7. Stream(k, f, z, o2, y2, TRUE, at, need, buf, a, g, c, v, B, m2, n, x, C, p)
  BY <1>1, <1>5, <1>6, Zenon DEF Stream
<1> QED BY <1>1, <1>7, Zenon DEF OnStream

\* A message is written.
LEMMA StreamWrite ==
    ASSUME NEW k \in {"control", "udp"}, NEW r, NEW f, NEW q, NEW y, NEW broken,
           OnStream(k, r, f, q, <<>>, y, broken),
           NEW z \in Whole(k), NEW l, NEW e, NEW d, IsCode(k, z, l, e, d)
    PROVE  OnStream(k, r, f, q, e, z, broken)
<1>1. PICK at, need, buf, a, g, c, w, B, m, n, x, C, p :
         /\ r = Reading(at, need, buf)
         /\ Stream(k, f, q, <<>>, y, broken, at, need, buf, a, g, c, w, B, m, n, x, C, p)
  BY Zenon DEF OnStream
<1>2. CASE broken
  <2>1. Stream(k, f, q, e, z, broken, at, need, buf, a, g, c, w, B, m, n, x, C, p)
    BY <1>1, <1>2, Zenon DEF Stream
  <2> QED BY <1>1, <2>1, Zenon DEF OnStream
<1>3. CASE ~broken
  <2>1. Carries(k, f, n, B, m, x, C, p) /\ Unwritten(<<>>, y, n, m, x, C, p)
    BY <1>1, <1>3, Zenon DEF Stream
  <2>2. p[n] = m
    BY <2>1, Zenon DEF Unwritten
  <2>3. PICK C2, p2 : Carries(k, f, n, B, m, z, C2, p2) /\ Unwritten(e, z, n, m, z, C2, p2)
    BY <2>1, <2>2, CarriesWrite
  <2>4. Stream(k, f, q, e, z, broken, at, need, buf, a, g, c, w, B, m, n, z, C2, p2)
    BY <1>1, <2>3, Zenon DEF Stream
  <2> QED BY <1>1, <2>4, Zenon DEF OnStream
<1> QED BY <1>2, <1>3

\* A byte goes into the pipe.
LEMMA BytesAppend ==
    ASSUME NEW g, NEW c, NEW q, NEW w, NEW B, NEW m, NEW b \in Nat, Bytes(g, c, q, w, B, m)
    PROVE  \E A : /\ Bytes(g, c, Append(q, b), w + 1, A, m + 1)
                  /\ \A j \in 1..m : A[j] = B[j]
                  /\ A[m + 1] = b
<1>1. /\ q \in Seq(Nat) /\ w \in Nat /\ w = Len(q) /\ c \in Nat /\ m = c + w /\ m \in Nat
      /\ \A i \in 1..c : B[i] = g[i]
      /\ \A i \in 1..w : B[c + i] = q[i]
  BY DEF Bytes
<1> DEFINE z == Append(q, b)
           A == [j \in 1..(m + 1) |-> IF j = m + 1 THEN b ELSE B[j]]
<1>2. z \in Seq(Nat) /\ Len(z) = w + 1 /\ z[w + 1] = b /\ \A i \in 1..w : z[i] = q[i]
  BY <1>1, AppendByte
<1>3. A[m + 1] = b /\ \A j \in 1..m : A[j] = B[j]
  BY <1>1
<1> HIDE DEF z, A
<1>4. ASSUME NEW i \in 1..c PROVE A[i] = g[i]
  <2>1. i \in 1..m
    BY <1>1
  <2> QED BY <1>1, <1>3, <2>1
<1>5. ASSUME NEW i \in 1..(w + 1) PROVE A[c + i] = z[i]
  <2>1. CASE i = w + 1
    <3>1. c + i = m + 1
      BY <1>1, <2>1
    <3> QED BY <1>2, <1>3, <2>1, <3>1
  <2>2. CASE i # w + 1
    <3>1. i \in 1..w /\ c + i \in 1..m
      BY <1>1, <2>2
    <3> QED BY <1>1, <1>2, <1>3, <3>1
  <2> QED BY <2>1, <2>2
<1>6. w + 1 \in Nat /\ m + 1 = c + (w + 1)
  BY <1>1
<1>7. Bytes(g, c, z, w + 1, A, m + 1)
  BY <1>1, <1>2, <1>4, <1>5, <1>6 DEF Bytes
<1> QED BY <1>3, <1>7 DEF z

LEMMA StreamFlush ==
    ASSUME NEW k \in {"control", "udp"}, NEW r, NEW f, NEW q, NEW o, NEW y, NEW o2, NEW q2, NEW f2
    PROVE  /\ OnStream(k, r, f, q, o, y, FALSE) /\ o \in Seq(Nat) /\ o # <<>> /\ y \in Seq(Nat)
           /\ q2 = Append(q, Head(o)) /\ o2 = Tail(o)
           /\ f2 = IF Len(o) = 1 THEN Append(f, y) ELSE f
           => OnStream(k, r, f2, q2, o2, y, FALSE)
<1>1. SUFFICES ASSUME OnStream(k, r, f, q, o, y, FALSE), o \in Seq(Nat), o # <<>>, y \in Seq(Nat),
                      q2 = Append(q, Head(o)), o2 = Tail(o),
                      f2 = IF Len(o) = 1 THEN Append(f, y) ELSE f
               PROVE  OnStream(k, r, f2, q2, o2, y, FALSE)
  OBVIOUS
<1>2. PICK at, need, buf, a, g, c, w, B, m, n, x, C, p :
         /\ r = Reading(at, need, buf)
         /\ Stream(k, f, q, o, y, FALSE, at, need, buf, a, g, c, w, B, m, n, x, C, p)
  BY <1>1, Zenon DEF OnStream
<1>3. /\ Bytes(g, c, q, w, B, m) /\ Carries(k, f, n, B, m, x, C, p)
      /\ Unwritten(o, y, n, m, x, C, p) /\ Consumed(k, at, need, buf, a, g, c)
  BY <1>2, Zenon DEF Stream
<1> DEFINE b == o[1]
           v == Len(o) - 1
<1>4. b \in Nat /\ Head(o) = b /\ v \in Nat /\ Len(o) = v + 1
  BY <1>1
<1>5. o2 \in Seq(Nat) /\ Len(o2) = v /\ \A j \in 1..v : o2[j] = o[j + 1]
  BY <1>1, HeadTailProperties
<1> HIDE DEF b, v
<1>6. q2 = Append(q, b)
  BY <1>1, <1>4
<1>7. PICK A : Bytes(g, c, q2, w + 1, A, m + 1) /\ (\A j \in 1..m : A[j] = B[j]) /\ A[m + 1] = b
  BY <1>3, <1>4, <1>6, BytesAppend
<1>8. n \in Nat \ {0} /\ m \in Nat /\ Layout(B, m, C, n, p) /\ f \in Seq(Seq(Nat)) /\ Len(f) = n - 1
  BY <1>3 DEF Carries
<1>9. p[n] \in Nat /\ p[n + 1] \in Nat
  BY <1>8 DEF Layout
<1>10. /\ x = y /\ p[n] <= m /\ m + (v + 1) = p[n + 1]
       /\ \A j \in 1..(v + 1) : o[j] = C[n][m - p[n] + j]
  <2>1. Unwritten(o, y, n, m, x, C, p) /\ o # <<>> /\ Len(o) = v + 1
    BY <1>1, <1>3, <1>4
  <2> QED BY <2>1 DEF Unwritten
<1>11. A[m + 1] = C[n][m + 1 - p[n]]
  <2>1. 1 \in 1..(v + 1) /\ m - p[n] + 1 = m + 1 - p[n]
    BY <1>4, <1>8, <1>9
  <2>2. o[1] = C[n][m - p[n] + 1]
    BY <1>10, <2>1
  <2> QED BY <1>7, <2>1, <2>2 DEF b
<1> DEFINE m2 == m + 1
<1>12. m2 = m + 1
  OBVIOUS
<1>13. Bytes(g, c, q2, w + 1, A, m2)
  BY <1>7
<1> HIDE DEF m2
<1>14. \A j \in 1..m : A[j] = B[j]
  BY <1>7
<1>15. p[n] <= m
  BY <1>10
<1>16. CASE v = 0
  <2>1. f2 = Append(f, x) /\ x \in Seq(Nat)
    BY <1>1, <1>4, <1>10, <1>16
  <2>2. f2 \in Seq(Seq(Nat)) /\ Len(f2) = n /\ f2[n] = x /\ \A i \in 1..(n - 1) : f2[i] = f[i]
    <3>1. Len(f2) = Len(f) + 1 /\ f2 \in Seq(Seq(Nat)) /\ f2[Len(f) + 1] = x /\ \A i \in 1..Len(f) : f2[i] = f[i]
      BY <1>8, <2>1
    <3>2. n - 1 + 1 = n
      BY <1>8
    <3> QED BY <1>8, <3>1, <3>2
  <2>3. m + 1 = p[n + 1]
    BY <1>8, <1>10, <1>16
  <2>4. \E x2, D, s, m3, n2 : m3 = m + 1 /\ n2 = n + 1 /\ s[n2] = m3 /\ Carries(k, f2, n2, A, m3, x2, D, s)
    <3>1. Carries(k, f, n, B, m, x, C, p)
      BY <1>3
    <3>2. Ends(k, f, n, B, m, x, C, p, A, f2)
      BY <1>11, <1>14, <1>15, <2>2, <2>3, <3>1, Zenon DEF Ends
    <3> QED BY <3>2, CarriesLast
  <2>5. PICK x2, D, s, n2 : s[n2] = m2 /\ Carries(k, f2, n2, A, m2, x2, D, s)
    BY <1>12, <2>4, Zenon
  <2>6. Unwritten(o2, y, n2, m2, x2, D, s)
    <3>1. o2 = <<>>
      BY <1>5, <1>16
    <3> QED BY <2>5, <3>1, Zenon DEF Unwritten
  <2>7. Stream(k, f2, q2, o2, y, FALSE, at, need, buf, a, g, c, w + 1, A, m2, n2, x2, D, s)
    BY <1>3, <1>13, <2>5, <2>6, Zenon DEF Stream
  <2> QED BY <1>2, <2>7, Zenon DEF OnStream
<1>17. CASE v # 0
  <2>1. f2 = f
    BY <1>1, <1>4, <1>17
  <2>2. m + 1 < p[n + 1]
    BY <1>4, <1>8, <1>10, <1>17
  <2>3. Carries(k, f, n, A, m2, x, C, p)
    BY <1>3, <1>11, <1>12, <1>14, <1>15, <2>2, CarriesMore
  <2>4. o2 # <<>>
    BY <1>5, <1>17
  <2>5. p[n] <= m2 /\ m2 + Len(o2) = p[n + 1]
    BY <1>4, <1>5, <1>8, <1>9, <1>10, <1>12
  <2>6. ASSUME NEW j \in 1..Len(o2) PROVE o2[j] = C[n][m2 - p[n] + j]
    <3>0. j \in 1..v /\ j \in Nat /\ j + 1 \in 1..(v + 1)
      BY <1>4, <1>5
    <3>1. m2 - p[n] + j = m - p[n] + (j + 1)
      <4>1. m \in Nat /\ p[n] \in Nat /\ j \in Nat
        BY <1>8, <1>9, <3>0
      <4>2. ASSUME NEW u \in Nat PROVE m2 - u + j = m - u + (j + 1)
        BY <1>12, <4>1
      <4> QED BY <4>1, <4>2, Zenon
    <3>2. o2[j] = o[j + 1]
      BY <1>5, <3>0
    <3>3. o[j + 1] = C[n][m - p[n] + (j + 1)]
      BY <1>10, <3>0
    <3> QED BY <3>1, <3>2, <3>3
  <2>7. Unwritten(o2, x, n, m2, x, C, p)
    BY <2>4, <2>5, <2>6, IsUnwritten
  <2>8. Unwritten(o2, y, n, m2, x, C, p)
    BY <1>10, <2>7
  <2>9. Stream(k, f2, q2, o2, y, FALSE, at, need, buf, a, g, c, w + 1, A, m2, n, x, C, p)
    BY <1>3, <1>13, <2>1, <2>3, <2>8, Zenon DEF Stream
  <2> QED BY <1>2, <2>9, Zenon DEF OnStream
<1> QED BY <1>16, <1>17

\* The first message on a stream: one in flight, or else the last.
LEMMA CarriesFirst ==
    ASSUME NEW k, NEW f, NEW n, NEW B, NEW m, NEW x, NEW C, NEW p, Carries(k, f, n, B, m, x, C, p)
    PROVE  \E z, l, d : /\ z \in Whole(k) /\ IsCode(k, z, l, C[1], d) /\ p[2] = d /\ d \in Nat \ {0}
                        /\ \A j \in 1..d : j <= m => B[j] = C[1][j]
                        /\ n = 1 => m < d
                        /\ n # 1 => z = f[1]
<1>1. n \in Nat \ {0} /\ m \in Nat /\ Layout(B, m, C, n, p)
  BY DEF Carries
<1>2. p[2] \in Nat \ {0} /\ \A j \in 1..p[2] : j <= m => B[j] = C[1][j]
  BY <1>1, LayoutFirst
<1>3. p[1] = 0 /\ m < p[n + 1]
  BY <1>1 DEF Layout
<1> DEFINE z == IF n = 1 THEN x ELSE f[1]
<1>4. Coded(k, z, C[1], p[1], p[2])
  <2>1. CASE n = 1
    <3>1. Coded(k, x, C[n], p[n], p[n + 1]) /\ n + 1 = 2
      BY <2>1 DEF Carries
    <3> QED BY <2>1, <3>1
  <2>2. CASE n # 1
    <3>1. 1 \in 1..(n - 1) /\ 1 + 1 = 2
      BY <1>1, <2>2
    <3>2. Coded(k, f[1], C[1], p[1], p[1 + 1])
      BY <3>1 DEF Carries
    <3> QED BY <2>2, <3>1, <3>2
  <2> QED BY <2>1, <2>2
<1>5. n = 1 => m < p[2]
  BY <1>3
<1>6. n # 1 => z = f[1]
  OBVIOUS
<1> HIDE DEF z
<1>7. PICK l, d : IsCode(k, z, l, C[1], d) /\ p[2] = p[1] + d
  BY <1>4, Zenon DEF Coded
<1>8. d \in Nat
  BY <1>7, Zenon DEF IsCode
<1>9. p[2] = d
  BY <1>3, <1>7, <1>8
<1>10. z \in Whole(k)
  BY <1>4, Zenon DEF Coded
<1>11. /\ z \in Whole(k) /\ IsCode(k, z, l, C[1], d) /\ p[2] = d /\ d \in Nat \ {0}
       /\ \A j \in 1..d : j <= m => B[j] = C[1][j]
       /\ n = 1 => m < d
       /\ n # 1 => z = f[1]
  BY <1>2, <1>5, <1>6, <1>7, <1>9, <1>10
<1> QED BY <1>11, Zenon

\* The reader takes a byte from the pipe.
LEMMA BytesTail ==
    ASSUME NEW g \in Seq(Nat), NEW c, NEW q, NEW w, NEW B, NEW m, Bytes(g, c, q, w, B, m), q # <<>>, c = Len(g)
    PROVE  /\ Head(q) \in Nat /\ m \in Nat /\ c + 1 <= m /\ c \in Nat /\ B[c + 1] = Head(q)
           /\ Bytes(Append(g, Head(q)), c + 1, Tail(q), w - 1, B, m)
<1> DEFINE b == Head(q)
           t == Tail(q)
           h == Append(g, b)
           v == w - 1
<1>1. /\ q \in Seq(Nat) /\ w \in Nat /\ w = Len(q) /\ c \in Nat /\ m = c + w
      /\ \A i \in 1..c : B[i] = g[i]
      /\ \A i \in 1..w : B[c + i] = q[i]
  BY DEF Bytes
<1>2. w # 0 /\ b = q[1] /\ b \in Nat
  BY <1>1
<1>3. t \in Seq(Nat) /\ Len(t) = v /\ \A i \in 1..v : t[i] = q[i + 1]
  BY <1>1, <1>2, HeadTailProperties
<1>4. h \in Seq(Nat) /\ Len(h) = c + 1 /\ h[c + 1] = b /\ \A i \in 1..c : h[i] = g[i]
  BY <1>2, AppendByte
<1>5. v \in Nat /\ v + 1 = w
  BY <1>1, <1>2
<1> HIDE DEF b, t, h, v
<1>6. m \in Nat /\ c + 1 <= m /\ c + 1 \in Nat /\ m = c + 1 + v
  <2>1. c \in Nat /\ m = c + w /\ w = v + 1 /\ v \in Nat
    BY <1>1, <1>5
  <2> QED BY <2>1
<1>7. B[c + 1] = b
  <2>1. 1 \in 1..w
    BY <1>1, <1>2
  <2> QED BY <1>1, <1>2, <2>1
<1>8. ASSUME NEW i \in 1..(c + 1) PROVE B[i] = h[i]
  <2>1. CASE i = c + 1
    BY <1>4, <1>7, <2>1
  <2>2. CASE i # c + 1
    <3>1. i \in 1..c
      BY <1>1, <2>2
    <3> QED BY <1>1, <1>4, <3>1
  <2> QED BY <2>1, <2>2
<1>9. ASSUME NEW i \in 1..v PROVE B[c + 1 + i] = t[i]
  <2>1. i + 1 \in 1..w /\ c + 1 + i = c + (i + 1)
    BY <1>1, <1>5
  <2>2. B[c + (i + 1)] = q[i + 1] /\ t[i] = q[i + 1]
    BY <1>1, <1>3, <2>1
  <2> QED BY <2>1, <2>2
<1>10. Bytes(h, c + 1, t, v, B, m)
  BY <1>3, <1>5, <1>6, <1>8, <1>9 DEF Bytes
<1> QED BY <1>1, <1>2, <1>6, <1>7, <1>10 DEF b, t, h, v

LEMMA StreamRead ==
    ASSUME kind \in {"control", "udp"}, NEW r, NEW f, NEW q, NEW o, NEW y, NEW broken,
           OnStream(kind, r, f, q, o, y, broken), q # <<>>, ~Complete(r)
    PROVE  OnStream(kind, Step(r, Head(q)), f, Tail(q), o, y, broken)
<1>1. PICK at, need, buf, a, g, c, w, B, m, n, x, C, p :
         /\ r = Reading(at, need, buf)
         /\ Stream(kind, f, q, o, y, broken, at, need, buf, a, g, c, w, B, m, n, x, C, p)
  BY Zenon DEF OnStream
<1>2. /\ Consumed(kind, at, need, buf, a, g, c) /\ Bytes(g, c, q, w, B, m)
      /\ Carries(kind, f, n, B, m, x, C, p)
  BY <1>1, Zenon DEF Stream
<1> DEFINE b == Head(q)
<1>3. g \in Seq(Nat) /\ c = Len(g)
  BY <1>2, Zenon DEF Consumed
<1>4. /\ b \in Nat /\ m \in Nat /\ c \in Nat /\ c + 1 <= m /\ B[c + 1] = b
      /\ Bytes(Append(g, b), c + 1, Tail(q), w - 1, B, m)
  BY <1>2, <1>3, BytesTail
<1> HIDE DEF b
<1>5. at = "body" => need # 0
  BY <1>1 DEF Complete, Reading
<1>6. ASSUME at = "length" PROVE /\ kind = "control" => b <= MAX_FRAME
                                 /\ kind = "udp" => b = 2
  <2>1. c = 0
    BY <1>2, <1>6 DEF Consumed
  <2>2. PICK z, l, d : /\ z \in Whole(kind) /\ IsCode(kind, z, l, C[1], d) /\ d \in Nat \ {0}
                       /\ \A j \in 1..d : j <= m => B[j] = C[1][j]
    BY <1>2, CarriesFirst
  <2>3. b = C[1][1]
    <3>1. 1 \in 1..d /\ 1 <= m /\ c + 1 = 1
      BY <1>4, <2>1, <2>2
    <3> QED BY <1>4, <2>2, <3>1
  <2>4. CASE kind = "control"
    <3>1. C[1][1] = l /\ l = Len(z)
      BY <2>2, <2>4 DEF IsCode
    <3>2. Len(z) <= MAX_FRAME
      BY <2>2, <2>4 DEF Whole
    <3> QED BY <2>3, <2>4, <3>1, <3>2
  <2>5. CASE kind = "udp"
    BY <2>2, <2>3, <2>5 DEF IsCode
  <2> QED BY <2>4, <2>5
<1>7. PICK at2, need2, buf2, a2 :
         /\ Step(Reading(at, need, buf), b) = Reading(at2, need2, buf2)
         /\ Consumed(kind, at2, need2, buf2, a2, Append(g, b), c + 1)
  BY <1>2, <1>4, <1>5, <1>6, StepConsumes
<1>8. Stream(kind, f, Tail(q), o, y, broken,
             at2, need2, buf2, a2, Append(g, b), c + 1, w - 1, B, m, n, x, C, p)
  BY <1>1, <1>4, <1>7, Zenon DEF Stream
<1>9. Step(r, Head(q)) = Reading(at2, need2, buf2)
  BY <1>1, <1>7 DEF b
<1> QED BY <1>8, <1>9, Zenon DEF OnStream

\* A complete message is the first in flight.
LEMMA StreamDeliver ==
    ASSUME NEW k \in {"control", "udp"}, NEW r, NEW f, NEW q, NEW o, NEW y, NEW broken,
           OnStream(k, r, f, q, o, y, broken), Complete(r), Len(o) \in Nat
    PROVE  f # <<>> /\ f \in Seq(Seq(Nat)) /\ r.buf = Head(f) /\ OnStream(k, Fresh, Tail(f), q, o, y, broken)
<1>1. PICK at, need, buf, a, g, c, w, B, m, n, x, C, p :
         /\ r = Reading(at, need, buf)
         /\ Stream(k, f, q, o, y, broken, at, need, buf, a, g, c, w, B, m, n, x, C, p)
  BY Zenon DEF OnStream
<1>2. /\ Consumed(k, at, need, buf, a, g, c) /\ Bytes(g, c, q, w, B, m)
      /\ Carries(k, f, n, B, m, x, C, p)
  BY <1>1, Zenon DEF Stream
<1>3. at = "body" /\ need = 0 /\ r.buf = buf
  BY <1>1 DEF Complete, Reading
<1>4. Consumed(k, "body", 0, buf, a, g, c)
  BY <1>2, <1>3
<1>5. /\ w \in Nat /\ c \in Nat /\ m = c + w /\ m \in Nat /\ c <= m
      /\ \A i \in 1..c : B[i] = g[i]
  BY <1>2 DEF Bytes
<1>6. PICK z, l, d : /\ z \in Whole(k) /\ IsCode(k, z, l, C[1], d) /\ p[2] = d /\ d \in Nat \ {0}
                     /\ \A j \in 1..d : j <= m => B[j] = C[1][j]
                     /\ n = 1 => m < d
                     /\ n # 1 => z = f[1]
  BY <1>2, CarriesFirst
<1>7. ASSUME NEW j \in 1..d, j <= c PROVE g[j] = C[1][j]
  <2>1. j \in 1..c /\ j <= m
    BY <1>5, <1>6, <1>7
  <2> QED BY <1>5, <1>6, <2>1
<1>8. buf = z /\ c = d
  <2>1. z \in Whole(k) /\ IsCode(k, z, l, C[1], d)
    BY <1>6
  <2>2. \A j \in 1..d : j <= c => g[j] = C[1][j]
    BY <1>7
  <2> QED BY <1>4, <2>1, <2>2, BodyIsMessage
<1>9. n # 1
  BY <1>5, <1>6, <1>8
<1>10. n \in Nat \ {0} /\ f \in Seq(Seq(Nat)) /\ Len(f) = n - 1 /\ Layout(B, m, C, n, p)
  BY <1>2 DEF Carries
<1>11. f # <<>> /\ r.buf = Head(f)
  <2>1. f # <<>>
    BY <1>9, <1>10
  <2> QED BY <1>3, <1>6, <1>8, <1>9, <1>10, <2>1
<1> DEFINE t == Tail(f)
<1>12. t \in Seq(Seq(Nat)) /\ Len(t) = n - 2 /\ \A i \in 1..(n - 2) : t[i] = f[i + 1]
  <2>1. n - 1 - 1 = n - 2
    BY <1>10
  <2>2. t \in Seq(Seq(Nat)) /\ Len(t) = Len(f) - 1 /\ \A i \in 1..(Len(f) - 1) : t[i] = f[i + 1]
    BY <1>10, <1>11, HeadTailProperties
  <2> QED BY <1>10, <2>1, <2>2
<1> HIDE DEF t
<1>13. c = p[2] /\ m = p[2] + w /\ \A j \in 1..w : q[j] = B[p[2] + j]
  <2>1. c = p[2]
    BY <1>6, <1>8
  <2>2. \A j \in 1..w : B[c + j] = q[j]
    BY <1>2 DEF Bytes
  <2> QED BY <1>5, <2>1, <2>2
<1>14. PICK D, s, n2 : /\ n2 = n - 1 /\ Carries(k, t, n2, q, w, x, D, s)
                       /\ s[n2] = p[n] - p[2] /\ s[n2 + 1] = p[n + 1] - p[2] /\ D[n2] = C[n]
  <2>1. Delivers(k, f, n, B, m, x, C, p, q, w, t)
    BY <1>2, <1>5, <1>9, <1>12, <1>13, Zenon DEF Delivers
  <2> QED BY <2>1, CarriesPop
<1>15. broken \/ Unwritten(o, y, n2, w, x, D, s)
  <2>1. SUFFICES ASSUME ~broken PROVE Unwritten(o, y, n2, w, x, D, s)
    OBVIOUS
  <2>2. Unwritten(o, y, n, m, x, C, p)
    BY <1>1, <2>1, Zenon DEF Stream
  <2>3. 2 \in 1..(n + 1) /\ n \in 1..(n + 1) /\ n + 1 \in 1..(n + 1) /\ 2 <= n
    BY <1>9, <1>10
  <2>4. p[n] \in Nat /\ p[n + 1] \in Nat /\ p[2] <= p[n]
    BY <1>10, <2>3 DEF Layout
  <2>5. p[2] \in Nat /\ w \in Nat /\ m = p[2] + w
    BY <1>5, <1>6, <1>13
  <2>6. Shifted(o, n, m, C, p, n2, w, D, s, p[2])
    BY <1>14, <2>4, <2>5, Zenon DEF Shifted
  <2> QED BY <2>2, <2>6, UnwrittenPop
<1>16. Consumed(k, "length", 1, <<>>, 0, <<>>, 0)
  BY DEF Consumed
<1>17. Bytes(<<>>, 0, q, w, q, w)
  <2>1. q \in Seq(Nat) /\ w = Len(q)
    BY <1>2 DEF Bytes
  <2> QED BY <1>5, <2>1 DEF Bytes
<1>18. Stream(k, t, q, o, y, broken, "length", 1, <<>>, 0, <<>>, 0, w, q, w, n2, x, D, s)
  BY <1>14, <1>15, <1>16, <1>17, Zenon DEF Stream
<1>19. Fresh = Reading("length", 1, <<>>)
  BY DEF Fresh, Reading
<1>20. OnStream(k, Fresh, t, q, o, y, broken)
  BY <1>18, <1>19, Zenon DEF OnStream
<1> QED BY <1>10, <1>11, <1>20 DEF t

-----------------------------------------------------------------------------
(* Messages in transit *)

LEMMA JoinEmpty ==
    ASSUME NEW S, NEW u \in Seq(S), NEW f \in Seq(S)
    PROVE  u \o f \in Seq(S) /\ u \o f \o <<>> = u \o f
BY ConcatProperties, ConcatEmptySeq

LEMMA JoinAppend ==
    ASSUME NEW S, NEW u \in Seq(S), NEW f \in Seq(S), NEW z \in S
    PROVE  /\ Append(u \o f \o <<>>, z) = u \o f \o <<z>>
           /\ u \o Append(f, z) \o <<>> = u \o f \o <<z>>
<1>1. <<z>> \in Seq(S) /\ u \o f \in Seq(S) /\ u \o f \o <<>> = u \o f
  BY JoinEmpty
<1>2. Append(u \o f, z) = u \o f \o <<z>> /\ Append(f, z) = f \o <<z>> /\ Append(f, z) \in Seq(S)
  BY <1>1, AppendIsConcat, AppendProperties
<1>3. u \o Append(f, z) = u \o f \o <<z>>
  <2>1. (u \o f) \o <<z>> = u \o (f \o <<z>>)
    BY <1>1, ConcatAssociative
  <2> QED BY <1>2, <2>1, Zenon
<1>4. u \o Append(f, z) \o <<>> = u \o Append(f, z)
  BY <1>2, JoinEmpty
<1> QED BY <1>1, <1>2, <1>3, <1>4

LEMMA FirstRest ==
    ASSUME NEW S, NEW f \in Seq(S), f # <<>>
    PROVE  /\ <<Head(f)>> \in Seq(S) /\ Tail(f) \in Seq(S) /\ Head(f) \in S
           /\ f = <<Head(f)>> \o Tail(f)
<1> DEFINE h == <<Head(f)>>
           t == Tail(f)
<1>1. Head(f) \in S /\ Head(f) = f[1] /\ Len(f) \in Nat \ {0}
  OBVIOUS
<1>2. h \in Seq(S) /\ Len(h) = 1 /\ h[1] = f[1]
  BY <1>1
<1>3. t \in Seq(S) /\ Len(t) = Len(f) - 1 /\ \A i \in 1..(Len(f) - 1) : t[i] = f[i + 1]
  BY HeadTailProperties
<1> HIDE DEF h, t
<1>4. /\ h \o t \in Seq(S) /\ Len(h \o t) = Len(h) + Len(t)
      /\ \A i \in 1..(Len(h) + Len(t)) : (h \o t)[i] = IF i <= Len(h) THEN h[i] ELSE t[i - Len(h)]
  <2>1. h \in Seq(S) /\ t \in Seq(S)
    BY <1>2, <1>3
  <2> QED BY <2>1, ConcatProperties, Zenon
<1>5. Len(h) + Len(t) = Len(f)
  BY <1>1, <1>2, <1>3
<1>6. ASSUME NEW i \in 1..Len(f) PROVE f[i] = (h \o t)[i]
  <2>1. CASE i = 1
    BY <1>2, <1>4, <1>5, <2>1
  <2>2. CASE i # 1
    <3>1. i - 1 \in 1..(Len(f) - 1) /\ i - 1 + 1 = i /\ ~(i <= 1)
      BY <1>1, <2>2
    <3>2. t[i - 1] = f[i]
      BY <1>3, <3>1
    <3> QED BY <1>2, <1>4, <1>5, <3>1, <3>2
  <2> QED BY <2>1, <2>2
<1>7. f = h \o t
  BY <1>4, <1>5, <1>6, SeqEqual
<1> QED BY <1>1, <1>2, <1>3, <1>7 DEF h, t

\* A message moves from the stream into the queue.
LEMMA JoinMoves ==
    ASSUME NEW S, NEW u \in Seq(S), NEW f \in Seq(S), NEW x \in Seq(S), f # <<>>
    PROVE  Append(u, Head(f)) \o Tail(f) \o x = u \o f \o x
<1> DEFINE h == <<Head(f)>>
           t == Tail(f)
<1>1. h \in Seq(S) /\ t \in Seq(S) /\ Head(f) \in S /\ f = h \o t
  BY FirstRest
<1>2. Append(u, Head(f)) = u \o h
  BY <1>1, AppendIsConcat
<1> HIDE DEF h, t
<1>3. (u \o h) \o t = u \o (h \o t)
  <2>1. h \in Seq(S) /\ t \in Seq(S)
    BY <1>1
  <2> QED BY <2>1, ConcatAssociative
<1> QED BY <1>1, <1>2, <1>3, Zenon DEF t

\* The first message of the queue is handled.
Continues(e, h, c) == c # <<>> /\ Head(c) = h /\ Tail(c) = e

LEMMA JoinTail ==
    ASSUME NEW S, NEW u \in Seq(S), NEW f \in Seq(S), NEW x \in Seq(S), u # <<>>
    PROVE  Continues(Tail(u) \o f \o x, Head(u), u \o f \o x)
<1> DEFINE h == <<Head(u)>>
           t == Tail(u)
           e == t \o f \o x
<1>1. h \in Seq(S) /\ t \in Seq(S) /\ Head(u) \in S /\ u = h \o t
  BY FirstRest
<1>2. t \o f \in Seq(S) /\ e \in Seq(S)
  BY <1>1, ConcatProperties
<1>3. u \o f \o x = h \o e
  <2>1. h \in Seq(S) /\ t \in Seq(S) /\ t \o f \in Seq(S)
    BY <1>1, <1>2
  <2> HIDE DEF h, t
  <2>2. (h \o t) \o f = h \o (t \o f)
    BY <2>1, ConcatAssociative
  <2>3. ASSUME NEW v \in Seq(S) PROVE (h \o v) \o x = h \o (v \o x)
    <3>1. h \in Seq(S)
      BY <2>1, Zenon
    <3> QED BY <3>1, ConcatAssociative
  <2>4. (h \o (t \o f)) \o x = h \o ((t \o f) \o x)
    BY <2>1, <2>3, Zenon
  <2> QED BY <1>1, <2>2, <2>4, Zenon
<1> HIDE DEF e
<1>4. h \o e # <<>> /\ Head(h \o e) = Head(u) /\ Tail(h \o e) = e
  BY <1>1, <1>2
<1> QED BY <1>3, <1>4, Zenon DEF e, t, Continues

\* What is lost when the connection breaks is the latest.
Prefix(a, c) == \E n \in 0..Len(c) : a = SubSeq(c, 1, n)

LEMMA ConcatPrefix ==
    ASSUME NEW S, NEW u \in Seq(S), NEW x \in Seq(S)
    PROVE  Prefix(u, u \o x)
<1>1. u \o x \in Seq(S) /\ Len(u \o x) = Len(u) + Len(x) /\ Len(u) \in Nat /\ Len(x) \in Nat
  BY ConcatProperties
<1>2. CASE u = <<>>
  <2>1. SubSeq(u \o x, 1, 0) = <<>> /\ 0 \in 0..Len(u \o x)
    BY <1>1
  <2> QED BY <1>2, <2>1 DEF Prefix
<1>3. CASE u # <<>>
  <2>1. 1 \in 1..Len(u) /\ Len(u) \in 1..Len(u) /\ Len(u) \in 0..Len(u \o x)
    BY <1>1, <1>3
  <2>2. SubSeq(u \o x, 1, Len(u)) = SubSeq(u, 1, Len(u))
    BY <2>1, SubSeqOfConcat1
  <2>3. SubSeq(u, 1, Len(u)) = u
    BY SubSeqFull
  <2> QED BY <2>1, <2>2, <2>3 DEF Prefix
<1> QED BY <1>2, <1>3

LEMMA JoinPrefix ==
    ASSUME NEW S, NEW u \in Seq(S), NEW f \in Seq(S), NEW x \in Seq(S)
    PROVE  /\ Prefix(u \o f \o <<>>, u \o f \o x)
           /\ Prefix(u \o <<>> \o <<>>, u \o f \o x)
           /\ Prefix(<<>> \o <<>> \o <<>>, u \o f \o x)
<1>1. /\ u \o f \o <<>> = u \o f /\ u \o <<>> \o <<>> = u /\ u \o f \in Seq(S)
      /\ f \o x \in Seq(S) /\ <<>> \in Seq(S) /\ <<>> \o <<>> \o <<>> = <<>>
  BY ConcatProperties, ConcatEmptySeq
<1>2. (u \o f) \o x = u \o (f \o x)
  BY ConcatAssociative
<1>3. Prefix(u \o f, u \o f \o x)
  BY <1>1, ConcatPrefix
<1>4. Prefix(u, u \o (f \o x))
  BY <1>1, ConcatPrefix
<1>5. <<>> \o (u \o f \o x) = u \o f \o x /\ u \o f \o x \in Seq(S)
  BY <1>1, ConcatProperties, ConcatEmptySeq
<1>6. Prefix(<<>>, <<>> \o (u \o f \o x))
  BY <1>1, <1>5, ConcatPrefix
<1> QED BY <1>1, <1>2, <1>3, <1>4, <1>5, <1>6, Zenon

Transit(u, f, o, y, broken) == u \o f \o (IF broken \/ o = <<>> THEN <<>> ELSE <<y>>)

\* One direction of a channel: its reader r, the messages f in flight, the pipe
\* q, the bytes o of message y that are not written, the queue u.
StreamOK(k, r, f, q, o, y, u, broken) ==
    /\ f \in Seq(Seq(Nat)) /\ \A i \in 1..Len(f) : f[i] \in Sendable(k)
    /\ q \in Seq(Nat) /\ o \in Seq(Nat) /\ y \in Seq(Nat) /\ u \in Seq(Seq(Nat))
    /\ o # <<>> => y \in Sendable(k)
    /\ r.at # "failed" => OnStream(k, r, f, q, o, y, broken)

\* Nothing is accepted and nothing handled.
Keeps(c2, c) == c2 = c

\* A message is accepted at the end, unless the connection is broken.
Accepts(c2, z, c, broken) == c2 = IF broken THEN c ELSE Append(c, z)

LEMMA OkWrite ==
    ASSUME NEW k \in {"control", "udp"}, NEW r, NEW f, NEW q, NEW y, NEW u, NEW broken \in BOOLEAN,
           StreamOK(k, r, f, q, <<>>, y, u, broken),
           NEW z \in Sendable(k), NEW l, NEW e, NEW d, IsCode(k, z, l, e, d)
    PROVE  /\ StreamOK(k, r, f, q, e, z, u, broken)
           /\ Accepts(Transit(u, f, e, z, broken), z, Transit(u, f, <<>>, y, broken), broken)
<1>1. z \in Whole(k) /\ z \in Seq(Nat)
  BY SendableWhole DEF Whole
<1>2. e \in Seq(Nat) /\ e # <<>>
  <2>1. d \in Nat \ {0} /\ e \in Seq(Nat) /\ Len(e) = d
    BY <1>1, CodeNotEmpty
  <2> QED BY <2>1
<1>3. r.at # "failed" => OnStream(k, r, f, q, e, z, broken)
  BY <1>1, StreamWrite DEF StreamOK
<1>4. StreamOK(k, r, f, q, e, z, u, broken)
  BY <1>1, <1>2, <1>3, Zenon DEF StreamOK
<1>5. u \in Seq(Seq(Nat)) /\ f \in Seq(Seq(Nat))
  BY Zenon DEF StreamOK
<1>6. Append(u \o f \o <<>>, z) = u \o f \o <<z>>
  BY <1>1, <1>5, JoinAppend
<1>7. CASE broken
  BY <1>4, <1>7, Zenon DEF Transit, Accepts
<1>8. CASE ~broken
  <2>1. Transit(u, f, e, z, broken) = u \o f \o <<z>>
    BY <1>2, <1>8, Zenon DEF Transit
  <2>2. Transit(u, f, <<>>, y, broken) = u \o f \o <<>>
    BY <1>8, Zenon DEF Transit
  <2> QED BY <1>4, <1>6, <1>8, <2>1, <2>2, Zenon DEF Accepts
<1> QED BY <1>7, <1>8

LEMMA LastByte ==
    ASSUME NEW o \in Seq(Nat), o # <<>>
    PROVE  Len(o) = 1 <=> Tail(o) = <<>>
<1> DEFINE t == Tail(o)
<1>1. t \in Seq(Nat) /\ Len(t) = Len(o) - 1
  BY HeadTailProperties
<1>2. Len(o) \in Nat
  OBVIOUS
<1> HIDE DEF t
<1>3. ASSUME t = <<>> PROVE Len(o) = 1
  <2>1. Len(t) = 0
    BY <1>3
  <2> QED BY <1>1, <1>2, <2>1
<1>4. ASSUME Len(o) = 1 PROVE t = <<>>
  <2>1. Len(t) = 0
    BY <1>1, <1>4
  <2> QED BY <1>1, <2>1
<1> QED BY <1>3, <1>4 DEF t

LEMMA OkFlush ==
    ASSUME NEW k \in {"control", "udp"}, NEW r, NEW f, NEW q, NEW o, NEW y, NEW u,
           StreamOK(k, r, f, q, o, y, u, FALSE), o # <<>>,
           NEW f2, f2 = IF Len(o) = 1 THEN Append(f, y) ELSE f
    PROVE  /\ StreamOK(k, r, f2, Append(q, Head(o)), Tail(o), y, u, FALSE)
           /\ Keeps(Transit(u, f2, Tail(o), y, FALSE), Transit(u, f, o, y, FALSE))
<1>1. /\ f \in Seq(Seq(Nat)) /\ q \in Seq(Nat) /\ o \in Seq(Nat) /\ y \in Seq(Nat)
      /\ u \in Seq(Seq(Nat)) /\ y \in Sendable(k)
  BY Zenon DEF StreamOK
<1>2. Append(q, Head(o)) \in Seq(Nat) /\ Tail(o) \in Seq(Nat)
  BY <1>1
<1>3. r.at # "failed" => OnStream(k, r, f2, Append(q, Head(o)), Tail(o), y, FALSE)
  <2>1. SUFFICES ASSUME r.at # "failed"
                 PROVE  OnStream(k, r, f2, Append(q, Head(o)), Tail(o), y, FALSE)
    OBVIOUS
  <2>2. OnStream(k, r, f, q, o, y, FALSE)
    BY <2>1, Zenon DEF StreamOK
  <2> QED BY <1>1, <2>2, StreamFlush
<1>4. f2 \in Seq(Seq(Nat)) /\ \A i \in 1..Len(f2) : f2[i] \in Sendable(k)
  <2>1. \A i \in 1..Len(f) : f[i] \in Sendable(k)
    BY Zenon DEF StreamOK
  <2>2. CASE Len(o) = 1
    <3>1. f2 = Append(f, y)
      BY <2>2
    <3>2. /\ f2 \in Seq(Seq(Nat)) /\ Len(f2) = Len(f) + 1 /\ f2[Len(f) + 1] = y /\ Len(f) \in Nat
          /\ \A i \in 1..Len(f) : f2[i] = f[i]
      BY <1>1, <3>1, AppendProperties
    <3>3. ASSUME NEW i \in 1..Len(f2) PROVE f2[i] \in Sendable(k)
      <4>1. i = Len(f) + 1 \/ i \in 1..Len(f)
        BY <3>2
      <4> QED BY <1>1, <2>1, <3>2, <4>1
    <3> QED BY <3>2, <3>3
  <2>3. CASE Len(o) # 1
    <3>1. f2 = f
      BY <2>3
    <3> QED BY <1>1, <2>1, <3>1
  <2> QED BY <2>2, <2>3
<1>5. StreamOK(k, r, f2, Append(q, Head(o)), Tail(o), y, u, FALSE)
  BY <1>1, <1>2, <1>3, <1>4, Zenon DEF StreamOK
<1>6. Transit(u, f, o, y, FALSE) = u \o f \o <<y>>
  BY Zenon DEF Transit
<1>7. CASE Len(o) = 1
  <2>0. Tail(o) = <<>>
    BY <1>1, <1>7, LastByte, Zenon
  <2>1. Tail(o) = <<>> /\ f2 = Append(f, y)
    BY <1>7, <2>0, Zenon
  <2>2. Transit(u, f2, Tail(o), y, FALSE) = u \o Append(f, y) \o <<>>
    BY <2>1, Zenon DEF Transit
  <2>3. u \o Append(f, y) \o <<>> = u \o f \o <<y>>
    <3> DEFINE S == Seq(Nat)
    <3>1. u \in Seq(S) /\ f \in Seq(S) /\ y \in S
      BY <1>1
    <3> HIDE DEF S
    <3> QED BY <3>1, JoinAppend
  <2> QED BY <1>5, <1>6, <2>2, <2>3, Zenon DEF Keeps
<1>8. CASE Len(o) # 1
  <2>0. Tail(o) # <<>>
    BY <1>1, <1>8, LastByte, Zenon
  <2>1. Tail(o) # <<>> /\ f2 = f
    BY <1>8, <2>0, Zenon
  <2>2. Transit(u, f2, Tail(o), y, FALSE) = u \o f \o <<y>>
    BY <2>1, Zenon DEF Transit
  <2> QED BY <1>5, <1>6, <2>2, Zenon DEF Keeps
<1> QED BY <1>7, <1>8

LEMMA OkRead ==
    ASSUME kind \in {"control", "udp"}, NEW r, NEW f, NEW q, NEW o, NEW y, NEW u, NEW broken,
           StreamOK(kind, r, f, q, o, y, u, broken), q # <<>>, r.at # "failed", ~Complete(r)
    PROVE  StreamOK(kind, Step(r, Head(q)), f, Tail(q), o, y, u, broken)
<1>1. OnStream(kind, r, f, q, o, y, broken)
  BY Zenon DEF StreamOK
<1>2. OnStream(kind, Step(r, Head(q)), f, Tail(q), o, y, broken)
  BY <1>1, StreamRead
<1>3. Tail(q) \in Seq(Nat)
  BY DEF StreamOK
<1> QED BY <1>2, <1>3, Zenon DEF StreamOK

LEMMA OkDeliver ==
    ASSUME NEW k \in {"control", "udp"}, NEW r, NEW f, NEW q, NEW o, NEW y, NEW u, NEW broken \in BOOLEAN,
           StreamOK(k, r, f, q, o, y, u, broken), Complete(r)
    PROVE  /\ r.buf \in Sendable(k)
           /\ StreamOK(k, Fresh, Tail(f), q, o, y, Append(u, r.buf), broken)
           /\ Keeps(Transit(Append(u, r.buf), Tail(f), o, y, broken), Transit(u, f, o, y, broken))
<1>1. /\ f \in Seq(Seq(Nat)) /\ q \in Seq(Nat) /\ o \in Seq(Nat) /\ y \in Seq(Nat)
      /\ u \in Seq(Seq(Nat)) /\ (o # <<>> => y \in Sendable(k))
      /\ \A i \in 1..Len(f) : f[i] \in Sendable(k)
  BY Zenon DEF StreamOK
<1>2. r.at # "failed" /\ Len(o) \in Nat
  BY <1>1 DEF Complete
<1>3. OnStream(k, r, f, q, o, y, broken)
  BY <1>2, Zenon DEF StreamOK
<1>4. f # <<>> /\ r.buf = Head(f) /\ OnStream(k, Fresh, Tail(f), q, o, y, broken)
  BY <1>2, <1>3, StreamDeliver
<1> DEFINE t == Tail(f)
           h == Head(f)
<1>5. h \in Sendable(k) /\ h \in Seq(Nat)
  <2>1. 1 \in 1..Len(f) /\ h = f[1]
    BY <1>1, <1>4
  <2> QED BY <1>1, <2>1
<1>6. t \in Seq(Seq(Nat)) /\ \A i \in 1..Len(t) : t[i] \in Sendable(k)
  <2>1. t \in Seq(Seq(Nat)) /\ Len(t) = Len(f) - 1 /\ Len(f) \in Nat /\ \A i \in 1..Len(t) : t[i] = f[i + 1]
    BY <1>1, <1>4, HeadTailProperties
  <2>2. ASSUME NEW i \in 1..Len(t) PROVE i + 1 \in 1..Len(f)
    BY <2>1
  <2> QED BY <1>1, <2>1, <2>2
<1>7. Append(u, h) \in Seq(Seq(Nat))
  BY <1>1, <1>5
<1>8. StreamOK(k, Fresh, t, q, o, y, Append(u, h), broken)
  BY <1>1, <1>4, <1>6, <1>7, Zenon DEF StreamOK
<1> DEFINE x == IF broken \/ o = <<>> THEN <<>> ELSE <<y>>
<1>9. x \in Seq(Seq(Nat))
  BY <1>1
<1>10. Append(u, h) \o t \o x = u \o f \o x
  <2> DEFINE S == Seq(Nat)
  <2>1. u \in Seq(S) /\ f \in Seq(S) /\ x \in Seq(S) /\ f # <<>>
    BY <1>1, <1>4, <1>9
  <2> HIDE DEF x, S
  <2> QED BY <2>1, JoinMoves
<1>11. Transit(Append(u, h), t, o, y, broken) = Transit(u, f, o, y, broken)
  BY <1>10, Zenon DEF Transit
<1> QED BY <1>4, <1>5, <1>8, <1>11, Zenon DEF Keeps

LEMMA OkHandle ==
    ASSUME NEW k, NEW r, NEW f, NEW q, NEW o, NEW y, NEW u, NEW broken \in BOOLEAN,
           StreamOK(k, r, f, q, o, y, u, broken), u # <<>>
    PROVE  /\ StreamOK(k, r, f, q, o, y, Tail(u), broken)
           /\ Continues(Transit(Tail(u), f, o, y, broken), Head(u), Transit(u, f, o, y, broken))
<1>1. f \in Seq(Seq(Nat)) /\ y \in Seq(Nat) /\ u \in Seq(Seq(Nat))
  BY Zenon DEF StreamOK
<1>2. Tail(u) \in Seq(Seq(Nat))
  BY <1>1
<1>3. StreamOK(k, r, f, q, o, y, Tail(u), broken)
  BY <1>2, Zenon DEF StreamOK
<1> DEFINE x == IF broken \/ o = <<>> THEN <<>> ELSE <<y>>
<1>4. x \in Seq(Seq(Nat))
  BY <1>1
<1>5. Continues(Tail(u) \o f \o x, Head(u), u \o f \o x)
  <2> DEFINE S == Seq(Nat)
  <2>1. u \in Seq(S) /\ f \in Seq(S) /\ x \in Seq(S)
    BY <1>1, <1>4
  <2> HIDE DEF x, S
  <2> QED BY <2>1, JoinTail, Zenon
<1>6. Transit(u, f, o, y, broken) = u \o f \o x /\ Transit(Tail(u), f, o, y, broken) = Tail(u) \o f \o x
  BY Zenon DEF Transit
<1> QED BY <1>3, <1>5, <1>6, Zenon

\* The connection breaks, or the writer gives up on a broken one: of the pipe a
\* prefix z is left; the reader goes on, or it has failed and its messages are
\* gone, or its loop has ended and what it queued is gone too.
Broken(k, r, f, o, y, u, broken, o2, z) ==
    /\ StreamOK(k, r, f, z, o2, y, u, TRUE)
    /\ Prefix(Transit(u, f, o2, y, TRUE), Transit(u, f, o, y, broken))
    /\ StreamOK(k, Failed, <<>>, z, o2, y, u, TRUE)
    /\ Prefix(Transit(u, <<>>, o2, y, TRUE), Transit(u, f, o, y, broken))
    /\ StreamOK(k, Failed, <<>>, <<>>, o2, y, <<>>, TRUE)
    /\ Prefix(Transit(<<>>, <<>>, o2, y, TRUE), Transit(u, f, o, y, broken))

Loses(o, q, o2, z) ==
    o2 \in {o, <<>>} /\ \E v \in 0..Len(q) : z = SubSeq(q, 1, v)

LEMMA OkBreak ==
    ASSUME NEW k \in {"control", "udp"}, NEW r, NEW f, NEW q, NEW o, NEW y, NEW u, NEW broken \in BOOLEAN,
           StreamOK(k, r, f, q, o, y, u, broken), NEW o2, NEW z, Loses(o, q, o2, z)
    PROVE  Broken(k, r, f, o, y, u, broken, o2, z)
<1>0. PICK v \in 0..Len(q) : z = SubSeq(q, 1, v)
  BY Zenon DEF Loses
<1>1. /\ f \in Seq(Seq(Nat)) /\ q \in Seq(Nat) /\ o \in Seq(Nat) /\ y \in Seq(Nat)
      /\ u \in Seq(Seq(Nat)) /\ (o # <<>> => y \in Sendable(k))
      /\ \A i \in 1..Len(f) : f[i] \in Sendable(k)
  BY Zenon DEF StreamOK
<1>2. z \in Seq(Nat) /\ Len(z) = v /\ v <= Len(q) /\ v \in Nat /\ \A i \in 1..v : z[i] = q[i]
  BY <1>0, <1>1
<1>3. o2 \in Seq(Nat) /\ (o2 # <<>> => y \in Sendable(k))
  <2>1. o2 = o \/ o2 = <<>>
    BY Zenon DEF Loses
  <2>2. <<>> \in Seq(Nat)
    OBVIOUS
  <2> QED BY <1>1, <2>1, <2>2, Zenon
<1>4. r.at # "failed" => OnStream(k, r, f, z, o2, y, TRUE)
  <2>1. SUFFICES ASSUME r.at # "failed" PROVE OnStream(k, r, f, z, o2, y, TRUE)
    OBVIOUS
  <2>2. OnStream(k, r, f, q, o, y, broken)
    BY <2>1, Zenon DEF StreamOK
  <2> QED BY <1>2, <2>2, StreamCut
<1>5. StreamOK(k, r, f, z, o2, y, u, TRUE)
  BY <1>1, <1>2, <1>3, <1>4, Zenon DEF StreamOK
<1>6. <<>> \in Seq(Seq(Nat)) /\ <<>> \in Seq(Nat) /\ \A i \in 1..Len(<<>>) : <<>>[i] \in Sendable(k)
  OBVIOUS
<1>7. ~(Failed.at # "failed")
  BY DEF Failed
<1>8. StreamOK(k, Failed, <<>>, z, o2, y, u, TRUE)
  BY <1>1, <1>2, <1>3, <1>6, <1>7, Zenon DEF StreamOK
<1>9. StreamOK(k, Failed, <<>>, <<>>, o2, y, <<>>, TRUE)
  BY <1>1, <1>3, <1>6, <1>7, Zenon DEF StreamOK
<1> DEFINE x == IF broken \/ o = <<>> THEN <<>> ELSE <<y>>
<1>10. x \in Seq(Seq(Nat))
  BY <1>1
<1>11. Transit(u, f, o, y, broken) = u \o f \o x
  BY Zenon DEF Transit
<1>12. \A a, c : Transit(a, c, o2, y, TRUE) = a \o c \o <<>>
  BY Zenon DEF Transit
<1> HIDE DEF x
<1>13. /\ Prefix(u \o f \o <<>>, u \o f \o x)
       /\ Prefix(u \o <<>> \o <<>>, u \o f \o x)
       /\ Prefix(<<>> \o <<>> \o <<>>, u \o f \o x)
  BY <1>1, <1>10, JoinPrefix
<1>14. /\ Prefix(Transit(u, f, o2, y, TRUE), Transit(u, f, o, y, broken))
       /\ Prefix(Transit(u, <<>>, o2, y, TRUE), Transit(u, f, o, y, broken))
       /\ Prefix(Transit(<<>>, <<>>, o2, y, TRUE), Transit(u, f, o, y, broken))
  BY <1>11, <1>12, <1>13, Zenon
<1> QED BY <1>5, <1>8, <1>9, <1>14, Zenon DEF Broken

-----------------------------------------------------------------------------
(* The invariant, and what a step does to one direction *)

OnSides(f) == f = [s \in Sides |-> f[s]]

SideOK(s) == StreamOK(kind, rd[s], flight[s], pipe[s], out[s], sent[s], queue[s], cut)

TypeOK ==
    /\ kind \in {"control", "udp"} /\ cut \in BOOLEAN
    /\ OnSides(sent) /\ OnSides(out) /\ OnSides(pipe) /\ OnSides(rd)
    /\ OnSides(queue) /\ OnSides(last) /\ OnSides(flight)

IndInv == TypeOK /\ \A s \in Sides : SideOK(s)

\* A step of Fifo, or none.
Moved(y, c, l, b, y2, c2, l2, b2) ==
    \/ y2 = y /\ c2 = c /\ l2 = l /\ b2 = b
    \/ y2 \in Arriving /\ Accepts(c2, y2, c, b) /\ l2 = l /\ b2 = b
    \/ y2 = y /\ Continues(c2, l2, c) /\ b2 = b
    \/ y2 = y /\ Prefix(c2, c) /\ l2 = l /\ b2 = TRUE

Moves(s) ==
    Moved(sent[s], Transit(queue[s], flight[s], out[s], sent[s], cut), last[s], cut,
          sent'[s], Transit(queue'[s], flight'[s], out'[s], sent'[s], cut'), last'[s], cut')

SideSteps(s) == SideOK(s)' /\ Moves(s)

Updates(f, s, v, g) == OnSides(g) /\ g[s] = v /\ \A t \in Sides : t # s => g[t] = f[t]

LEMMA Updated ==
    ASSUME NEW f, OnSides(f), NEW s \in Sides, NEW v
    PROVE  Updates(f, s, v, [f EXCEPT ![s] = v])
BY DEF OnSides, Updates, Sides

LEMMA Unmoved ==
    ASSUME NEW t \in Sides, SideOK(t), kind' = kind, cut' = cut, rd'[t] = rd[t],
           flight'[t] = flight[t], pipe'[t] = pipe[t], out'[t] = out[t], sent'[t] = sent[t],
           queue'[t] = queue[t], last'[t] = last[t]
    PROVE  SideSteps(t)
<1>1. SideOK(t)'
  BY Zenon DEF SideOK
<1>2. Moves(t)
  BY Zenon DEF Moves, Moved
<1> QED BY <1>1, <1>2 DEF SideSteps

LEMMA ReceivedSendable ==
    ASSUME kind \in {"control", "udp"}, NEW m \in Messages, kind = "control" => Len(m) <= MAX_FRAME
    PROVE  Received(m) \in Sendable(kind) /\ Received(m) \in Arriving
<1>1. CASE kind = "control"
  BY <1>1 DEF Received, Sendable, Messages, Arriving
<1>2. CASE kind = "udp"
  BY <1>2 DEF Received, Sendable, Messages, Arriving
<1> QED BY <1>1, <1>2

LEMMA SendableReceived ==
    ASSUME kind \in {"control", "udp"}
    PROVE  Sendable(kind) \subseteq {Received(m) : m \in Messages}
<1>1. CASE kind = "control"
  BY <1>1 DEF Received, Sendable, Messages
<1>2. CASE kind = "udp"
  BY <1>2 DEF Received, Sendable, Messages
<1> QED BY <1>1, <1>2

\* A step of one direction.
LEMMA StepOne ==
    ASSUME TypeOK', NEW s \in Sides, SideSteps(s), \A t \in Sides : t # s => SideSteps(t)
    PROVE  IndInv' /\ \A t \in Sides : Moves(t)
<1>1. \A t \in Sides : SideOK(t)' /\ Moves(t)
  BY Zenon DEF SideSteps
<1> QED BY <1>1 DEF IndInv

LEMMA WriteStep ==
    ASSUME IndInv, NEW s \in Sides, NEW m \in Messages, Write(s, m)
    PROVE  IndInv' /\ \A t \in Sides : Moves(t)
<1> DEFINE z == Received(m)
           e == Encode(z)
<1>1. TypeOK /\ SideOK(s) /\ \A t \in Sides : SideOK(t)
  BY DEF IndInv
<1>2. z \in Sendable(kind) /\ z \in Arriving
  <2>1. kind = "control" => Len(m) <= MAX_FRAME
    BY Zenon DEF Write
  <2> QED BY <1>1, <2>1, ReceivedSendable DEF TypeOK
<1>3. IsCode(kind, z, Len(z), e, Len(e))
  <2>1. kind \in {"control", "udp"} /\ z \in Whole(kind)
    BY <1>1, <1>2, SendableWhole DEF TypeOK
  <2> HIDE DEF z
  <2> QED BY <2>1, EncodeIsCode
<1>4. /\ out[s] = <<>> /\ out' = [out EXCEPT ![s] = e] /\ sent' = [sent EXCEPT ![s] = z]
      /\ UNCHANGED <<kind, pipe, rd, queue, last, cut, flight>>
  BY Zenon DEF Write
<1> HIDE DEF e, z
<1>5. /\ OnSides(out') /\ out'[s] = e /\ (\A t \in Sides : t # s => out'[t] = out[t])
      /\ OnSides(sent') /\ sent'[s] = z /\ (\A t \in Sides : t # s => sent'[t] = sent[t])
  <2>1. OnSides(out) /\ OnSides(sent)
    BY <1>1, Zenon DEF TypeOK
  <2>2. Updates(out, s, e, out') /\ Updates(sent, s, z, sent')
    BY <1>4, <2>1, Updated, Zenon
  <2> QED BY <2>2, Zenon DEF Updates
<1>6. TypeOK'
  <2>1. /\ kind' = kind /\ cut' = cut /\ pipe' = pipe /\ rd' = rd /\ queue' = queue
        /\ last' = last /\ flight' = flight
    BY <1>4
  <2> QED BY <1>1, <1>5, <2>1, Zenon DEF TypeOK
<1>7. /\ StreamOK(kind, rd[s], flight[s], pipe[s], e, z, queue[s], cut)
      /\ Accepts(Transit(queue[s], flight[s], e, z, cut), z,
                 Transit(queue[s], flight[s], <<>>, sent[s], cut), cut)
  <2>1. StreamOK(kind, rd[s], flight[s], pipe[s], <<>>, sent[s], queue[s], cut)
    BY <1>1, <1>4, Zenon DEF SideOK
  <2>2. kind \in {"control", "udp"} /\ cut \in BOOLEAN
    BY <1>1 DEF TypeOK
  <2>3. z \in Sendable(kind)
    BY <1>2
  <2> QED BY <1>3, <2>1, <2>2, <2>3, OkWrite
<1>8. SideSteps(s)
  <2>1. SideOK(s)'
    BY <1>4, <1>5, <1>7, Zenon DEF SideOK
  <2>2. Moves(s)
    BY <1>2, <1>4, <1>5, <1>7, Zenon DEF Moves, Moved
  <2> QED BY <2>1, <2>2 DEF SideSteps
<1>9. ASSUME NEW t \in Sides, t # s PROVE SideSteps(t)
  BY <1>1, <1>4, <1>5, <1>9, Unmoved
<1> QED BY <1>6, <1>8, <1>9, StepOne

LEMMA FlushStep ==
    ASSUME IndInv, NEW s \in Sides, Flush(s)
    PROVE  IndInv' /\ \A t \in Sides : Moves(t)
<1> DEFINE o == out[s]
           q2 == Append(pipe[s], Head(o))
           f2 == IF Len(o) = 1 THEN Append(flight[s], sent[s]) ELSE flight[s]
<1>1. TypeOK /\ SideOK(s) /\ \A t \in Sides : SideOK(t)
  BY DEF IndInv
<1>2. /\ cut = FALSE /\ o # <<>> /\ pipe' = [pipe EXCEPT ![s] = q2]
      /\ out' = [out EXCEPT ![s] = Tail(o)] /\ flight' = [flight EXCEPT ![s] = f2]
  BY <1>1 DEF Flush, TypeOK
<1>3. /\ kind' = kind /\ cut' = cut /\ sent' = sent /\ rd' = rd /\ queue' = queue /\ last' = last
  BY DEF Flush
<1>4. /\ StreamOK(kind, rd[s], f2, q2, Tail(o), sent[s], queue[s], FALSE)
      /\ Keeps(Transit(queue[s], f2, Tail(o), sent[s], FALSE), Transit(queue[s], flight[s], o, sent[s], FALSE))
  <2>1. StreamOK(kind, rd[s], flight[s], pipe[s], o, sent[s], queue[s], FALSE)
    BY <1>1, <1>2, Zenon DEF SideOK
  <2>2. kind \in {"control", "udp"} /\ o # <<>>
    BY <1>1, <1>2 DEF TypeOK
  <2>3. f2 = IF Len(o) = 1 THEN Append(flight[s], sent[s]) ELSE flight[s]
    OBVIOUS
  <2> HIDE DEF o, f2
  <2> QED BY <2>1, <2>2, <2>3, OkFlush, Zenon DEF q2
<1>5. o = out[s]
  OBVIOUS
<1> HIDE DEF o, q2, f2
<1>6. Updates(pipe, s, q2, pipe') /\ Updates(out, s, Tail(o), out') /\ Updates(flight, s, f2, flight')
  <2>1. OnSides(pipe) /\ OnSides(out) /\ OnSides(flight)
    BY <1>1, Zenon DEF TypeOK
  <2> QED BY <1>2, <2>1, Updated, Zenon
<1>7. TypeOK'
  BY <1>1, <1>3, <1>6, Zenon DEF TypeOK, Updates
<1>8. SideSteps(s)
  <2>1. pipe'[s] = q2 /\ out'[s] = Tail(o) /\ flight'[s] = f2 /\ cut' = FALSE
    BY <1>2, <1>3, <1>6, Zenon DEF Updates
  <2>2. SideOK(s)'
    BY <1>3, <1>4, <2>1, Zenon DEF SideOK
  <2>3. Moves(s)
    BY <1>2, <1>3, <1>4, <1>5, <2>1, Zenon DEF Moves, Moved, Keeps
  <2> QED BY <2>2, <2>3 DEF SideSteps
<1>9. ASSUME NEW t \in Sides, t # s PROVE SideSteps(t)
  <2>1. pipe'[t] = pipe[t] /\ out'[t] = out[t] /\ flight'[t] = flight[t]
    BY <1>6, <1>9, Zenon DEF Updates
  <2> QED BY <1>1, <1>3, <2>1, Unmoved
<1> QED BY <1>7, <1>8, <1>9, StepOne

LEMMA ReadStep ==
    ASSUME IndInv, NEW s \in Sides, Read(s)
    PROVE  IndInv' /\ \A t \in Sides : Moves(t)
<1> DEFINE r2 == Step(rd[s], Head(pipe[s]))
           q2 == Tail(pipe[s])
<1>1. TypeOK /\ SideOK(s) /\ \A t \in Sides : SideOK(t)
  BY DEF IndInv
<1>2. /\ pipe[s] # <<>> /\ rd[s].at # "failed" /\ ~Complete(rd[s])
      /\ rd' = [rd EXCEPT ![s] = r2] /\ pipe' = [pipe EXCEPT ![s] = q2]
  BY Zenon DEF Read, CanRead
<1>3. /\ kind' = kind /\ cut' = cut /\ sent' = sent /\ out' = out /\ queue' = queue /\ last' = last
      /\ flight' = flight
  BY DEF Read
<1>4. StreamOK(kind, r2, flight[s], q2, out[s], sent[s], queue[s], cut)
  <2>1. StreamOK(kind, rd[s], flight[s], pipe[s], out[s], sent[s], queue[s], cut)
    BY <1>1, Zenon DEF SideOK
  <2>2. kind \in {"control", "udp"}
    BY <1>1 DEF TypeOK
  <2> QED BY <1>2, <2>1, <2>2, OkRead, Zenon
<1> HIDE DEF r2, q2
<1>5. Updates(pipe, s, q2, pipe') /\ Updates(rd, s, r2, rd')
  <2>1. OnSides(pipe) /\ OnSides(rd)
    BY <1>1, Zenon DEF TypeOK
  <2> QED BY <1>2, <2>1, Updated, Zenon
<1>6. TypeOK'
  BY <1>1, <1>3, <1>5, Zenon DEF TypeOK, Updates
<1>7. SideSteps(s)
  <2>1. pipe'[s] = q2 /\ rd'[s] = r2
    BY <1>5, Zenon DEF Updates
  <2>2. SideOK(s)'
    BY <1>3, <1>4, <2>1, Zenon DEF SideOK
  <2>3. Moves(s)
    BY <1>3, Zenon DEF Moves, Moved
  <2> QED BY <2>2, <2>3 DEF SideSteps
<1>8. ASSUME NEW t \in Sides, t # s PROVE SideSteps(t)
  <2>1. pipe'[t] = pipe[t] /\ rd'[t] = rd[t]
    BY <1>5, <1>8, Zenon DEF Updates
  <2> QED BY <1>1, <1>3, <2>1, Unmoved
<1> QED BY <1>6, <1>7, <1>8, StepOne

\* Nothing that arrives is refused by its reader.
LEMMA DeliverStep ==
    ASSUME IndInv, NEW s \in Sides, Deliver(s)
    PROVE  IndInv' /\ \A t \in Sides : Moves(t)
<1> DEFINE u2 == Append(queue[s], rd[s].buf)
           f2 == Tail(flight[s])
<1>1. TypeOK /\ SideOK(s) /\ \A t \in Sides : SideOK(t)
  BY DEF IndInv
<1>2. /\ rd[s].buf \in Sendable(kind)
      /\ StreamOK(kind, Fresh, f2, pipe[s], out[s], sent[s], u2, cut)
      /\ Keeps(Transit(u2, f2, out[s], sent[s], cut), Transit(queue[s], flight[s], out[s], sent[s], cut))
  <2>1. StreamOK(kind, rd[s], flight[s], pipe[s], out[s], sent[s], queue[s], cut)
    BY <1>1, Zenon DEF SideOK
  <2>2. kind \in {"control", "udp"} /\ cut \in BOOLEAN
    BY <1>1 DEF TypeOK
  <2>3. Complete(rd[s])
    BY Zenon DEF Deliver
  <2> QED BY <2>1, <2>2, <2>3, OkDeliver, Zenon
<1>3. rd[s].buf \in {Received(m) : m \in Messages}
  <2>1. kind \in {"control", "udp"}
    BY <1>1 DEF TypeOK
  <2>2. rd[s].buf \in Sendable(kind)
    BY <1>2, Zenon
  <2>3. Sendable(kind) \subseteq {Received(m) : m \in Messages}
    BY <2>1, SendableReceived
  <2> QED BY <2>2, <2>3, Zenon
<1>4. /\ queue' = [queue EXCEPT ![s] = u2] /\ rd' = [rd EXCEPT ![s] = Fresh]
      /\ flight' = [flight EXCEPT ![s] = f2]
  BY <1>3, Zenon DEF Deliver
<1>5. /\ kind' = kind /\ cut' = cut /\ sent' = sent /\ out' = out /\ pipe' = pipe /\ last' = last
  BY DEF Deliver
<1> HIDE DEF u2, f2
<1>6. Updates(queue, s, u2, queue') /\ Updates(rd, s, Fresh, rd') /\ Updates(flight, s, f2, flight')
  <2>1. OnSides(queue) /\ OnSides(rd) /\ OnSides(flight)
    BY <1>1, Zenon DEF TypeOK
  <2> QED BY <1>4, <2>1, Updated, Zenon
<1>7. TypeOK'
  BY <1>1, <1>5, <1>6, Zenon DEF TypeOK, Updates
<1>8. SideSteps(s)
  <2>1. queue'[s] = u2 /\ rd'[s] = Fresh /\ flight'[s] = f2
    BY <1>6, Zenon DEF Updates
  <2>2. SideOK(s)'
    BY <1>2, <1>5, <2>1, Zenon DEF SideOK
  <2>3. Moves(s)
    BY <1>2, <1>5, <2>1, Zenon DEF Moves, Moved, Keeps
  <2> QED BY <2>2, <2>3 DEF SideSteps
<1>9. ASSUME NEW t \in Sides, t # s PROVE SideSteps(t)
  <2>1. queue'[t] = queue[t] /\ rd'[t] = rd[t] /\ flight'[t] = flight[t]
    BY <1>6, <1>9, Zenon DEF Updates
  <2> QED BY <1>1, <1>5, <2>1, Unmoved
<1> QED BY <1>7, <1>8, <1>9, StepOne

LEMMA HandleStep ==
    ASSUME IndInv, NEW s \in Sides, Handle(s)
    PROVE  IndInv' /\ \A t \in Sides : Moves(t)
<1> DEFINE u2 == Tail(queue[s])
           l2 == Head(queue[s])
<1>1. TypeOK /\ SideOK(s) /\ \A t \in Sides : SideOK(t)
  BY DEF IndInv
<1>2. /\ queue[s] # <<>> /\ last' = [last EXCEPT ![s] = l2] /\ queue' = [queue EXCEPT ![s] = u2]
  BY Zenon DEF Handle
<1>3. /\ kind' = kind /\ cut' = cut /\ sent' = sent /\ out' = out /\ pipe' = pipe /\ rd' = rd
      /\ flight' = flight
  BY DEF Handle
<1>4. /\ StreamOK(kind, rd[s], flight[s], pipe[s], out[s], sent[s], u2, cut)
      /\ Continues(Transit(u2, flight[s], out[s], sent[s], cut), l2,
                   Transit(queue[s], flight[s], out[s], sent[s], cut))
  <2>1. StreamOK(kind, rd[s], flight[s], pipe[s], out[s], sent[s], queue[s], cut)
    BY <1>1, Zenon DEF SideOK
  <2>2. cut \in BOOLEAN
    BY <1>1 DEF TypeOK
  <2> QED BY <1>2, <2>1, <2>2, OkHandle, Zenon
<1> HIDE DEF u2, l2
<1>5. Updates(queue, s, u2, queue') /\ Updates(last, s, l2, last')
  <2>1. OnSides(queue) /\ OnSides(last)
    BY <1>1, Zenon DEF TypeOK
  <2> QED BY <1>2, <2>1, Updated, Zenon
<1>6. TypeOK'
  BY <1>1, <1>3, <1>5, Zenon DEF TypeOK, Updates
<1>7. SideSteps(s)
  <2>1. queue'[s] = u2 /\ last'[s] = l2
    BY <1>5, Zenon DEF Updates
  <2>2. SideOK(s)'
    BY <1>3, <1>4, <2>1, Zenon DEF SideOK
  <2>3. Moves(s)
    BY <1>3, <1>4, <2>1, Zenon DEF Moves, Moved
  <2> QED BY <2>2, <2>3 DEF SideSteps
<1>8. ASSUME NEW t \in Sides, t # s PROVE SideSteps(t)
  <2>1. queue'[t] = queue[t] /\ last'[t] = last[t]
    BY <1>5, <1>8, Zenon DEF Updates
  <2> QED BY <1>1, <1>3, <2>1, Unmoved
<1> QED BY <1>6, <1>7, <1>8, StepOne

\* One direction breaks.
LEMMA BreakOne ==
    ASSUME NEW t \in Sides, TypeOK, SideOK(t), kind' = kind, cut' = TRUE,
           sent'[t] = sent[t], last'[t] = last[t], out'[t] \in {out[t], <<>>},
           NEW v \in 0..Len(pipe[t]), NEW z, z = SubSeq(pipe[t], 1, v),
           \/ /\ pipe'[t] = z /\ rd'[t] = rd[t] /\ flight'[t] = flight[t] /\ queue'[t] = queue[t]
           \/ /\ pipe'[t] = z /\ rd'[t] = Failed /\ flight'[t] = <<>> /\ queue'[t] = queue[t]
           \/ /\ pipe'[t] = <<>> /\ rd'[t] = Failed /\ flight'[t] = <<>> /\ queue'[t] = <<>>
    PROVE  SideSteps(t)
<1>1. Broken(kind, rd[t], flight[t], out[t], sent[t], queue[t], cut, out'[t], z)
  <2>1. StreamOK(kind, rd[t], flight[t], pipe[t], out[t], sent[t], queue[t], cut)
    BY Zenon DEF SideOK
  <2>2. kind \in {"control", "udp"} /\ cut \in BOOLEAN
    BY DEF TypeOK
  <2>3. Loses(out[t], pipe[t], out'[t], z)
    BY Zenon DEF Loses
  <2> QED BY <2>1, <2>2, <2>3, OkBreak
<1>2. CASE /\ pipe'[t] = z /\ rd'[t] = rd[t] /\ flight'[t] = flight[t] /\ queue'[t] = queue[t]
  BY <1>1, <1>2, Zenon DEF SideSteps, SideOK, Moves, Moved, Broken
<1>3. CASE /\ pipe'[t] = z /\ rd'[t] = Failed /\ flight'[t] = <<>> /\ queue'[t] = queue[t]
  BY <1>1, <1>3, Zenon DEF SideSteps, SideOK, Moves, Moved, Broken
<1>4. CASE /\ pipe'[t] = <<>> /\ rd'[t] = Failed /\ flight'[t] = <<>> /\ queue'[t] = <<>>
  BY <1>1, <1>4, Zenon DEF SideSteps, SideOK, Moves, Moved, Broken
<1> QED BY <1>2, <1>3, <1>4

LEMMA WholePipe ==
    ASSUME NEW s \in Sides, SideOK(s)
    PROVE  Len(pipe[s]) \in 0..Len(pipe[s]) /\ pipe[s] = SubSeq(pipe[s], 1, Len(pipe[s]))
<1>1. pipe[s] \in Seq(Nat)
  BY Zenon DEF SideOK, StreamOK
<1> QED BY <1>1, SubSeqFull

LEMMA WriteLostStep ==
    ASSUME IndInv, NEW s \in Sides, WriteLost(s)
    PROVE  IndInv' /\ \A t \in Sides : Moves(t)
<1>1. TypeOK /\ SideOK(s) /\ \A t \in Sides : SideOK(t)
  BY DEF IndInv
<1>2. cut /\ out' = [out EXCEPT ![s] = <<>>]
  BY Zenon DEF WriteLost
<1>3. /\ kind' = kind /\ cut' = cut /\ sent' = sent /\ pipe' = pipe /\ rd' = rd /\ queue' = queue
      /\ last' = last /\ flight' = flight
  BY DEF WriteLost
<1>4. Updates(out, s, <<>>, out')
  <2>1. OnSides(out)
    BY <1>1, Zenon DEF TypeOK
  <2> QED BY <1>2, <2>1, Updated, Zenon
<1>5. TypeOK'
  BY <1>1, <1>3, <1>4, Zenon DEF TypeOK, Updates
<1>6. SideSteps(s)
  <2>1. out'[s] \in {out[s], <<>>}
    BY <1>4, Zenon DEF Updates
  <2>2. cut' = TRUE
    BY <1>1, <1>2, <1>3 DEF TypeOK
  <2>3. Len(pipe[s]) \in 0..Len(pipe[s]) /\ pipe'[s] = SubSeq(pipe[s], 1, Len(pipe[s]))
    BY <1>1, <1>3, WholePipe
  <2>4. /\ sent'[s] = sent[s] /\ last'[s] = last[s] /\ rd'[s] = rd[s] /\ flight'[s] = flight[s]
        /\ queue'[s] = queue[s] /\ kind' = kind
    BY <1>3
  <2> QED BY <1>1, <2>1, <2>2, <2>3, <2>4, BreakOne
<1>7. ASSUME NEW t \in Sides, t # s PROVE SideSteps(t)
  <2>1. out'[t] = out[t]
    BY <1>4, <1>7, Zenon DEF Updates
  <2> QED BY <1>1, <1>3, <2>1, Unmoved
<1> QED BY <1>5, <1>6, <1>7, StepOne

LEMMA ReadFailsStep ==
    ASSUME IndInv, NEW s \in Sides, ReadFails(s)
    PROVE  IndInv' /\ \A t \in Sides : Moves(t)
<1>1. TypeOK /\ SideOK(s) /\ \A t \in Sides : SideOK(t)
  BY DEF IndInv
<1>2. cut /\ rd' = [rd EXCEPT ![s] = Failed] /\ flight' = [flight EXCEPT ![s] = <<>>]
  BY Zenon DEF ReadFails
<1>3. /\ kind' = kind /\ cut' = cut /\ sent' = sent /\ pipe' = pipe /\ out' = out /\ queue' = queue
      /\ last' = last
  BY DEF ReadFails
<1>4. Updates(rd, s, Failed, rd') /\ Updates(flight, s, <<>>, flight')
  <2>1. OnSides(rd) /\ OnSides(flight)
    BY <1>1, Zenon DEF TypeOK
  <2> QED BY <1>2, <2>1, Updated, Zenon
<1>5. TypeOK'
  BY <1>1, <1>3, <1>4, Zenon DEF TypeOK, Updates
<1>6. SideSteps(s)
  <2>1. rd'[s] = Failed /\ flight'[s] = <<>>
    BY <1>4, Zenon DEF Updates
  <2>2. cut' = TRUE
    BY <1>1, <1>2, <1>3 DEF TypeOK
  <2>3. Len(pipe[s]) \in 0..Len(pipe[s]) /\ pipe'[s] = SubSeq(pipe[s], 1, Len(pipe[s]))
    BY <1>1, <1>3, WholePipe
  <2>4. /\ sent'[s] = sent[s] /\ last'[s] = last[s] /\ out'[s] \in {out[s], <<>>}
        /\ queue'[s] = queue[s] /\ kind' = kind
    BY <1>3
  <2> QED BY <1>1, <2>1, <2>2, <2>3, <2>4, BreakOne
<1>7. ASSUME NEW t \in Sides, t # s PROVE SideSteps(t)
  <2>1. rd'[t] = rd[t] /\ flight'[t] = flight[t]
    BY <1>4, <1>7, Zenon DEF Updates
  <2> QED BY <1>1, <1>3, <2>1, Unmoved
<1> QED BY <1>5, <1>6, <1>7, StepOne

\* The end of a loop breaks both directions: what the side wrote may still
\* arrive, what it had not handled is gone.
LEMMA EndsLoopStep ==
    ASSUME IndInv, NEW s \in Sides, EndsLoop(s)
    PROVE  IndInv' /\ \A t \in Sides : Moves(t)
<1> DEFINE w == Peer(s)
<1>1. TypeOK /\ SideOK(s) /\ \A t \in Sides : SideOK(t)
  BY DEF IndInv
<1>2. w \in Sides /\ w # s /\ \A t \in Sides : t # s => t = w
  BY DEF Sides, Peer
<1>3. PICK n \in 0..Len(pipe[s]) : pipe' = [pipe EXCEPT ![s] = SubSeq(@, 1, n), ![w] = <<>>]
  BY Zenon DEF EndsLoop
<1>4. /\ cut' = TRUE /\ out' = [out EXCEPT ![s] = <<>>] /\ rd' = [rd EXCEPT ![w] = Failed]
      /\ queue' = [queue EXCEPT ![w] = <<>>] /\ flight' = [flight EXCEPT ![w] = <<>>]
  BY Zenon DEF EndsLoop
<1>5. kind' = kind /\ sent' = sent /\ last' = last
  BY DEF EndsLoop
<1> HIDE DEF w
<1>6. /\ Updates(out, s, <<>>, out') /\ Updates(rd, w, Failed, rd')
      /\ Updates(queue, w, <<>>, queue') /\ Updates(flight, w, <<>>, flight')
  <2>1. OnSides(out) /\ OnSides(rd) /\ OnSides(queue) /\ OnSides(flight)
    BY <1>1, Zenon DEF TypeOK
  <2> QED BY <1>2, <1>4, <2>1, Updated, Zenon
<1>7. OnSides(pipe') /\ pipe'[s] = SubSeq(pipe[s], 1, n) /\ pipe'[w] = <<>>
  <2>1. OnSides(pipe)
    BY <1>1, Zenon DEF TypeOK
  <2> QED BY <1>2, <1>3, <2>1 DEF OnSides
<1>8. TypeOK'
  BY <1>1, <1>4, <1>5, <1>6, <1>7, Zenon DEF TypeOK, Updates
<1>9. SideSteps(s)
  <2>1. out'[s] \in {out[s], <<>>} /\ rd'[s] = rd[s] /\ queue'[s] = queue[s] /\ flight'[s] = flight[s]
    BY <1>2, <1>6, Zenon DEF Updates
  <2>2. cut' = TRUE /\ sent'[s] = sent[s] /\ last'[s] = last[s]
    BY <1>4, <1>5
  <2> QED BY <1>1, <1>3, <1>5, <1>7, <2>1, <2>2, BreakOne
<1>10. SideSteps(w)
  <2>1. out'[w] \in {out[w], <<>>} /\ rd'[w] = Failed /\ queue'[w] = <<>> /\ flight'[w] = <<>>
    BY <1>2, <1>6, Zenon DEF Updates
  <2>2. cut' = TRUE /\ sent'[w] = sent[w] /\ last'[w] = last[w] /\ SideOK(w)
    BY <1>1, <1>2, <1>4, <1>5
  <2>3. Len(pipe[w]) \in 0..Len(pipe[w])
    BY <1>2, <2>2, WholePipe
  <2> QED BY <1>1, <1>2, <1>5, <1>7, <2>1, <2>2, <2>3, BreakOne
<1> QED BY <1>2, <1>8, <1>9, <1>10, StepOne

LEMMA CutStep ==
    ASSUME IndInv, Cut
    PROVE  IndInv' /\ \A t \in Sides : Moves(t)
<1>1. TypeOK /\ \A t \in Sides : SideOK(t)
  BY DEF IndInv
<1>2. PICK n \in 0..Len(pipe["client"]), k \in 0..Len(pipe["server"]) :
         pipe' = [s \in Sides |-> SubSeq(pipe[s], 1, IF s = "client" THEN n ELSE k)]
  BY Zenon DEF Cut
<1>3. /\ cut' = TRUE /\ kind' = kind /\ sent' = sent /\ out' = out /\ rd' = rd /\ queue' = queue
      /\ last' = last /\ flight' = flight
  BY DEF Cut
<1>4. OnSides(pipe')
  BY <1>2 DEF OnSides
<1>5. TypeOK'
  BY <1>1, <1>3, <1>4, Zenon DEF TypeOK
<1>6. ASSUME NEW t \in Sides PROVE SideSteps(t)
  <2>1. PICK v \in 0..Len(pipe[t]) : pipe'[t] = SubSeq(pipe[t], 1, v)
    BY <1>2 DEF Sides
  <2>2. /\ sent'[t] = sent[t] /\ last'[t] = last[t] /\ out'[t] \in {out[t], <<>>}
        /\ rd'[t] = rd[t] /\ queue'[t] = queue[t] /\ flight'[t] = flight[t]
    BY <1>3
  <2>3. SideOK(t) /\ TypeOK /\ cut' = TRUE /\ kind' = kind
    BY <1>1, <1>3
  <2> QED BY <2>1, <2>2, <2>3, BreakOne
<1>7. \A t \in Sides : SideOK(t)' /\ Moves(t)
  BY <1>6, Zenon DEF SideSteps
<1> QED BY <1>5, <1>7 DEF IndInv

LEMMA IndInvInit == Init => IndInv
<1> SUFFICES ASSUME Init PROVE IndInv
  OBVIOUS
<1>1. TypeOK
  BY DEF Init, TypeOK, OnSides
<1>2. ASSUME NEW s \in Sides PROVE SideOK(s)
  <2>1. /\ rd[s] = Fresh /\ flight[s] = <<>> /\ pipe[s] = <<>> /\ out[s] = <<>> /\ sent[s] = <<>>
        /\ queue[s] = <<>>
    BY DEF Init
  <2>2. OnStream(kind, Fresh, <<>>, <<>>, <<>>, <<>>, cut)
    BY <1>1, StreamStart DEF TypeOK
  <2>3. <<>> \in Seq(Seq(Nat)) /\ <<>> \in Seq(Nat) /\ \A i \in 1..Len(<<>>) : <<>>[i] \in Sendable(kind)
    OBVIOUS
  <2>4. StreamOK(kind, Fresh, <<>>, <<>>, <<>>, <<>>, <<>>, cut)
    BY <2>2, <2>3, Zenon DEF StreamOK
  <2> QED BY <2>1, <2>4, Zenon DEF SideOK
<1> QED BY <1>1, <1>2 DEF IndInv

LEMMA StutterStep ==
    ASSUME IndInv, UNCHANGED vars
    PROVE  IndInv' /\ \A t \in Sides : Moves(t)
<1>1. /\ kind' = kind /\ cut' = cut /\ sent' = sent /\ pipe' = pipe /\ out' = out /\ rd' = rd
      /\ queue' = queue /\ last' = last /\ flight' = flight
  BY DEF vars
<1>2. TypeOK'
  BY <1>1, Zenon DEF IndInv, TypeOK
<1>3. ASSUME NEW t \in Sides PROVE SideSteps(t)
  BY <1>1, Unmoved DEF IndInv
<1>4. \A t \in Sides : SideOK(t)' /\ Moves(t)
  BY <1>3, Zenon DEF SideSteps
<1> QED BY <1>2, <1>4 DEF IndInv

LEMMA NextStep == IndInv /\ [Next]_vars => IndInv' /\ \A t \in Sides : Moves(t)
<1>1. SUFFICES ASSUME IndInv, [Next]_vars PROVE IndInv' /\ \A t \in Sides : Moves(t)
  OBVIOUS
<1>2. ASSUME NEW s \in Sides, NEW m \in Messages, Write(s, m)
      PROVE  IndInv' /\ \A t \in Sides : Moves(t)
  BY <1>1, <1>2, WriteStep
<1>3. ASSUME NEW s \in Sides,
             \/ WriteRefused(s) \/ Flush(s) \/ WriteFails(s) \/ WriteLost(s)
             \/ Read(s) \/ ReadFails(s) \/ Deliver(s) \/ Handle(s) \/ HandleError(s)
             \/ Stop(s)
      PROVE  IndInv' /\ \A t \in Sides : Moves(t)
  <2>1. CASE WriteRefused(s) \/ WriteFails(s) \/ Stop(s)
    <3>1. EndsLoop(s)
      BY <2>1, Zenon DEF WriteRefused, WriteFails, Stop
    <3> QED BY <1>1, <3>1, EndsLoopStep
  <2>2. CASE HandleError(s)
    <3>1. EndsLoop(Peer(s)) /\ Peer(s) \in Sides
      BY <2>2 DEF HandleError, Peer, Sides
    <3> QED BY <1>1, <3>1, EndsLoopStep
  <2>3. CASE Flush(s)
    BY <1>1, <2>3, FlushStep
  <2>4. CASE WriteLost(s)
    BY <1>1, <2>4, WriteLostStep
  <2>5. CASE Read(s)
    BY <1>1, <2>5, ReadStep
  <2>6. CASE ReadFails(s)
    BY <1>1, <2>6, ReadFailsStep
  <2>7. CASE Deliver(s)
    BY <1>1, <2>7, DeliverStep
  <2>8. CASE Handle(s)
    BY <1>1, <2>8, HandleStep
  <2> QED BY <1>3, <2>1, <2>2, <2>3, <2>4, <2>5, <2>6, <2>7, <2>8, Zenon
<1>4. CASE Cut
  BY <1>1, <1>4, CutStep
<1>5. CASE UNCHANGED vars
  BY <1>1, <1>5, StutterStep
<1> QED BY <1>1, <1>2, <1>3, <1>4, <1>5, Zenon DEF Next

-----------------------------------------------------------------------------
(* The refinement *)

LEMMA NothingInTransit == Init => \A s \in Sides : InTransit(s) = <<>>
<1>1. SUFFICES ASSUME Init, NEW s \in Sides PROVE InTransit(s) = <<>>
  OBVIOUS
<1>2. queue[s] = <<>> /\ flight[s] = <<>> /\ out[s] = <<>>
  BY <1>1 DEF Init
<1>3. <<>> \o <<>> \o <<>> = <<>>
  OBVIOUS
<1> QED BY <1>2, <1>3, Zenon DEF InTransit

LEMMA TransitOf ==
    ASSUME NEW s \in Sides
    PROVE  /\ InTransit(s) = Transit(queue[s], flight[s], out[s], sent[s], cut)
           /\ InTransit(s)' = Transit(queue'[s], flight'[s], out'[s], sent'[s], cut')
BY Zenon DEF InTransit, Transit

LEMMA MovesClient == Moves("server") => [ToClient!Next]_(ToClient!vars)
<1>1. SUFFICES ASSUME Moves("server") PROVE [ToClient!Next]_(ToClient!vars)
  OBVIOUS
<1> DEFINE c == InTransit("server")
           d == InTransit("server")'
<1>2. Moved(sent["server"], c, last["server"], cut, sent'["server"], d, last'["server"], cut')
  BY <1>1, TransitOf, Zenon DEF Moves, Sides
<1>3. CASE sent'["server"] = sent["server"] /\ d = c /\ last'["server"] = last["server"] /\ cut' = cut
  BY <1>3, Zenon DEF ToClient!vars
<1>4. CASE /\ sent'["server"] \in Arriving /\ Accepts(d, sent'["server"], c, cut)
           /\ last'["server"] = last["server"] /\ cut' = cut
  <2>1. ToClient!Send
    BY <1>4, Zenon DEF ToClient!Send, Accepts
  <2> QED BY <2>1, Zenon DEF ToClient!Next
<1>5. CASE sent'["server"] = sent["server"] /\ Continues(d, last'["server"], c) /\ cut' = cut
  <2>1. ToClient!Receive
    BY <1>5, Zenon DEF ToClient!Receive, Continues
  <2> QED BY <2>1, Zenon DEF ToClient!Next
<1>6. CASE /\ sent'["server"] = sent["server"] /\ Prefix(d, c)
           /\ last'["server"] = last["server"] /\ cut' = TRUE
  <2>1. ToClient!Break
    BY <1>6, Zenon DEF ToClient!Break, Prefix
  <2> QED BY <2>1, Zenon DEF ToClient!Next
<1> QED BY <1>2, <1>3, <1>4, <1>5, <1>6, Zenon DEF Moved

LEMMA MovesServer == Moves("client") => [ToServer!Next]_(ToServer!vars)
<1>1. SUFFICES ASSUME Moves("client") PROVE [ToServer!Next]_(ToServer!vars)
  OBVIOUS
<1> DEFINE c == InTransit("client")
           d == InTransit("client")'
<1>2. Moved(sent["client"], c, last["client"], cut, sent'["client"], d, last'["client"], cut')
  BY <1>1, TransitOf, Zenon DEF Moves, Sides
<1>3. CASE sent'["client"] = sent["client"] /\ d = c /\ last'["client"] = last["client"] /\ cut' = cut
  BY <1>3, Zenon DEF ToServer!vars
<1>4. CASE /\ sent'["client"] \in Arriving /\ Accepts(d, sent'["client"], c, cut)
           /\ last'["client"] = last["client"] /\ cut' = cut
  <2>1. ToServer!Send
    BY <1>4, Zenon DEF ToServer!Send, Accepts
  <2> QED BY <2>1, Zenon DEF ToServer!Next
<1>5. CASE sent'["client"] = sent["client"] /\ Continues(d, last'["client"], c) /\ cut' = cut
  <2>1. ToServer!Receive
    BY <1>5, Zenon DEF ToServer!Receive, Continues
  <2> QED BY <2>1, Zenon DEF ToServer!Next
<1>6. CASE /\ sent'["client"] = sent["client"] /\ Prefix(d, c)
           /\ last'["client"] = last["client"] /\ cut' = TRUE
  <2>1. ToServer!Break
    BY <1>6, Zenon DEF ToServer!Break, Prefix
  <2> QED BY <2>1, Zenon DEF ToServer!Next
<1> QED BY <1>2, <1>3, <1>4, <1>5, <1>6, Zenon DEF Moved

\* Each direction of a channel is a queue, for every set of frames and datagrams,
\* every size of pipe, queue and buffer and any number of messages: what
\* `write_frame` or UdpTraffic wrote, `read_frame` or UdpTraffic reads whole, once
\* and in order, until the connection breaks; then only the end of what was under
\* way is lost, whichever task ends first (client.rs:716).
THEOREM ChannelsAreQueues == Spec => InOrder
<1>1. Init => ToClient!Init /\ ToServer!Init
  <2>1. SUFFICES ASSUME Init PROVE ToClient!Init /\ ToServer!Init
    OBVIOUS
  <2>2. InTransit("client") = <<>> /\ InTransit("server") = <<>>
    BY <2>1, NothingInTransit DEF Sides
  <2>3. /\ sent["client"] = <<>> /\ sent["server"] = <<>>
        /\ last["client"] = <<>> /\ last["server"] = <<>> /\ cut = FALSE
    BY <2>1 DEF Init, Sides
  <2> QED BY <2>2, <2>3, Zenon DEF ToClient!Init, ToServer!Init
<1>2. IndInv /\ [Next]_vars => [ToClient!Next]_(ToClient!vars) /\ [ToServer!Next]_(ToServer!vars)
  BY NextStep, MovesClient, MovesServer, Zenon DEF Sides
<1>3. IndInv /\ [Next]_vars => IndInv'
  BY NextStep
<1> QED BY <1>1, <1>2, <1>3, IndInvInit, PTL DEF Spec, InOrder, ToClient!Spec, ToServer!Spec
=============================================================================
