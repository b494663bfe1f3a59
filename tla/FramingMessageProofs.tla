------------------------ MODULE FramingMessageProofs ------------------------
(***************************************************************************)
(* The byte streams carry whole messages: Framing implements Dialogue, for *)
(* frames, sockets and numbers of workers, cells, tasks and threads of any *)
(* size; and so there is room for every task the server sends.             *)
(***************************************************************************)
EXTENDS FramingProofs

-----------------------------------------------------------------------------
(* Division                                                                *)

LEMMA Quotient ==
  ASSUME NEW n \in Nat, NEW size \in Nat \ {0}
  PROVE  /\ n \div size \in Nat
         /\ (n + size) \div size = (n \div size) + 1
         /\ n < size => n \div size = 0
  OBVIOUS

LEMMA QuotientOfProduct ==
  ASSUME NEW m \in Nat, NEW size \in Nat \ {0}
  PROVE  (m * size) \div size = m /\ m * size \in Nat
  OBVIOUS

LEMMA QuotientOfLess ==
  ASSUME NEW n \in Nat, NEW k \in 0 .. n, NEW size \in Nat \ {0}
  PROVE  k \div size \in 0 .. n \div size
  OBVIOUS

\* The last byte of the i-th frame is there when i frames are.
LEMMA LastByteOfFrame ==
  ASSUME NEW n \in Nat, NEW size \in Nat \ {0}, NEW i \in 1 .. n \div size
  PROVE  i * size \in 1 .. n /\ i * size >= size
  OBVIOUS

LEMMA ProductGrows ==
  ASSUME NEW m \in Nat, NEW n \in Nat, m <= n, NEW size \in Nat
  PROVE  m * size <= n * size
<1>1. n - m \in Nat /\ n = m + (n - m)
  OBVIOUS
<1>2. (m + (n - m)) * size = m * size + (n - m) * size
  OBVIOUS
<1>3. (n - m) * size \in Nat /\ m * size \in Nat
  BY <1>1
<1> QED
  BY ONLY <1>1, <1>2, <1>3

LEMMA NextProduct ==
  ASSUME NEW m \in Nat, NEW size \in Nat
  PROVE  (m + 1) * size = m * size + size
  OBVIOUS

-----------------------------------------------------------------------------
(* Messages                                                                *)

Whole(flow, size) == \E m \in Nat : Len(flow) = m * size

\* The messages of a flow, one by one.
LEMMA MessagesAre ==
  ASSUME NEW B, NEW s \in Seq(B), NEW size \in Nat \ {0}
  PROVE  /\ Messages(s, size) \in Seq({b.of : b \in B})
         /\ Len(Messages(s, size)) = Len(s) \div size
         /\ \A i \in 1 .. Len(s) \div size : Messages(s, size)[i] = s[i * size].of
<1>1. Len(s) \in Nat /\ Len(s) \div size \in Nat
  <2> DEFINE l == Len(s)
  <2>1. l \in Nat
    OBVIOUS
  <2> HIDE DEF l
  <2>2. l \div size \in Nat
    BY <2>1, Quotient
  <2> QED
    BY <2>1, <2>2 DEF l
<1> DEFINE n == Len(s) \div size
<1>2. \A i \in 1 .. n : i * size \in 1 .. Len(s)
  BY <1>1, LastByteOfFrame
<1>3. \A i \in 1 .. n : s[i * size].of \in {b.of : b \in B}
  BY <1>2
<1>4. n \in Nat
  BY <1>1
<1>5. Messages(s, size) = [i \in 1 .. n |-> s[i * size].of]
  BY DEF Messages
<1> HIDE DEF n
<1>6. /\ Messages(s, size) \in Seq({b.of : b \in B}) /\ Len(Messages(s, size)) = n
      /\ \A i \in 1 .. n : Messages(s, size)[i] = s[i * size].of
  BY <1>3, <1>4, <1>5
<1> QED
  BY <1>6 DEF n

LEMMA NoMessages == ASSUME NEW size \in Nat \ {0} PROVE Messages(<<>>, size) = <<>>
<1>1. Len(<<>>) = 0 /\ 0 \div size = 0 /\ 0 \in Nat
  BY Quotient
<1> QED
  BY <1>1 DEF Messages

\* One frame more is one message more.
LEMMA MessageMore ==
  ASSUME NEW B, NEW s \in Seq(B), NEW size \in Nat \ {0}, NEW f, Whole(s, size),
         Bytes(f, size) \in Seq(B)
  PROVE  /\ Messages(s \o Bytes(f, size), size) = Append(Messages(s, size), f)
         /\ Whole(s \o Bytes(f, size), size)
<1> DEFINE t == Bytes(f, size)
           r == s \o t
<1>1. Len(t) = size /\ t[size].of = f /\ t \in Seq(B)
  BY DEF Bytes, Byte
<1> HIDE DEF t
<1>2. /\ r \in Seq(B) /\ Len(r) = Len(s) + size /\ Len(s) \in Nat
      /\ \A i \in 1 .. Len(s) : r[i] = s[i]
      /\ \A i \in 1 .. size : r[Len(s) + i] = t[i]
  <2>0. s \in Seq(B) /\ t \in Seq(B)
    BY <1>1
  <2>1. /\ r \in Seq(B) /\ Len(r) = Len(s) + Len(t)
        /\ \A i \in 1 .. Len(s) : r[i] = s[i]
        /\ \A i \in 1 .. Len(t) : r[Len(s) + i] = t[i]
    BY ONLY <2>0, Concatenation DEF r
  <2>2. Len(s) \in Nat
    OBVIOUS
  <2> HIDE DEF r
  <2> QED
    BY <2>1, <2>2, <1>1
<1> HIDE DEF r
<1>3. PICK m \in Nat : Len(s) = m * size
  BY DEF Whole
<1>4. Len(s) \div size = m /\ Len(r) \div size = m + 1 /\ Len(r) = (m + 1) * size
  <2>1. Len(s) \div size = m
    BY <1>3, QuotientOfProduct
  <2>2. m + 1 \in Nat /\ (m + 1) * size = m * size + size
    BY NextProduct
  <2>3. Len(r) = (m + 1) * size
    BY <1>2, <1>3, <2>2
  <2>4. Len(r) \div size = m + 1
    BY <2>2, <2>3, QuotientOfProduct
  <2> QED
    BY <2>1, <2>3, <2>4
<1> DEFINE M == {b.of : b \in B}
           p == Messages(s, size)
           q == Messages(r, size)
           a == Append(p, f)
<1>5. /\ p \in Seq(M) /\ Len(p) = m
      /\ \A i \in 1 .. m : p[i] = s[i * size].of
  BY <1>4, MessagesAre
<1>6. /\ q \in Seq(M) /\ Len(q) = m + 1
      /\ \A i \in 1 .. m + 1 : q[i] = r[i * size].of
  <2>1. r \in Seq(B) /\ size \in Nat \ {0}
    BY <1>2
  <2>2. /\ q \in Seq(M) /\ Len(q) = Len(r) \div size
        /\ \A i \in 1 .. Len(r) \div size : q[i] = r[i * size].of
    BY ONLY <2>1, MessagesAre DEF q, M
  <2> QED
    BY <2>2, <1>4
<1>7. f \in M
  <2>1. t[size] \in B
    BY <1>1
  <2> QED
    BY <1>1, <2>1
<1> HIDE DEF M, p, q
<1>8. a \in Seq(M) /\ Len(a) = m + 1 /\ a[m + 1] = f /\ \A i \in 1 .. m : a[i] = p[i]
  BY <1>5, <1>7
<1> HIDE DEF a
<1>9. ASSUME NEW i \in 1 .. m + 1 PROVE q[i] = a[i]
  <2>1. CASE i \in 1 .. m
    <3>1. i * size \in 1 .. Len(s)
      BY <2>1, <1>2, <1>4, LastByteOfFrame
    <3>2. q[i] = r[i * size].of /\ p[i] = s[i * size].of /\ a[i] = p[i]
      BY <2>1, <1>5, <1>6, <1>8
    <3>3. r[i * size] = s[i * size]
      BY <3>1, <1>2
    <3> QED
      BY ONLY <3>2, <3>3
  <2>2. CASE i = m + 1
    <3>1. i * size = Len(s) + size /\ size \in 1 .. size
      BY <2>2, <1>3, NextProduct
    <3> QED
      BY <2>2, <3>1, <1>1, <1>2, <1>6, <1>8
  <2> QED
    BY <2>1, <2>2
<1>10. q = a
  BY <1>6, <1>8, <1>9, SameSequence
<1>11. Whole(r, size)
  BY <1>4 DEF Whole
<1> QED
  BY <1>10, <1>11 DEF p, q, a, r, t

\* One frame less is one message less, the first.
LEMMA MessageLess ==
  ASSUME NEW B, NEW s \in Seq(B), NEW size \in Nat \ {0}, Len(s) >= size
  PROVE  /\ Messages(s, size) # <<>>
         /\ Head(Messages(s, size)) = s[size].of
         /\ Messages(AfterFirst(s, size), size) = Tail(Messages(s, size))
         /\ Whole(s, size) => Whole(AfterFirst(s, size), size)
<1> DEFINE r == AfterFirst(s, size)
           n == Len(r)
<1>1. Len(s) \in Nat /\ size \in 0 .. Len(s)
  OBVIOUS
<1>2. r \in Seq(B) /\ Len(r) = Len(s) - size /\ \A i \in 1 .. Len(s) - size : r[i] = s[size + i]
  BY <1>1, RestOfSequence
<1> HIDE DEF r
<1>3. n \in Nat /\ Len(s) = n + size
  BY <1>1, <1>2
<1>4. n \div size \in Nat /\ Len(s) \div size = (n \div size) + 1
  BY <1>3, Quotient
<1> DEFINE M == {b.of : b \in B}
           p == Messages(s, size)
           q == Messages(r, size)
           m == n \div size
<1>5. /\ p \in Seq(M) /\ Len(p) = m + 1
      /\ \A i \in 1 .. m + 1 : p[i] = s[i * size].of
  BY <1>4, MessagesAre
<1>6. /\ q \in Seq(M) /\ Len(q) = m
      /\ \A i \in 1 .. m : q[i] = r[i * size].of
  BY <1>2, <1>4, MessagesAre
<1>7. \A i \in 1 .. m : i * size \in 1 .. n /\ (i + 1) * size = i * size + size
  BY <1>3, LastByteOfFrame, NextProduct
<1>8. m \in Nat /\ 1 * size = size
  BY <1>4
<1> HIDE DEF M, p, q, m, n
<1>9. p # <<>> /\ Head(p) = s[size].of
  BY <1>5, <1>8
<1> DEFINE t == Tail(p)
<1>10. t \in Seq(M) /\ Len(t) = m /\ \A i \in 1 .. m : t[i] = p[i + 1]
  BY <1>5, <1>8, <1>9
<1> HIDE DEF t
<1>11. ASSUME NEW i \in 1 .. m PROVE q[i] = t[i]
  <2>1. r[i * size] = s[i * size + size]
    BY <1>2, <1>3, <1>7 DEF n
  <2>2. i + 1 \in 1 .. m + 1
    BY <1>8
  <2>3. p[i + 1] = s[i * size + size].of
    BY <1>5, <1>7, <2>2
  <2> QED
    BY <1>6, <1>10, <2>1, <2>3
<1>12. q = t
  BY <1>6, <1>10, <1>11, SameSequence
<1>13. ASSUME NEW k \in Nat, Len(s) = k * size PROVE \E j \in Nat : n = j * size
  <2>1. k # 0
    BY <1>13, <1>3
  <2>2. k - 1 \in Nat /\ ((k - 1) + 1) * size = (k - 1) * size + size
    BY <2>1, NextProduct
  <2>3. (k - 1) * size \in Nat
    BY <2>2, QuotientOfProduct
  <2>4. n = (k - 1) * size
    BY <1>3, <1>13, <2>2, <2>3
  <2> QED
    BY <2>2, <2>4
<1>14. Whole(s, size) => Whole(r, size)
  BY <1>13 DEF Whole, n
<1> QED
  BY <1>9, <1>12, <1>14 DEF p, q, r, t

\* A flow that is cut loses the last messages.
LEMMA MessagesLost ==
  ASSUME NEW B, NEW s \in Seq(B), NEW size \in Nat \ {0}, NEW n \in 0 .. Len(s)
  PROVE  \E k \in 0 .. Len(Messages(s, size)) :
           Messages(SubSeq(s, 1, n), size) = SubSeq(Messages(s, size), 1, k)
<1> DEFINE r == SubSeq(s, 1, n)
           M == {b.of : b \in B}
           p == Messages(s, size)
           q == Messages(r, size)
           k == n \div size
           m == Len(s) \div size
<1>1. r \in Seq(B) /\ Len(r) = n /\ \A i \in 1 .. n : r[i] = s[i]
  BY StartOfSequence
<1>2. n \in Nat /\ Len(s) \in Nat
  OBVIOUS
<1>3. k \in 0 .. m /\ k \in Nat /\ m \in Nat
  BY <1>2, Quotient, QuotientOfLess
<1>4. p \in Seq(M) /\ Len(p) = m /\ \A i \in 1 .. m : p[i] = s[i * size].of
  BY MessagesAre
<1> HIDE DEF r
<1>5. q \in Seq(M) /\ Len(q) = k /\ \A i \in 1 .. k : q[i] = r[i * size].of
  BY <1>1, MessagesAre
<1>6. \A i \in 1 .. k : i * size \in 1 .. n
  BY <1>2, LastByteOfFrame
<1> HIDE DEF M, p, q, k, m
<1> DEFINE t == SubSeq(p, 1, k)
<1>7. t \in Seq(M) /\ Len(t) = k /\ \A i \in 1 .. k : t[i] = p[i]
  BY <1>3, <1>4, StartOfSequence
<1>8. ASSUME NEW i \in 1 .. k PROVE q[i] = t[i]
  <2>1. i \in 1 .. m
    BY <1>3
  <2> QED
    BY <2>1, <1>1, <1>4, <1>5, <1>6, <1>7
<1> HIDE DEF t
<1>9. q = t
  BY <1>5, <1>7, <1>8, SameSequence
<1> QED
  BY <1>3, <1>4, <1>9 DEF p, q, r, t

-----------------------------------------------------------------------------
(* Flows                                                                   *)

\* What is received already is still on its way until its frame is complete.
Flow(buf, k, stream) == SubSeq(buf, 1, k) \o stream

LEMMA FlowIs ==
  ASSUME NEW B, NEW size \in Nat \ {0}, NEW buf \in [1 .. size -> B], NEW k \in 0 .. size,
         NEW s \in Seq(B)
  PROVE  /\ SubSeq(buf, 1, k) \in Seq(B) /\ Len(SubSeq(buf, 1, k)) = k
         /\ \A i \in 1 .. k : SubSeq(buf, 1, k)[i] = buf[i]
         /\ Flow(buf, k, s) \in Seq(B) /\ Len(Flow(buf, k, s)) = k + Len(s)
         /\ Flow(buf, 0, s) = s
<1> DEFINE a == SubSeq(buf, 1, k)
<1>1. buf \in Seq(B) /\ Len(buf) = size
  OBVIOUS
<1>2. k \in 0 .. Len(buf)
  BY <1>1
<1>3. a \in Seq(B) /\ Len(a) = k /\ \A i \in 1 .. k : a[i] = buf[i]
  BY <1>1, <1>2, StartOfSequence
<1>4. a \o s \in Seq(B) /\ Len(a \o s) = k + Len(s)
  <2>1. a \in Seq(B) /\ s \in Seq(B) /\ Len(a) = k
    BY <1>3
  <2> HIDE DEF a
  <2> QED
    BY ONLY <2>1, Concatenation
<1>5. Flow(buf, 0, s) = s
  <2>1. SubSeq(buf, 1, 0) = <<>>
    BY <1>1
  <2>2. <<>> \o s = s
    OBVIOUS
  <2> QED
    BY <2>1, <2>2 DEF Flow
<1> QED
  BY <1>3, <1>4, <1>5 DEF Flow

\* recv() moves bytes from the stream to the buffer.
LEMMA FilledStart ==
  ASSUME NEW B, NEW size \in Nat \ {0}, NEW buf \in [1 .. size -> B], NEW k \in 0 .. size - 1,
         NEW s \in Seq(B), NEW n \in 1 .. Len(s), n <= size - k
  PROVE  /\ Filled(buf, k, s, n) \in [1 .. size -> B]
         /\ SubSeq(Filled(buf, k, s, n), 1, k + n) = SubSeq(buf, 1, k) \o SubSeq(s, 1, n)
<1> DEFINE full == Filled(buf, k, s, n)
           a == SubSeq(buf, 1, k)
           b == SubSeq(s, 1, n)
           c == SubSeq(full, 1, k + n)
           d == a \o b
<1>1. full = [i \in 1 .. size |-> IF i \in k + 1 .. k + n THEN s[i - k] ELSE buf[i]]
  BY DEF Filled
<1>2. \A i \in k + 1 .. k + n : i - k \in 1 .. n /\ s[i - k] \in B
  OBVIOUS
<1>3. full \in [1 .. size -> B]
  BY <1>1, <1>2
<1>4. k + n \in 0 .. size /\ k \in 0 .. size /\ n \in 0 .. Len(s) /\ n \in Nat /\ k \in Nat /\ size \in Nat
  OBVIOUS
<1>5. \A i \in 1 .. k : full[i] = buf[i]
  BY <1>1, <1>4
<1>6. \A i \in 1 .. n : full[k + i] = s[i]
  <2>1. \A i \in 1 .. n : k + i \in k + 1 .. k + n /\ k + i \in 1 .. size /\ (k + i) - k = i
    OBVIOUS
  <2> QED
    BY <2>1, <1>1
<1> HIDE DEF full
<1>7. a \in Seq(B) /\ Len(a) = k /\ \A i \in 1 .. k : a[i] = buf[i]
  BY <1>4, FlowIs
<1>8. b \in Seq(B) /\ Len(b) = n /\ \A i \in 1 .. n : b[i] = s[i]
  BY <1>4, StartOfSequence
<1>9. c \in Seq(B) /\ Len(c) = k + n /\ \A i \in 1 .. k + n : c[i] = full[i]
  BY <1>3, <1>4, FlowIs
<1> HIDE DEF a, b, c
<1>10. /\ d \in Seq(B) /\ Len(d) = Len(a) + Len(b)
       /\ \A i \in 1 .. Len(a) : d[i] = a[i]
       /\ \A i \in 1 .. Len(b) : d[Len(a) + i] = b[i]
  <2>1. a \in Seq(B) /\ b \in Seq(B)
    BY <1>7, <1>8
  <2> QED
    BY ONLY <2>1, Concatenation
<1> HIDE DEF d
<1>11. ASSUME NEW i \in 1 .. k + n PROVE c[i] = d[i]
  <2>1. CASE i \in 1 .. k
    BY <2>1, <1>5, <1>7, <1>9, <1>10
  <2>2. CASE i \notin 1 .. k
    <3>1. i - k \in 1 .. n /\ k + (i - k) = i
      BY <2>2, <1>4
    <3>2. full[i] = s[i - k] /\ d[i] = b[i - k] /\ b[i - k] = s[i - k]
      BY <3>1, <1>6, <1>7, <1>8, <1>10
    <3> QED
      BY <3>2, <1>9
  <2> QED
    BY <2>1, <2>2
<1>12. c = d
  BY <1>7, <1>8, <1>9, <1>10, <1>11, SameSequence
<1> QED
  BY <1>3, <1>12 DEF full, a, b, c, d

LEMMA FlowReceived ==
  ASSUME NEW B, NEW size \in Nat \ {0}, NEW buf \in [1 .. size -> B], NEW k \in 0 .. size - 1,
         NEW s \in Seq(B), NEW n \in 1 .. Len(s), n <= size - k
  PROVE  /\ Flow(Filled(buf, k, s, n), k + n, AfterFirst(s, n)) = Flow(buf, k, s)
         /\ k + n = size =>
              /\ Len(Flow(buf, k, s)) >= size
              /\ AfterFirst(Flow(buf, k, s), size) = AfterFirst(s, n)
              /\ Flow(buf, k, s)[size] = Filled(buf, k, s, n)[size]
<1> DEFINE full == Filled(buf, k, s, n)
           a == SubSeq(buf, 1, k)
           r == AfterFirst(s, n)
           c == SubSeq(full, 1, k + n)
<1>1. full \in [1 .. size -> B] /\ c = a \o SubSeq(s, 1, n)
  BY FilledStart
<1>2. k \in 0 .. size /\ k + n \in 0 .. size /\ n \in 0 .. Len(s)
  OBVIOUS
<1>3. a \in Seq(B)
  BY <1>2, FlowIs
<1>4. r \in Seq(B) /\ Len(r) = Len(s) - n
  BY <1>2, RestOfSequence
<1> HIDE DEF full
<1>5. /\ c \in Seq(B) /\ Len(c) = k + n
      /\ \A i \in 1 .. k + n : c[i] = full[i]
  BY <1>1, <1>2, FlowIs
<1>6. c \o r = a \o s
  BY <1>1, <1>2, <1>3, CutAndJoin
<1> HIDE DEF a, r, c
<1>7. ASSUME k + n = size
      PROVE  Len(c \o r) >= size /\ AfterFirst(c \o r, size) = r /\ (c \o r)[size] = full[size]
  <2>1. Len(c) = size /\ c \in Seq(B) /\ r \in Seq(B) /\ size \in Nat \ {0} /\ Len(r) \in Nat
    BY <1>4, <1>5, <1>7
  <2> DEFINE v == c \o r
  <2> HIDE DEF v
  <2>0. c \in Seq(B) /\ r \in Seq(B)
    BY <2>1
  <2>2. /\ v \in Seq(B) /\ Len(v) = Len(c) + Len(r)
        /\ \A i \in 1 .. Len(c) : v[i] = c[i]
        /\ \A i \in 1 .. Len(r) : v[Len(c) + i] = r[i]
    BY ONLY <2>0, Concatenation DEF v
  <2>3. size \in 1 .. size /\ size \in 0 .. Len(c)
    BY <2>1
  <2>4. AfterFirst(c, size) \o r = AfterFirst(c \o r, size)
    BY ONLY <2>1, <2>3, RestOfConcatenation
  <2>5. AfterFirst(c, size) = <<>>
    BY ONLY <2>1 DEF AfterFirst
  <2>6. <<>> \o r = r
    BY <2>1
  <2>7. (c \o r)[size] = full[size]
    BY <2>1, <2>2, <2>3, <1>5, <1>7 DEF v
  <2>8. Len(c \o r) >= size
    BY <2>1, <2>2 DEF v
  <2> QED
    BY <2>4, <2>5, <2>6, <2>7, <2>8
<1> QED
  BY <1>6, <1>7 DEF Flow, full, a, r, c

LEMMA JoinedAnyhow ==
  ASSUME NEW B, NEW p \in Seq(B), NEW s \in Seq(B), NEW t \in Seq(B)
  PROVE  (p \o s) \o t = p \o (s \o t)
  OBVIOUS

\* A stream that is cut is a flow that is cut.
LEMMA FlowCut ==
  ASSUME NEW B, NEW p \in Seq(B), NEW s \in Seq(B), NEW n \in 0 .. Len(s)
  PROVE  /\ p \o SubSeq(s, 1, n) = SubSeq(p \o s, 1, Len(p) + n)
         /\ Len(p) + n \in 0 .. Len(p \o s)
<1> DEFINE a == SubSeq(s, 1, n)
           u == p \o s
           v == p \o a
           b == SubSeq(u, 1, Len(p) + n)
<1>1. a \in Seq(B) /\ Len(a) = n /\ \A i \in 1 .. n : a[i] = s[i]
  BY StartOfSequence
<1>2. /\ u \in Seq(B) /\ Len(u) = Len(p) + Len(s)
      /\ \A i \in 1 .. Len(p) : u[i] = p[i]
      /\ \A i \in 1 .. Len(s) : u[Len(p) + i] = s[i]
  BY Concatenation
<1> HIDE DEF a, u
<1>3. /\ v \in Seq(B) /\ Len(v) = Len(p) + Len(a)
      /\ \A i \in 1 .. Len(p) : v[i] = p[i]
      /\ \A i \in 1 .. Len(a) : v[Len(p) + i] = a[i]
  <2>1. p \in Seq(B) /\ a \in Seq(B)
    BY <1>1
  <2> QED
    BY ONLY <2>1, Concatenation DEF v
<1> HIDE DEF v
<1>4. Len(p) \in Nat /\ Len(s) \in Nat /\ n \in 0 .. Len(s)
  OBVIOUS
<1>5. Len(p) + n \in 0 .. Len(u)
  BY <1>2, <1>4
<1>6. b \in Seq(B) /\ Len(b) = Len(p) + n /\ \A i \in 1 .. Len(p) + n : b[i] = u[i]
  BY <1>2, <1>5, StartOfSequence
<1> HIDE DEF b
<1>7. ASSUME NEW i \in 1 .. Len(p) + n PROVE v[i] = b[i]
  <2>1. CASE i \in 1 .. Len(p)
    BY <2>1, <1>2, <1>3, <1>6
  <2>2. CASE i \notin 1 .. Len(p)
    <3> DEFINE j == i - Len(p)
    <3>1. j \in 1 .. n /\ j \in 1 .. Len(s) /\ Len(p) + j = i
      BY <2>2, <1>4
    <3> HIDE DEF j
    <3>2. v[i] = a[j] /\ a[j] = s[j] /\ u[i] = s[j]
      BY <3>1, <1>1, <1>2, <1>3
    <3> QED
      BY <3>2, <1>6
  <2> QED
    BY <2>1, <2>2
<1>8. v = b
  BY <1>1, <1>3, <1>6, <1>7, SameSequence
<1> QED
  BY <1>5, <1>8 DEF a, b, u, v

-----------------------------------------------------------------------------
(* The dialogue                                                            *)

\* What Talk makes of a worker, and its bytes of the two flows.
Credit(w) == OfCell(requested, w, 0)
Held(w)   == OfCell(held, w, {})
Up(w)     == Messages(UpFlow(w), ServerSize)
Down(w)   == Messages(DownFlow(w), WorkerSize)

AnyServerByte == ServerByte \cup {Unwritten}
AnyWorkerByte == WorkerByte \cup {Unwritten}

\* The substitution of Talk, by name.
Alive     == {w \in Worker : sock[w] \in {"open", "torn"}}
Heard     == {w \in Worker : CellsOf(w) # {}}
Credits   == [w \in Worker |-> Credit(w)]
Holdings  == [w \in Worker |-> Held(w)]
Uplinks   == [w \in Worker |-> Up(w)]
Downlinks == [w \in Worker |-> Down(w)]

\* What DialogueProofs has shown of every dialogue, for the one of Talk.
Carried == INSTANCE DialogueProofs WITH
  alive    <- Alive,
  heard    <- Heard,
  credit   <- Credits,
  held     <- Holdings,
  toServer <- Uplinks,
  toWorker <- Downlinks

LEMMA TheCell ==
  ASSUME NEW fds, NEW c \in Cell, \A d \in Cell : fds[d] = fds[c] => d = c
  PROVE  (CHOOSE d \in Cell : fds[d] = fds[c]) = c
  OBVIOUS

\* A worker that has a cell is seen through it.
CellViews ==
  OwnCells => \A w \in Worker, c \in Cell : socketFd[c] = w =>
    /\ CellsOf(w) # {}
    /\ Credit(w) = requested[c]
    /\ Held(w) = held[c]
    /\ UpFlow(w) = Flow(buffer[c], received[c], UpStream(w))

NoCellViews ==
  \A w \in Worker : CellsOf(w) = {} => Credit(w) = 0 /\ Held(w) = {} /\ UpFlow(w) = UpStream(w)

LEMMA CellView == CellViews /\ NoCellViews
<1>1. ASSUME OwnCells, NEW w \in Worker, NEW c \in Cell, socketFd[c] = w
      PROVE  /\ CellsOf(w) # {}
             /\ Credit(w) = requested[c]
             /\ Held(w) = held[c]
             /\ UpFlow(w) = Flow(buffer[c], received[c], UpStream(w))
  <2>1. \A d \in Cell : socketFd[d] = socketFd[c] => d = c
    BY <1>1, SizesArePositive DEF OwnCells
  <2>2. (CHOOSE d \in Cell : socketFd[d] = w) = c
    BY <1>1, <2>1, TheCell
  <2>3. CellsOf(w) # {}
    BY <1>1 DEF CellsOf
  <2> QED
    BY <2>2, <2>3 DEF Credit, Held, OfCell, UpFlow, Flow
<1>2. NoCellViews
  BY DEF NoCellViews, Credit, Held, OfCell, UpFlow
<1> QED
  BY <1>1, <1>2 DEF CellViews

LEMMA CellViewNext == CellViews' /\ NoCellViews'
  BY CellView, PTL

LEMMA BuffersAre ==
  ASSUME Inv
  PROVE  /\ \A c \in Cell : /\ buffer[c] \in [1 .. ServerSize -> AnyServerByte]
                            /\ received[c] \in 0 .. ServerSize - 1 /\ received[c] \in 0 .. ServerSize
         /\ \A w \in Worker : /\ taskBuffer[w] \in [1 .. WorkerSize -> AnyWorkerByte]
                              /\ taken[w] \in 0 .. WorkerSize - 1 /\ taken[w] \in 0 .. WorkerSize
<1>1. /\ buffer \in [Cell -> [1 .. ServerSize -> AnyServerByte]]
      /\ received \in [Cell -> 0 .. ServerSize - 1]
      /\ taskBuffer \in [Worker -> [1 .. WorkerSize -> AnyWorkerByte]]
      /\ taken \in [Worker -> 0 .. WorkerSize - 1]
  BY DEF Inv, Shape, TypeOK, AnyServerByte, AnyWorkerByte
<1>2. \A size \in Nat : \A k \in 0 .. size - 1 : k \in 0 .. size
  OBVIOUS
<1> QED
  BY <1>1, <1>2, SizesArePositive

\* The flows, as sequences of bytes.
LEMMA FlowsAre ==
  ASSUME Inv, NEW w \in Worker
  PROVE  /\ UpFlow(w) \in Seq(AnyServerByte)
         /\ DownFlow(w) \in Seq(AnyWorkerByte)
         /\ DownFlow(w) = Flow(taskBuffer[w], taken[w], toWorker[w])
         /\ Len(DownFlow(w)) = taken[w] + Len(toWorker[w])
<1>1. UpStream(w) \in Seq(AnyServerByte) /\ toWorker[w] \in Seq(AnyWorkerByte)
  <2>1. UpStream(w) \in Seq(ServerByte) /\ toWorker[w] \in Seq(WorkerByte)
    BY StreamIsTyped DEF Inv
  <2> QED
    BY <2>1 DEF AnyServerByte, AnyWorkerByte
<1>2. UpFlow(w) \in Seq(AnyServerByte)
  <2>1. CASE CellsOf(w) = {}
    BY <2>1, <1>1, CellView DEF NoCellViews
  <2>2. CASE CellsOf(w) # {}
    <3>1. PICK c \in Cell : socketFd[c] = w
      BY <2>2 DEF CellsOf
    <3>2. UpFlow(w) = Flow(buffer[c], received[c], UpStream(w))
      BY <3>1, CellView DEF CellViews, Inv, Shape
    <3>3. buffer[c] \in [1 .. ServerSize -> AnyServerByte] /\ received[c] \in 0 .. ServerSize
      BY BuffersAre
    <3> DEFINE buf == buffer[c]
               k == received[c]
               up == UpStream(w)
    <3>4. /\ buf \in [1 .. ServerSize -> AnyServerByte] /\ k \in 0 .. ServerSize
          /\ up \in Seq(AnyServerByte) /\ ServerSize \in Nat \ {0}
      BY <1>1, <3>3, SizesArePositive
    <3> HIDE DEF buf, k, up
    <3>5. Flow(buf, k, up) \in Seq(AnyServerByte)
      BY ONLY <3>4, FlowIs
    <3> QED
      BY <3>2, <3>5 DEF buf, k, up
  <2> QED
    BY <2>1, <2>2
<1>3. DownFlow(w) = Flow(taskBuffer[w], taken[w], toWorker[w])
  BY DEF DownFlow, Flow
<1>4. taskBuffer[w] \in [1 .. WorkerSize -> AnyWorkerByte] /\ taken[w] \in 0 .. WorkerSize
  BY BuffersAre
<1> DEFINE buf == taskBuffer[w]
           k == taken[w]
           down == toWorker[w]
<1>5. /\ buf \in [1 .. WorkerSize -> AnyWorkerByte] /\ k \in 0 .. WorkerSize
      /\ down \in Seq(AnyWorkerByte) /\ WorkerSize \in Nat \ {0}
  BY <1>1, <1>4, SizesArePositive
<1> HIDE DEF buf, k, down
<1>6. Flow(buf, k, down) \in Seq(AnyWorkerByte)
  BY ONLY <1>5, FlowIs
<1>7. Len(Flow(buf, k, down)) = k + Len(down)
  BY ONLY <1>5, FlowIs
<1> QED
  BY <1>2, <1>3, <1>6, <1>7 DEF buf, k, down

\* The dialogue sees no change of w.
SameView(w) ==
  /\ Credit(w)' = Credit(w) /\ Held(w)' = Held(w)
  /\ UpFlow(w)' = UpFlow(w) /\ DownFlow(w)' = DownFlow(w)

\* Nothing that belongs to w changes but its socket.
Untouched(w) ==
  /\ \A c \in Cell : socketFd'[c] = w <=> socketFd[c] = w
  /\ \A c \in CellsOf(w) :
       /\ requested'[c] = requested[c] /\ held'[c] = held[c]
       /\ buffer'[c] = buffer[c] /\ received'[c] = received[c]
  /\ UpStream(w)' = UpStream(w)
  /\ toWorker'[w] = toWorker[w] /\ taskBuffer'[w] = taskBuffer[w] /\ taken'[w] = taken[w]

LEMMA UntouchedView ==
  ASSUME OwnCells, OwnCells', NEW w \in Worker, Untouched(w)
  PROVE  SameView(w) /\ CellsOf(w)' = CellsOf(w)
<1>1. CellsOf(w)' = CellsOf(w)
  BY DEF Untouched, CellsOf
<1>2. DownFlow(w)' = DownFlow(w)
  BY DEF Untouched, DownFlow
<1>3. CASE CellsOf(w) = {}
  BY <1>1, <1>2, <1>3, CellView, CellViewNext DEF NoCellViews, SameView, Untouched
<1>4. CASE CellsOf(w) # {}
  <2>1. PICK c \in Cell : socketFd[c] = w /\ socketFd'[c] = w /\ c \in CellsOf(w)
    BY <1>4 DEF CellsOf, Untouched
  <2>2. /\ Credit(w) = requested[c] /\ Held(w) = held[c]
        /\ UpFlow(w) = Flow(buffer[c], received[c], UpStream(w))
    BY <2>1, CellView DEF CellViews
  <2>3. /\ Credit(w)' = requested'[c] /\ Held(w)' = held'[c]
        /\ UpFlow(w)' = Flow(buffer'[c], received'[c], UpStream(w)')
    BY <2>1, CellViewNext DEF CellViews, Flow
  <2> QED
    BY <1>1, <1>2, <2>1, <2>2, <2>3 DEF SameView, Untouched
<1> QED
  BY <1>1, <1>3, <1>4

\* Nor whether w lives and is heard of.
Seen(w) == SameView(w) /\ (CellsOf(w)' = {} <=> CellsOf(w) = {}) /\ sock'[w] = sock[w]

Others(w) == \A v \in Worker \ {w} : Seen(v)

\* What a step makes of the dialogue when it concerns w only.
LEMMA OneView ==
  ASSUME NEW w \in Worker, Others(w)
  PROVE  /\ Credits'   = [Credits EXCEPT ![w] = Credit(w)']
         /\ Holdings'  = [Holdings EXCEPT ![w] = Held(w)']
         /\ Uplinks'   = [Uplinks EXCEPT ![w] = Up(w)']
         /\ Downlinks' = [Downlinks EXCEPT ![w] = Down(w)']
         /\ Alive' = IF sock'[w] \in {"open", "torn"} THEN Alive \cup {w} ELSE Alive \ {w}
         /\ Heard' = IF CellsOf(w)' = {} THEN Heard \ {w} ELSE Heard \cup {w}
<1>1. \A v \in Worker \ {w} : /\ Credit(v)' = Credit(v) /\ Held(v)' = Held(v)
                              /\ Up(v)' = Up(v) /\ Down(v)' = Down(v)
                              /\ sock'[v] = sock[v] /\ (CellsOf(v)' = {} <=> CellsOf(v) = {})
  BY DEF Others, Seen, SameView, Up, Down
<1>2. /\ Credits'   = [Credits EXCEPT ![w] = Credit(w)']
      /\ Holdings'  = [Holdings EXCEPT ![w] = Held(w)']
  BY <1>1 DEF Credits, Holdings
<1>3. /\ Uplinks'   = [Uplinks EXCEPT ![w] = Up(w)']
      /\ Downlinks' = [Downlinks EXCEPT ![w] = Down(w)']
  BY <1>1 DEF Uplinks, Downlinks
<1>4. Alive' = IF sock'[w] \in {"open", "torn"} THEN Alive \cup {w} ELSE Alive \ {w}
  BY <1>1 DEF Alive
<1>5. Heard' = IF CellsOf(w)' = {} THEN Heard \ {w} ELSE Heard \cup {w}
  BY <1>1 DEF Heard
<1> QED
  BY <1>2, <1>3, <1>4, <1>5

LEMMA ViewOf ==
  ASSUME NEW w \in Worker
  PROVE  /\ Credits[w] = Credit(w) /\ Holdings[w] = Held(w)
         /\ Uplinks[w] = Up(w) /\ Downlinks[w] = Down(w)
         /\ Credits   = [Credits EXCEPT ![w] = Credit(w)]
         /\ Holdings  = [Holdings EXCEPT ![w] = Held(w)]
         /\ Uplinks   = [Uplinks EXCEPT ![w] = Up(w)]
         /\ Downlinks = [Downlinks EXCEPT ![w] = Down(w)]
         /\ w \in Alive <=> sock[w] \in {"open", "torn"}
         /\ w \in Heard <=> CellsOf(w) # {}
  BY DEF Credits, Holdings, Uplinks, Downlinks, Alive, Heard

LEMMA NoView ==
  ASSUME \A w \in Worker : Seen(w), UNCHANGED <<pool, working, unrequested>>
  PROVE  UNCHANGED Carried!vars
<1>1. UNCHANGED <<Credits, Holdings>>
  BY DEF Seen, SameView, Credits, Holdings
<1>2. UNCHANGED <<Uplinks, Downlinks>>
  BY DEF Seen, SameView, Uplinks, Downlinks, Up, Down
<1>3. UNCHANGED <<Alive, Heard>>
  BY DEF Seen, Alive, Heard
<1> QED
  BY <1>1, <1>2, <1>3 DEF Carried!vars

-----------------------------------------------------------------------------
(* The invariant                                                           *)

\* Between two steps every flow is one of whole frames, unless a death cut it.
WholeFlows ==
  \A w \in Worker :
    /\ Whole(DownFlow(w), WorkerSize)
    /\ sock[w] # "gone" => Whole(UpFlow(w), ServerSize)

NobodyHolds == \A c \in FreeCells : held[c] = {}

Orderly == Running /\ WholeFlows /\ NobodyHolds

Tidy == Inv /\ Orderly /\ Carried!Books

LEMMA OthersFlow ==
  ASSUME WholeFlows, NEW w \in Worker, Others(w), Whole(DownFlow(w)', WorkerSize),
         sock'[w] # "gone" => Whole(UpFlow(w)', ServerSize)
  PROVE  WholeFlows'
<1> SUFFICES ASSUME NEW v \in Worker
             PROVE  /\ Whole(DownFlow(v)', WorkerSize)
                    /\ sock'[v] # "gone" => Whole(UpFlow(v)', ServerSize)
  BY DEF WholeFlows, Whole
<1>1. CASE v = w
  BY <1>1
<1>2. CASE v # w
  BY <1>2 DEF Others, Seen, SameView, WholeFlows
<1> QED
  BY <1>1, <1>2

LEMMA NobodysFlow ==
  ASSUME WholeFlows, \A w \in Worker : Seen(w)
  PROVE  WholeFlows'
  BY DEF Seen, SameView, WholeFlows, Whole

\* A step of a cell touches no worker but the one it serves.
LEMMA CellTouches ==
  ASSUME Inv, OwnCells', NEW c \in Cell, NEW w \in Worker,
         socketFd[c] \in {w, NoFd}, socketFd'[c] \in {w, NoFd},
         \A d \in Cell \ {c} : /\ socketFd'[d] = socketFd[d]
                               /\ requested'[d] = requested[d] /\ held'[d] = held[d]
                               /\ buffer'[d] = buffer[d] /\ received'[d] = received[d],
         \A v \in Worker \ {w} : toServer'[v] = toServer[v] /\ toWorker'[v] = toWorker[v],
         UNCHANGED workerVars
  PROVE  Others(w)
<1> SUFFICES ASSUME NEW v \in Worker \ {w} PROVE Seen(v)
  BY DEF Others
<1>1. UpStream(v)' = UpStream(v)
  BY DEF UpStream, workerVars
<1>2. Untouched(v)
  BY <1>1, SizesArePositive DEF Untouched, CellsOf, workerVars
<1> QED
  BY <1>2, UntouchedView DEF Seen, Inv, Shape, workerVars

\* A step of a worker touches no other one, and no cell.
LEMMA WorkerTouches ==
  ASSUME Inv, OwnCells', NEW w \in Worker,
         UNCHANGED <<socketFd, received, buffer, requested, held>>,
         \A v \in Worker \ {w} :
           /\ sock'[v] = sock[v] /\ taken'[v] = taken[v] /\ taskBuffer'[v] = taskBuffer[v]
           /\ unsent'[v] = unsent[v] /\ toServer'[v] = toServer[v] /\ toWorker'[v] = toWorker[v]
  PROVE  /\ Others(w)
         /\ Credit(w)' = Credit(w) /\ Held(w)' = Held(w) /\ CellsOf(w)' = CellsOf(w)
         /\ UpStream(w)' = UpStream(w) => UpFlow(w)' = UpFlow(w)
<1>1. ASSUME NEW v \in Worker \ {w} PROVE Seen(v)
  <2>1. UpStream(v)' = UpStream(v)
    BY DEF UpStream
  <2>2. Untouched(v)
    BY <2>1 DEF Untouched, CellsOf
  <2> QED
    BY <2>2, UntouchedView DEF Seen, Inv, Shape
<1>2. CellsOf(w)' = CellsOf(w)
  BY DEF CellsOf
<1>3. Credit(w)' = Credit(w) /\ Held(w)' = Held(w)
  BY <1>2 DEF Credit, Held, OfCell
<1>4. UpStream(w)' = UpStream(w) => UpFlow(w)' = UpFlow(w)
  BY <1>2 DEF UpFlow
<1> QED
  BY <1>1, <1>2, <1>3, <1>4 DEF Others

-----------------------------------------------------------------------------
(* Connections                                                             *)

LEMMA ConnectCarried ==
  ASSUME Tidy, Inv', NEW w \in Worker, Connect(w)
  PROVE  Carried!Connect(w) /\ Orderly'
<1>1. /\ sock[w] = "none" /\ sock' = [sock EXCEPT ![w] = "open"]
      /\ UNCHANGED <<pc, socketFd, received, buffer, requested, held, pool>>
      /\ UNCHANGED <<taken, taskBuffer, working, unrequested, unsent, toServer, toWorker>>
      /\ sock \in [Worker -> {"none", "open", "gone", "torn"}]
  BY DEF Connect, Tidy, Inv, Shape, TypeOK
<1>2. OwnCells'
  BY DEF Inv, Shape
<1>3. UpStream(w)' = UpStream(w) /\ DownFlow(w)' = DownFlow(w) /\ sock'[w] = "open"
  BY <1>1 DEF UpStream, DownFlow
<1>4. /\ Others(w) /\ UpFlow(w)' = UpFlow(w)
      /\ Credit(w)' = Credit(w) /\ Held(w)' = Held(w) /\ CellsOf(w)' = CellsOf(w)
  BY <1>1, <1>2, <1>3, WorkerTouches DEF Tidy
<1>5. Up(w)' = Up(w) /\ Down(w)' = Down(w)
  BY <1>3, <1>4 DEF Up, Down
<1>6. /\ UNCHANGED <<Credits, Holdings, Uplinks, Downlinks, Heard>>
      /\ Alive' = Alive \cup {w}
  BY <1>3, <1>4, <1>5, OneView, ViewOf
<1>7. Carried!Connect(w)
  BY <1>1, <1>6 DEF Carried!Connect
<1>8. WholeFlows'
  BY <1>1, <1>3, <1>4, OthersFlow DEF Tidy, Orderly, WholeFlows
<1> QED
  BY <1>1, <1>7, <1>8 DEF Tidy, Orderly, Running, NobodyHolds, FreeCells

LEMMA AcceptCarried ==
  ASSUME Tidy, Inv', NEW w \in Worker, NEW c \in Cell, AcceptConnection(w, c)
  PROVE  Carried!Accept(w) /\ Orderly'
<1>1. /\ w \in backlog /\ c \in FreeCells
      /\ socketFd' = [socketFd EXCEPT ![c] = w]
      /\ received' = [received EXCEPT ![c] = 0]
      /\ requested' = [requested EXCEPT ![c] = 0]
      /\ UNCHANGED <<pc, buffer, held, pool, workerVars, toServer, toWorker>>
  BY DEF AcceptConnection
<1>2. /\ socketFd \in [Cell -> Worker \cup {NoFd}] /\ received \in [Cell -> 0 .. ServerSize - 1]
      /\ requested \in [Cell -> Nat] /\ OwnCells /\ OwnCells'
  BY DEF Tidy, Inv, Shape, TypeOK
<1>3. /\ socketFd[c] = NoFd /\ socketFd'[c] = w /\ received'[c] = 0 /\ requested'[c] = 0
      /\ held'[c] = {} /\ buffer'[c] = buffer[c]
      /\ CellsOf(w) = {}
  BY <1>1, <1>2 DEF FreeCells, Tidy, Orderly, NobodyHolds, OwnCells, CellsOf
<1>4. Others(w)
  BY <1>1, <1>2, <1>3, CellTouches DEF Tidy
<1>5. UpStream(w)' = UpStream(w) /\ DownFlow(w)' = DownFlow(w) /\ sock' = sock
  BY <1>1 DEF UpStream, DownFlow, workerVars
<1>6. Credit(w) = 0 /\ Held(w) = {} /\ UpFlow(w) = UpStream(w)
  BY <1>3, CellView DEF NoCellViews
<1>7. /\ CellsOf(w)' # {} /\ Credit(w)' = 0 /\ Held(w)' = {}
      /\ UpFlow(w)' = Flow(buffer[c], 0, UpStream(w))
  BY <1>2, <1>3, <1>5, CellViewNext DEF CellViews, Flow
<1>8. UpFlow(w)' = UpFlow(w)
  <2>1. /\ buffer[c] \in [1 .. ServerSize -> AnyServerByte] /\ UpStream(w) \in Seq(AnyServerByte)
        /\ ServerSize \in Nat \ {0} /\ 0 \in 0 .. ServerSize
    BY <1>6, BuffersAre, FlowsAre, SizesArePositive DEF Tidy
  <2>2. Flow(buffer[c], 0, UpStream(w)) = UpStream(w)
    BY ONLY <2>1, FlowIs
  <2> QED
    BY <2>2, <1>6, <1>7
<1>9. Up(w)' = Up(w) /\ Down(w)' = Down(w)
  BY <1>5, <1>8 DEF Up, Down
<1>10. UNCHANGED <<Credits, Holdings, Uplinks, Downlinks>> /\ Heard' = Heard \cup {w}
  <2>1. Credit(w)' = Credit(w) /\ Held(w)' = Held(w)
    BY <1>6, <1>7
  <2>2. UNCHANGED <<Credits, Holdings, Uplinks, Downlinks>>
    BY <1>4, <1>9, <2>1, OneView, ViewOf
  <2>3. Heard' = Heard \cup {w}
    BY <1>4, <1>7, OneView
  <2> QED
    BY <2>2, <2>3
<1>11. UNCHANGED Alive
  BY <1>5 DEF Alive
<1>12. Carried!Accept(w)
  BY <1>1, <1>10, <1>11 DEF Carried!Accept, workerVars
<1>13. WholeFlows'
  BY <1>4, <1>5, <1>8, OthersFlow DEF Tidy, Orderly, WholeFlows
<1>14. NobodyHolds'
  BY <1>1, <1>2 DEF Tidy, Orderly, NobodyHolds, FreeCells
<1> QED
  BY <1>1, <1>12, <1>13, <1>14 DEF Tidy, Orderly, Running

LEMMA NothingIsWhole == \A size \in Nat : Whole(<<>>, size)
<1>1. \A size \in Nat : Len(<<>>) = 0 * size
  OBVIOUS
<1> QED
  BY <1>1 DEF Whole

LEMMA DieCarried ==
  ASSUME Tidy, Inv', NEW w \in Worker, WorkerDies(w)
  PROVE  Carried!Die(w) /\ Orderly'
<1>1. /\ UNCHANGED <<serverVars, taskBuffer, unrequested>>
      /\ sock'[w] = "gone" /\ unsent'[w] = <<>> /\ toWorker'[w] = <<>> /\ taken'[w] = 0
      /\ working' = [working EXCEPT ![w] = {}]
      /\ \A v \in Worker \ {w} :
           /\ sock'[v] = sock[v] /\ taken'[v] = taken[v] /\ taskBuffer'[v] = taskBuffer[v]
           /\ unsent'[v] = unsent[v] /\ toServer'[v] = toServer[v] /\ toWorker'[v] = toWorker[v]
  BY DEF WorkerDies, Tidy, Inv, Shape, TypeOK
<1>2. OwnCells /\ OwnCells'
  BY DEF Tidy, Inv, Shape
<1>3. /\ Others(w) /\ Credit(w)' = Credit(w) /\ Held(w)' = Held(w) /\ CellsOf(w)' = CellsOf(w)
  BY <1>1, <1>2, WorkerTouches DEF Tidy, serverVars
<1>4. PICK n \in 0 .. Len(UpStream(w)) : UpStream(w)' = SubSeq(UpStream(w), 1, n)
  <2>1. PICK n \in 0 .. Len(toServer[w]) : toServer'[w] = SubSeq(toServer[w], 1, n)
    BY DEF WorkerDies, Tidy, Inv, Shape, TypeOK
  <2>2. toServer[w] \in Seq(ServerByte) /\ unsent[w] \in Seq(ServerByte)
    BY DEF Tidy, Inv, Shape, TypeOK
  <2>3. UpStream(w)' = SubSeq(UpStream(w), 1, n)
    <3>1. UpStream(w)' = SubSeq(toServer[w], 1, n) \o <<>>
      BY <1>1, <2>1 DEF UpStream
    <3>2. SubSeq(toServer[w], 1, n) \o <<>> = SubSeq(toServer[w] \o unsent[w], 1, n)
      BY <2>1, <2>2, StartOfConcatenation
    <3> QED
      BY <3>1, <3>2 DEF UpStream
  <2>4. n \in 0 .. Len(UpStream(w))
    <3> DEFINE a == toServer[w]
               b == unsent[w]
    <3>1. a \in Seq(ServerByte) /\ b \in Seq(ServerByte) /\ n \in 0 .. Len(a)
      BY <2>1, <2>2
    <3> HIDE DEF a, b
    <3>2. Len(a \o b) = Len(a) + Len(b) /\ Len(a) \in Nat /\ Len(b) \in Nat
      BY ONLY <3>1
    <3>3. n \in 0 .. Len(a \o b)
      BY ONLY <3>1, <3>2
    <3> QED
      BY <3>3 DEF a, b, UpStream
  <2> QED
    BY <2>3, <2>4
<1>5. \E m \in 0 .. Len(UpFlow(w)) : UpFlow(w)' = SubSeq(UpFlow(w), 1, m)
  <2>1. CASE CellsOf(w) = {}
    BY <2>1, <1>3, <1>4, CellView, CellViewNext DEF NoCellViews
  <2>2. CASE CellsOf(w) # {}
    <3>1. PICK c \in Cell : socketFd[c] = w
      BY <2>2 DEF CellsOf
    <3> DEFINE p == SubSeq(buffer[c], 1, received[c])
               u == UpStream(w)
    <3>2. UpFlow(w) = p \o u
      BY <3>1, <1>2, CellView DEF CellViews, Flow
    <3>3. UpFlow(w)' = p \o SubSeq(u, 1, n)
      BY <3>1, <1>1, <1>2, <1>4, CellViewNext DEF CellViews, Flow, serverVars
    <3>4. u \in Seq(AnyServerByte)
      <4>1. u \in Seq(ServerByte)
        BY StreamIsTyped DEF Tidy, Inv
      <4> QED
        BY <4>1 DEF AnyServerByte
    <3>5. p \in Seq(AnyServerByte)
      BY <3>4, BuffersAre, FlowIs, SizesArePositive DEF Tidy
    <3>6. n \in 0 .. Len(u)
      BY <1>4
    <3> HIDE DEF p, u
    <3>7. /\ p \o SubSeq(u, 1, n) = SubSeq(p \o u, 1, Len(p) + n)
          /\ Len(p) + n \in 0 .. Len(p \o u)
      BY <3>4, <3>5, <3>6, FlowCut
    <3> QED
      BY <3>2, <3>3, <3>7
  <2> QED
    BY <2>1, <2>2
<1>6. \E k \in 0 .. Len(Up(w)) : Up(w)' = SubSeq(Up(w), 1, k)
  <2>1. PICK m \in 0 .. Len(UpFlow(w)) : UpFlow(w)' = SubSeq(UpFlow(w), 1, m)
    BY <1>5
  <2>2. UpFlow(w) \in Seq(AnyServerByte)
    BY FlowsAre DEF Tidy
  <2> DEFINE f == UpFlow(w)
  <2>3. f \in Seq(AnyServerByte) /\ m \in 0 .. Len(f) /\ ServerSize \in Nat \ {0}
    BY <2>1, <2>2, SizesArePositive
  <2> HIDE DEF f
  <2>4. \E k \in 0 .. Len(Messages(f, ServerSize)) :
          Messages(SubSeq(f, 1, m), ServerSize) = SubSeq(Messages(f, ServerSize), 1, k)
    BY ONLY <2>3, MessagesLost
  <2> QED
    BY <2>1, <2>4 DEF Up, f
<1>7. DownFlow(w)' = <<>>
  <2>1. taskBuffer'[w] \in [1 .. WorkerSize -> AnyWorkerByte]
    BY <1>1, BuffersAre DEF Tidy
  <2>2. SubSeq(taskBuffer'[w], 1, 0) = <<>>
    BY <2>1
  <2> QED
    BY <1>1, <2>2 DEF DownFlow
<1>8. Down(w)' = <<>>
  BY <1>7, NoMessages, SizesArePositive DEF Down
<1>9. /\ UNCHANGED <<Credits, Holdings, Heard>> /\ Alive' = Alive \ {w}
      /\ \E k \in 0 .. Len(Uplinks[w]) : Uplinks' = [Uplinks EXCEPT ![w] = SubSeq(@, 1, k)]
      /\ Downlinks' = [Downlinks EXCEPT ![w] = <<>>]
  <2>1. /\ Alive' = Alive \ {w} /\ UNCHANGED <<Credits, Holdings, Heard>>
        /\ Downlinks' = [Downlinks EXCEPT ![w] = <<>>]
    <3>1. UNCHANGED <<Credits, Holdings>>
      BY <1>3, OneView, ViewOf
    <3>2. Alive' = Alive \ {w}
      BY <1>1, <1>3, OneView
    <3>3. UNCHANGED Heard
      BY <1>1, <1>3 DEF Heard, CellsOf, serverVars
    <3>4. Downlinks' = [Downlinks EXCEPT ![w] = <<>>]
      BY <1>3, <1>8, OneView
    <3> QED
      BY <3>1, <3>2, <3>3, <3>4
  <2>2. PICK k \in 0 .. Len(Up(w)) : Up(w)' = SubSeq(Up(w), 1, k)
    BY <1>6
  <2>3. Uplinks' = [Uplinks EXCEPT ![w] = SubSeq(Uplinks[w], 1, k)] /\ k \in 0 .. Len(Uplinks[w])
    BY <1>3, <2>2, OneView, ViewOf
  <2> QED
    BY <2>1, <2>3
<1>10. Carried!Die(w)
  BY <1>1, <1>9 DEF Carried!Die, serverVars
<1>11. WholeFlows'
  BY <1>1, <1>3, <1>7, NothingIsWhole, OthersFlow, SizesArePositive DEF Tidy, Orderly
<1> QED
  BY <1>1, <1>10, <1>11 DEF Tidy, Orderly, Running, NobodyHolds, FreeCells, serverVars

LEMMA DropCarried ==
  ASSUME Tidy, Inv', NEW c \in Cell, DropConnection(c)
  PROVE  /\ \E w \in Worker : Carried!Forget(w)
         /\ Orderly'
<1> PICK w \in Worker : w = socketFd[c]
  BY DEF DropConnection, Tidy, Inv, Shape, TypeOK
<1>1. /\ sock[w] = "gone"
      /\ toServer' = [toServer EXCEPT ![w] = <<>>]
      /\ socketFd' = [socketFd EXCEPT ![c] = NoFd]
      /\ pool' = pool \cup held[c]
      /\ held' = [held EXCEPT ![c] = {}]
      /\ UNCHANGED <<pc, backlog, received, buffer, requested, workerVars, toWorker>>
  BY DEF DropConnection
<1>2. /\ socketFd \in [Cell -> Worker \cup {NoFd}] /\ held \in [Cell -> SUBSET Task]
      /\ toServer \in [Worker -> Seq(ServerByte)] /\ OwnCells /\ OwnCells'
  BY DEF Tidy, Inv, Shape, TypeOK
<1>3. Others(w)
  BY <1>1, <1>2, CellTouches DEF Tidy
<1>4. CellsOf(w)' = {}
  <2>1. \A d \in Cell : socketFd[d] = w => d = c
    BY <1>2, SizesArePositive DEF OwnCells
  <2> QED
    BY <2>1, <1>1, <1>2, SizesArePositive DEF CellsOf
<1>5. UpStream(w)' = <<>>
  <2>1. toServer'[w] = <<>> /\ unsent'[w] = <<>>
    BY <1>1, <1>2 DEF OwnCells, workerVars
  <2> QED
    BY <2>1 DEF UpStream
<1>6. Credit(w)' = 0 /\ Held(w)' = {} /\ UpFlow(w)' = <<>> /\ Held(w) = held[c]
  BY <1>2, <1>4, <1>5, CellView, CellViewNext DEF NoCellViews, CellViews
<1>7. DownFlow(w)' = DownFlow(w) /\ sock' = sock
  BY <1>1 DEF DownFlow, workerVars
<1>8. Up(w)' = <<>> /\ Down(w)' = Down(w)
  BY <1>6, <1>7, NoMessages, SizesArePositive DEF Up, Down
<1>9. /\ Credits' = [Credits EXCEPT ![w] = 0] /\ Holdings' = [Holdings EXCEPT ![w] = {}]
      /\ Uplinks' = [Uplinks EXCEPT ![w] = <<>>] /\ UNCHANGED Downlinks
      /\ Heard' = Heard \ {w} /\ w \notin Alive /\ Holdings[w] = held[c]
  BY <1>1, <1>3, <1>4, <1>6, <1>8, OneView, ViewOf
<1>10. UNCHANGED Alive
  BY <1>7 DEF Alive
<1>11. Carried!Forget(w)
  BY <1>1, <1>9, <1>10 DEF Carried!Forget, workerVars
<1>12. WholeFlows'
  BY <1>1, <1>3, <1>7, OthersFlow DEF Tidy, Orderly, WholeFlows
<1>13. NobodyHolds'
  BY <1>1, <1>2 DEF Tidy, Orderly, NobodyHolds, FreeCells
<1> QED
  BY <1>1, <1>11, <1>12, <1>13 DEF Tidy, Orderly, Running

-----------------------------------------------------------------------------
(* Receiving                                                               *)

\* recv() at cell c touches the flow of its worker only, and takes a message
\* out of it when it completes a frame.
LEMMA ServerReceives ==
  ASSUME Tidy, Inv', NEW c \in Cell, NEW n \in 1 .. ServerSize, NEW w \in Worker, w = socketFd[c],
         ReceivePart(c, n) \/ ReceiveFrame(c, n)
  PROVE  LET full == Filled(buffer[c], received[c], toServer[w], n) IN
         /\ Others(w) /\ CellsOf(w) # {} /\ CellsOf(w)' # {} /\ sock' = sock
         /\ DownFlow(w)' = DownFlow(w)
         /\ Credit(w) = requested[c] /\ Credit(w)' = requested'[c]
         /\ Held(w) = held[c] /\ Held(w)' = held'[c]
         /\ received[c] + n # ServerSize => UpFlow(w)' = UpFlow(w)
         /\ received[c] + n = ServerSize =>
              /\ Len(UpFlow(w)) >= ServerSize
              /\ UpFlow(w)' = AfterFirst(UpFlow(w), ServerSize)
              /\ UpFlow(w)[ServerSize] = full[ServerSize]
              /\ IsFrame(full) /\ Frame(full) \in ServerFrame
<1> DEFINE k == received[c]
           buf == buffer[c]
           full == Filled(buf, k, toServer[w], n)
           u == UpStream(w)
<1>1. /\ toServer' = [toServer EXCEPT ![w] = AfterFirst(@, n)]
      /\ buffer' = [buffer EXCEPT ![c] = full]
      /\ received' = [received EXCEPT ![c] = Count(k, n, ServerSize)]
      /\ requested' = requested \/ requested' = [requested EXCEPT ![c] = @ + 1]
      /\ held' = held \/ \E t : held' = [held EXCEPT ![c] = @ \ {t}]
      /\ UNCHANGED <<socketFd, workerVars, toWorker>>
  <2>1. CASE ReceivePart(c, n)
    BY <2>1 DEF ReceivePart, Count
  <2>2. CASE ReceiveFrame(c, n)
    BY <2>2 DEF ReceiveFrame
  <2> QED
    BY <2>1, <2>2
<1>2. /\ toServer \in [Worker -> Seq(ServerByte)]
      /\ received \in [Cell -> 0 .. ServerSize - 1]
      /\ buffer \in [Cell -> [1 .. ServerSize -> ServerByte \cup {Unwritten}]]
      /\ requested \in [Cell -> Nat] /\ held \in [Cell -> SUBSET Task]
      /\ OwnCells /\ OwnCells'
  BY DEF Tidy, Inv, Shape, TypeOK
<1>3. Others(w) /\ sock' = sock /\ DownFlow(w)' = DownFlow(w)
  <2>1. \A d \in Cell \ {c} : /\ socketFd'[d] = socketFd[d]
                              /\ requested'[d] = requested[d] /\ held'[d] = held[d]
                              /\ buffer'[d] = buffer[d] /\ received'[d] = received[d]
    BY <1>1, <1>2
  <2>2. \A v \in Worker \ {w} : toServer'[v] = toServer[v] /\ toWorker'[v] = toWorker[v]
    BY <1>1, <1>2
  <2>3. socketFd[c] \in {w, NoFd} /\ socketFd'[c] \in {w, NoFd}
    BY <1>1
  <2>4. Others(w)
    BY <1>1, <1>2, <2>1, <2>2, <2>3, CellTouches DEF Tidy
  <2> QED
    BY <1>1, <2>4 DEF DownFlow, workerVars
<1>4. /\ buffer'[c] = full /\ received'[c] = Count(k, n, ServerSize) /\ socketFd'[c] = w
  BY <1>1, <1>2
<1>5. /\ u' = AfterFirst(u, n)
      /\ full = Filled(buf, k, u, n)
      /\ Arriving(ServerByte, AnyServerByte, ServerSize, u, buf, k, n)
  BY PartReceived DEF Tidy, AnyServerByte
<1>6. /\ CellsOf(w) # {} /\ CellsOf(w)' # {}
      /\ Credit(w) = requested[c] /\ Credit(w)' = requested'[c]
      /\ Held(w) = held[c] /\ Held(w)' = held'[c]
      /\ UpFlow(w) = Flow(buf, k, u)
      /\ UpFlow(w)' = Flow(full, Count(k, n, ServerSize), AfterFirst(u, n))
  <2>1. /\ CellsOf(w) # {} /\ Credit(w) = requested[c] /\ Held(w) = held[c]
        /\ UpFlow(w) = Flow(buf, k, u)
    BY <1>2, CellView DEF CellViews
  <2>2. /\ CellsOf(w)' # {} /\ Credit(w)' = requested'[c] /\ Held(w)' = held'[c]
        /\ UpFlow(w)' = Flow(buffer'[c], received'[c], u')
    BY <1>2, <1>4, CellViewNext DEF CellViews, Flow
  <2> QED
    BY <1>4, <1>5, <2>1, <2>2
<1> HIDE DEF k, buf, full, u
<1>7. /\ ServerSize \in Nat \ {0} /\ u \in Seq(AnyServerByte) /\ n \in 1 .. Len(u)
      /\ buf \in [1 .. ServerSize -> AnyServerByte] /\ k \in 0 .. ServerSize - 1
      /\ n <= ServerSize - k /\ n \in 0 .. Len(u)
  <2>1. u \in Seq(ServerByte)
    BY <1>5 DEF Arriving
  <2>2. u \in Seq(AnyServerByte)
    BY <2>1 DEF AnyServerByte
  <2> QED
    BY <1>5, <2>2 DEF Arriving
<1>8. /\ Flow(full, k + n, AfterFirst(u, n)) = Flow(buf, k, u)
      /\ k + n = ServerSize =>
           /\ Len(Flow(buf, k, u)) >= ServerSize
           /\ AfterFirst(Flow(buf, k, u), ServerSize) = AfterFirst(u, n)
           /\ Flow(buf, k, u)[ServerSize] = full[ServerSize]
  <2>1. /\ Flow(Filled(buf, k, u, n), k + n, AfterFirst(u, n)) = Flow(buf, k, u)
        /\ k + n = ServerSize =>
             /\ Len(Flow(buf, k, u)) >= ServerSize
             /\ AfterFirst(Flow(buf, k, u), ServerSize) = AfterFirst(u, n)
             /\ Flow(buf, k, u)[ServerSize] = Filled(buf, k, u, n)[ServerSize]
    BY ONLY <1>7, FlowReceived
  <2>2. full = Filled(buf, k, u, n)
    BY <1>5
  <2> QED
    BY ONLY <2>1, <2>2
<1>9. /\ full \in [1 .. ServerSize -> AnyServerByte]
      /\ k + n = ServerSize => IsFrame(full) /\ full[1].at = 1
  BY <1>5, ReceivingKeepsFrames
<1>10. k + n # ServerSize => UpFlow(w)' = UpFlow(w)
  BY <1>6, <1>8 DEF Count
<1>11. ASSUME k + n = ServerSize
       PROVE  /\ UpFlow(w)' = AfterFirst(UpFlow(w), ServerSize)
              /\ Frame(full) \in ServerFrame
  <2>1. Flow(full, 0, AfterFirst(u, n)) = AfterFirst(u, n)
    <3> DEFINE r == AfterFirst(u, n)
    <3>1. /\ r \in Seq(AnyServerByte) /\ 0 \in 0 .. ServerSize /\ ServerSize \in Nat \ {0}
          /\ full \in [1 .. ServerSize -> AnyServerByte]
      BY <1>7, <1>9, RestOfSequence
    <3> HIDE DEF r
    <3>2. Flow(full, 0, r) = r
      BY ONLY <3>1, FlowIs
    <3> QED
      BY <3>2 DEF r
  <2>2. Frame(full) \in ServerFrame
    BY <1>7, <1>9, <1>11, BufferedFrame DEF AnyServerByte, ServerByte
  <2> QED
    BY <1>6, <1>8, <1>11, <2>1, <2>2 DEF Count
<1> QED
  BY <1>3, <1>6, <1>8, <1>9, <1>10, <1>11 DEF k, buf, full

LEMMA PartCarried ==
  ASSUME Tidy, Inv', NEW c \in Cell, NEW n \in 1 .. ServerSize, ReceivePart(c, n)
  PROVE  UNCHANGED Carried!vars /\ Orderly'
<1> PICK w \in Worker : w = socketFd[c]
  BY DEF ReceivePart, Tidy, Inv, Shape, TypeOK
<1>1. /\ received[c] + n # ServerSize
      /\ UNCHANGED <<pc, backlog, socketFd, requested, held, pool, workerVars, toWorker>>
  BY DEF ReceivePart
<1>2. /\ Others(w) /\ CellsOf(w) # {} /\ CellsOf(w)' # {} /\ sock' = sock
      /\ DownFlow(w)' = DownFlow(w) /\ UpFlow(w)' = UpFlow(w)
      /\ Credit(w)' = Credit(w) /\ Held(w)' = Held(w)
  BY <1>1, ServerReceives
<1>3. \A v \in Worker : Seen(v)
  BY <1>2 DEF Others, Seen, SameView
<1>4. UNCHANGED Carried!vars
  BY <1>1, <1>3, NoView DEF workerVars
<1>5. WholeFlows'
  BY <1>3, NobodysFlow DEF Tidy, Orderly
<1> QED
  BY <1>1, <1>4, <1>5 DEF Tidy, Orderly, Running, NobodyHolds, FreeCells

LEMMA FrameCarried ==
  ASSUME Tidy, Inv', NEW c \in Cell, NEW n \in 1 .. ServerSize, ReceiveFrame(c, n)
  PROVE  /\ \E w \in Worker : Carried!Hear(w)
         /\ Orderly'
<1> PICK w \in Worker : w = socketFd[c]
  BY DEF ReceiveFrame, Tidy, Inv, Shape, TypeOK
<1> DEFINE full == Filled(buffer[c], received[c], toServer[w], n)
           f == Frame(full)
<1>1. /\ received[c] + n = ServerSize /\ w # NoFd
      /\ requested' = [requested EXCEPT ![c] = @ + 1]
      /\ \/ f = Request /\ UNCHANGED <<pc, held>>
         \/ /\ f \in ServerFrame \ {Request} /\ f.task \in held[c]
            /\ held' = [held EXCEPT ![c] = @ \ {f.task}]
            /\ UNCHANGED pc
         \/ ~IsFrame(full) \/ f \notin ServerFrame
         \/ f \in ServerFrame \ {Request} /\ f.task \notin held[c]
      /\ UNCHANGED <<backlog, socketFd, pool, workerVars, toWorker>>
  BY DEF ReceiveFrame
<1>2. /\ Others(w) /\ CellsOf(w) # {} /\ CellsOf(w)' # {} /\ sock' = sock
      /\ DownFlow(w)' = DownFlow(w)
      /\ Credit(w) = requested[c] /\ Credit(w)' = requested'[c]
      /\ Held(w) = held[c] /\ Held(w)' = held'[c]
      /\ Len(UpFlow(w)) >= ServerSize
      /\ UpFlow(w)' = AfterFirst(UpFlow(w), ServerSize)
      /\ UpFlow(w)[ServerSize] = full[ServerSize]
      /\ IsFrame(full) /\ f \in ServerFrame
  BY <1>1, ServerReceives
<1>3. full[ServerSize].of = f
  <2>1. ServerSize \in DOMAIN full
    <3>1. buffer[c] \in [1 .. ServerSize -> AnyServerByte] /\ ServerSize \in 1 .. ServerSize
      BY BuffersAre, SizesArePositive DEF Tidy
    <3> QED
      BY <3>1 DEF Filled
  <2>2. full[ServerSize] = Byte(f, ServerSize)
    BY <1>2, <2>1 DEF IsFrame
  <2> QED
    BY <2>2 DEF Byte
<1> HIDE DEF full, f
\* The flow loses its first frame, the dialogue its first message.
<1>4. /\ Up(w) # <<>> /\ Head(Up(w)) = f /\ Up(w)' = Tail(Up(w))
      /\ Whole(UpFlow(w), ServerSize) => Whole(UpFlow(w)', ServerSize)
  <2>1. UpFlow(w) \in Seq(AnyServerByte) /\ ServerSize \in Nat \ {0}
    BY FlowsAre, SizesArePositive DEF Tidy
  <2> DEFINE s == UpFlow(w)
  <2>2. s \in Seq(AnyServerByte) /\ Len(s) >= ServerSize
    BY <2>1, <1>2
  <2> HIDE DEF s
  <2>3. /\ Messages(s, ServerSize) # <<>>
        /\ Head(Messages(s, ServerSize)) = s[ServerSize].of
        /\ Messages(AfterFirst(s, ServerSize), ServerSize) = Tail(Messages(s, ServerSize))
        /\ Whole(s, ServerSize) => Whole(AfterFirst(s, ServerSize), ServerSize)
    BY <2>1, <2>2, MessageLess
  <2> QED
    BY <1>2, <1>3, <2>3 DEF Up, s
<1>5. Down(w)' = Down(w) /\ Credit(w)' = Credit(w) + 1
  <2>1. requested'[c] = requested[c] + 1
    BY <1>1 DEF Tidy, Inv, Shape, TypeOK
  <2> QED
    BY <1>2, <2>1 DEF Down
\* A result is of a task that was handed out to its sender.
<1>6. f # Request => f.task \in held[c]
  <2>1. f # Carried!Request => f.task \in Carried!Named(Uplinks[w])
    <3>1. /\ Uplinks[w] \in Seq(Carried!ToServer) /\ Uplinks[w] # <<>> /\ Head(Uplinks[w]) = f
      BY <1>4, ViewOf DEF Tidy, Carried!Books, Carried!TypeOK
    <3> QED
      BY <3>1, Carried!MessagesByTask, Carried!MessageTaken
  <2>2. Carried!Named(Uplinks[w]) \subseteq Holdings[w]
    BY DEF Tidy, Carried!Books, Carried!Entrusted
  <2> QED
    BY <2>1, <2>2, <1>2, ViewOf DEF Carried!Request, Request
<1>7. \/ f = Request /\ UNCHANGED <<pc, held>>
      \/ /\ f \in ServerFrame \ {Request} /\ f.task \in held[c]
         /\ held' = [held EXCEPT ![c] = @ \ {f.task}]
         /\ UNCHANGED pc
  BY <1>1, <1>2, <1>6
<1>8. \/ f = Carried!Request /\ Held(w)' = Held(w)
      \/ /\ f = Carried!Result(f.task) /\ f.task \in Held(w)
         /\ Held(w)' = Held(w) \ {f.task}
  <2>1. CASE f = Request
    BY <2>1, <1>2, <1>7 DEF Carried!Request, Request
  <2>2. CASE f # Request
    <3>1. PICK t \in Task : f = Result(t)
      BY <2>2, <1>2 DEF ServerFrame
    <3>2. f = Carried!Result(f.task)
      BY <3>1 DEF Result, Carried!Result
    <3>3. held'[c] = held[c] \ {f.task}
      BY <2>2, <1>7 DEF Tidy, Inv, Shape, TypeOK
    <3> QED
      BY <3>2, <3>3, <1>2, <1>6, <2>2
  <2> QED
    BY <2>1, <2>2
<1>9. /\ Credits' = [Credits EXCEPT ![w] = Credit(w) + 1]
      /\ Holdings' = [Holdings EXCEPT ![w] = Held(w)']
      /\ Uplinks' = [Uplinks EXCEPT ![w] = Tail(Up(w))]
  BY <1>2, <1>4, <1>5, OneView
<1>10. UNCHANGED <<Downlinks, Heard, Alive>>
  <2>1. UNCHANGED Downlinks
    BY <1>2, <1>5, OneView, ViewOf
  <2>2. UNCHANGED Alive
    BY <1>2 DEF Alive
  <2>3. UNCHANGED Heard
    BY <1>1 DEF Heard, CellsOf
  <2> QED
    BY <2>1, <2>2, <2>3
<1>11. Carried!Hear(w)
  <2>1. w \in Heard /\ Uplinks[w] # <<>> /\ Head(Uplinks[w]) = f
    BY <1>2, <1>4, ViewOf
  <2>2. \/ f = Carried!Request /\ UNCHANGED Holdings
        \/ /\ f = Carried!Result(f.task)
           /\ f.task \in Holdings[w]
           /\ Holdings' = [Holdings EXCEPT ![w] = @ \ {f.task}]
    BY <1>8, <1>9, ViewOf
  <2>3. /\ Uplinks' = [Uplinks EXCEPT ![w] = Tail(@)]
        /\ Credits' = [Credits EXCEPT ![w] = @ + 1]
    BY <1>9, ViewOf
  <2> QED
    BY <2>1, <2>2, <2>3, <1>1, <1>10 DEF Carried!Hear, workerVars
<1>12. WholeFlows'
  BY <1>2, <1>4, OthersFlow DEF Tidy, Orderly, WholeFlows
<1>13. NobodyHolds'
  BY <1>1, <1>7, SizesArePositive DEF Tidy, Orderly, NobodyHolds, FreeCells, Inv, Shape, TypeOK
<1> QED
  BY <1>7, <1>11, <1>12, <1>13 DEF Tidy, Orderly, Running

\* The same for the recv() of a worker.
LEMMA WorkerReceives ==
  ASSUME Tidy, Inv', NEW w \in Worker, NEW n \in 1 .. WorkerSize, TakePart(w, n) \/ TakeTask(w, n)
  PROVE  LET full == Filled(taskBuffer[w], taken[w], toWorker[w], n) IN
         /\ Others(w) /\ CellsOf(w)' = CellsOf(w) /\ sock[w] = "open" /\ sock'[w] = sock[w]
         /\ taskBuffer'[w] = full
         /\ Credit(w)' = Credit(w) /\ Held(w)' = Held(w) /\ UpFlow(w)' = UpFlow(w)
         /\ taken[w] + n # WorkerSize => DownFlow(w)' = DownFlow(w)
         /\ taken[w] + n = WorkerSize =>
              /\ Len(DownFlow(w)) >= WorkerSize
              /\ DownFlow(w)' = AfterFirst(DownFlow(w), WorkerSize)
              /\ DownFlow(w)[WorkerSize] = full[WorkerSize]
              /\ IsFrame(full) /\ Frame(full) \in WorkerFrame
<1> DEFINE k == taken[w]
           s == toWorker[w]
           buf == taskBuffer[w]
           full == Filled(buf, k, s, n)
<1>1. /\ n \in 1 .. Len(s) /\ n <= WorkerSize - k
      /\ toWorker' = [toWorker EXCEPT ![w] = AfterFirst(s, n)]
      /\ taskBuffer' = [taskBuffer EXCEPT ![w] = full]
      /\ UNCHANGED <<serverVars, unsent, toServer>>
      /\ sock[w] = "open"
      /\ sock' = sock \/ sock' = [sock EXCEPT ![w] = "torn"]
  BY DEF TakePart, TakeTask, Reading, Portions, BytesToRead
<1>2. taken' = [taken EXCEPT ![w] = Count(k, n, WorkerSize)]
  <2>1. CASE TakePart(w, n)
    BY <2>1 DEF TakePart, Count
  <2>2. CASE TakeTask(w, n)
    BY <2>2 DEF TakeTask
  <2> QED
    BY <2>1, <2>2
<1>3. /\ toWorker \in [Worker -> Seq(WorkerByte)]
      /\ taken \in [Worker -> 0 .. WorkerSize - 1]
      /\ taskBuffer \in [Worker -> [1 .. WorkerSize -> WorkerByte \cup {Unwritten}]]
      /\ sock \in [Worker -> {"none", "open", "gone", "torn"}]
      /\ OwnCells'
  BY DEF Tidy, Inv, Shape, TypeOK
<1>4. sock'[w] = sock[w]
  <2>1. sock'[w] # "torn"
    BY DEF Inv, NoTornFrame
  <2> QED
    BY <2>1, <1>1, <1>3
<1>5. /\ taskBuffer'[w] = full /\ taken'[w] = Count(k, n, WorkerSize)
      /\ toWorker'[w] = AfterFirst(s, n)
  BY <1>1, <1>2, <1>3
<1>6. /\ Others(w) /\ CellsOf(w)' = CellsOf(w)
      /\ Credit(w)' = Credit(w) /\ Held(w)' = Held(w) /\ UpFlow(w)' = UpFlow(w)
  <2>1. UpStream(w)' = UpStream(w)
    BY <1>1 DEF UpStream
  <2>2. \A v \in Worker \ {w} :
          /\ sock'[v] = sock[v] /\ taken'[v] = taken[v] /\ taskBuffer'[v] = taskBuffer[v]
          /\ unsent'[v] = unsent[v] /\ toServer'[v] = toServer[v] /\ toWorker'[v] = toWorker[v]
    BY <1>1, <1>2, <1>3
  <2> QED
    BY <2>1, <2>2, <1>1, <1>3, WorkerTouches DEF Tidy, serverVars
<1>7. Arriving(WorkerByte, AnyWorkerByte, WorkerSize, s, buf, k, n)
  <2>1. \A b \in WorkerByte : b.at \in 1 .. WorkerSize
    BY DEF WorkerByte
  <2>2. DownAligned(w)
    BY AlignedParts DEF Tidy, Inv
  <2> QED
    BY <2>1, <2>2, <1>1, <1>3, SizesArePositive DEF Arriving, DownAligned, AnyWorkerByte
<1>8. /\ DownFlow(w) = Flow(buf, k, s)
      /\ DownFlow(w)' = Flow(full, Count(k, n, WorkerSize), AfterFirst(s, n))
  BY <1>5 DEF DownFlow, Flow
<1> HIDE DEF k, s, buf, full
<1>9. /\ WorkerSize \in Nat \ {0} /\ s \in Seq(AnyWorkerByte) /\ n \in 1 .. Len(s)
      /\ buf \in [1 .. WorkerSize -> AnyWorkerByte] /\ k \in 0 .. WorkerSize - 1
      /\ n <= WorkerSize - k /\ n \in 0 .. Len(s)
  <2>1. s \in Seq(WorkerByte)
    BY <1>7 DEF Arriving
  <2>2. s \in Seq(AnyWorkerByte)
    BY <2>1 DEF AnyWorkerByte
  <2> QED
    BY <1>7, <2>2 DEF Arriving
<1>10. /\ Flow(full, k + n, AfterFirst(s, n)) = Flow(buf, k, s)
       /\ k + n = WorkerSize =>
            /\ Len(Flow(buf, k, s)) >= WorkerSize
            /\ AfterFirst(Flow(buf, k, s), WorkerSize) = AfterFirst(s, n)
            /\ Flow(buf, k, s)[WorkerSize] = full[WorkerSize]
  BY ONLY <1>9, FlowReceived DEF full
<1>11. /\ full \in [1 .. WorkerSize -> AnyWorkerByte]
       /\ k + n = WorkerSize => IsFrame(full) /\ full[1].at = 1
  BY <1>7, ReceivingKeepsFrames DEF full
<1>12. k + n # WorkerSize => DownFlow(w)' = DownFlow(w)
  BY <1>8, <1>10 DEF Count
<1>13. ASSUME k + n = WorkerSize
       PROVE  /\ DownFlow(w)' = AfterFirst(DownFlow(w), WorkerSize)
              /\ Frame(full) \in WorkerFrame
  <2>1. Flow(full, 0, AfterFirst(s, n)) = AfterFirst(s, n)
    <3> DEFINE r == AfterFirst(s, n)
    <3>1. /\ r \in Seq(AnyWorkerByte) /\ 0 \in 0 .. WorkerSize /\ WorkerSize \in Nat \ {0}
          /\ full \in [1 .. WorkerSize -> AnyWorkerByte]
      BY <1>9, <1>11, RestOfSequence
    <3> HIDE DEF r
    <3>2. Flow(full, 0, r) = r
      BY ONLY <3>1, FlowIs
    <3> QED
      BY <3>2 DEF r
  <2>2. Frame(full) \in WorkerFrame
    BY <1>9, <1>11, <1>13, BufferedFrame DEF AnyWorkerByte, WorkerByte
  <2> QED
    BY <1>8, <1>10, <1>13, <2>1, <2>2 DEF Count
<1> QED
  BY <1>1, <1>4, <1>5, <1>6, <1>8, <1>10, <1>11, <1>12, <1>13 DEF k, s, buf, full

LEMMA TakePartCarried ==
  ASSUME Tidy, Inv', NEW w \in Worker, NEW n \in 1 .. WorkerSize, TakePart(w, n)
  PROVE  UNCHANGED Carried!vars /\ Orderly'
<1>1. /\ taken[w] + n # WorkerSize
      /\ UNCHANGED <<serverVars, sock, working, unrequested, unsent, toServer>>
  BY DEF TakePart
<1>2. /\ Others(w) /\ CellsOf(w)' = CellsOf(w) /\ sock'[w] = sock[w]
      /\ DownFlow(w)' = DownFlow(w) /\ UpFlow(w)' = UpFlow(w)
      /\ Credit(w)' = Credit(w) /\ Held(w)' = Held(w)
  BY <1>1, WorkerReceives
<1>3. \A v \in Worker : Seen(v)
  BY <1>2 DEF Others, Seen, SameView
<1>4. UNCHANGED Carried!vars
  BY <1>1, <1>3, NoView DEF serverVars
<1>5. WholeFlows'
  BY <1>3, NobodysFlow DEF Tidy, Orderly
<1> QED
  BY <1>1, <1>4, <1>5 DEF Tidy, Orderly, Running, NobodyHolds, FreeCells, serverVars

LEMMA TakeTaskCarried ==
  ASSUME Tidy, Inv', NEW w \in Worker, NEW n \in 1 .. WorkerSize, TakeTask(w, n)
  PROVE  Carried!Take(w) /\ Orderly'
<1> DEFINE full == Filled(taskBuffer[w], taken[w], toWorker[w], n)
           f == Frame(full)
<1>1. /\ taken[w] + n = WorkerSize
      /\ UNCHANGED <<serverVars, unrequested, unsent, toServer>>
  BY DEF TakeTask
<1>2. /\ Others(w) /\ CellsOf(w)' = CellsOf(w) /\ sock[w] = "open" /\ sock'[w] = sock[w]
      /\ taskBuffer'[w] = full
      /\ Credit(w)' = Credit(w) /\ Held(w)' = Held(w) /\ UpFlow(w)' = UpFlow(w)
      /\ Len(DownFlow(w)) >= WorkerSize
      /\ DownFlow(w)' = AfterFirst(DownFlow(w), WorkerSize)
      /\ DownFlow(w)[WorkerSize] = full[WorkerSize]
      /\ IsFrame(full) /\ f \in WorkerFrame
  BY <1>1, WorkerReceives
<1>3. full[WorkerSize].of = f
  <2>1. WorkerSize \in DOMAIN full
    <3>1. taskBuffer[w] \in [1 .. WorkerSize -> AnyWorkerByte] /\ WorkerSize \in 1 .. WorkerSize
      BY BuffersAre, SizesArePositive DEF Tidy
    <3> QED
      BY <3>1 DEF Filled
  <2>2. full[WorkerSize] = Byte(f, WorkerSize)
    BY <1>2, <2>1 DEF IsFrame
  <2> QED
    BY <2>2 DEF Byte
<1>4. working' = [working EXCEPT ![w] = @ \cup {f.task}]
  BY <1>2 DEF TakeTask
<1> HIDE DEF full, f
<1>5. /\ Down(w) # <<>> /\ Head(Down(w)) = f /\ Down(w)' = Tail(Down(w))
      /\ Whole(DownFlow(w), WorkerSize) => Whole(DownFlow(w)', WorkerSize)
  <2> DEFINE s == DownFlow(w)
  <2>1. s \in Seq(AnyWorkerByte) /\ WorkerSize \in Nat \ {0} /\ Len(s) >= WorkerSize
    BY <1>2, FlowsAre, SizesArePositive DEF Tidy
  <2> HIDE DEF s
  <2>2. /\ Messages(s, WorkerSize) # <<>>
        /\ Head(Messages(s, WorkerSize)) = s[WorkerSize].of
        /\ Messages(AfterFirst(s, WorkerSize), WorkerSize) = Tail(Messages(s, WorkerSize))
        /\ Whole(s, WorkerSize) => Whole(AfterFirst(s, WorkerSize), WorkerSize)
    BY <2>1, MessageLess
  <2> QED
    BY <1>2, <1>3, <2>2 DEF Down, s
<1>6. Up(w)' = Up(w)
  BY <1>2 DEF Up
<1>7. UNCHANGED <<Credits, Holdings, Uplinks>>
  BY <1>2, <1>6, OneView, ViewOf
<1>8. UNCHANGED Alive
  <2>1. w \in Alive /\ sock'[w] = "open"
    BY <1>2, ViewOf
  <2>2. Alive' = Alive \cup {w}
    BY <1>2, <2>1, OneView
  <2> QED
    BY <2>1, <2>2
<1>9. UNCHANGED Heard
  BY <1>1 DEF Heard, CellsOf, serverVars
<1>10. Downlinks' = [Downlinks EXCEPT ![w] = Tail(Down(w))]
  BY <1>2, <1>5, OneView
<1>11. Carried!Take(w)
  <2>1. w \in Alive /\ Downlinks[w] # <<>> /\ Head(Downlinks[w]) = f /\ Down(w) = Downlinks[w]
    BY <1>2, <1>5, ViewOf
  <2> QED
    BY <2>1, <1>1, <1>4, <1>7, <1>8, <1>9, <1>10 DEF Carried!Take, serverVars
<1>12. WholeFlows'
  BY <1>2, <1>5, OthersFlow DEF Tidy, Orderly, WholeFlows
<1> QED
  BY <1>1, <1>11, <1>12 DEF Tidy, Orderly, Running, NobodyHolds, FreeCells, serverVars

-----------------------------------------------------------------------------
(* Sending                                                                 *)

\* send() of a worker touches its flow to the server only.
LEMMA WorkerPuts ==
  ASSUME Tidy, Inv', NEW w \in Worker, NEW bytes \in Seq(ServerByte), PutBytes(w, bytes),
         UNCHANGED <<serverVars, sock, taken, taskBuffer, toWorker>>
  PROVE  /\ Others(w) /\ CellsOf(w)' = CellsOf(w)
         /\ Credit(w)' = Credit(w) /\ Held(w)' = Held(w) /\ DownFlow(w)' = DownFlow(w)
         /\ unsent[w] = bytes => UpFlow(w)' = UpFlow(w)
         /\ unsent[w] = <<>> => UpFlow(w)' = UpFlow(w) \o bytes
<1>1. /\ \A v \in Worker \ {w} : toServer'[v] = toServer[v] /\ unsent'[v] = unsent[v]
      /\ toServer'[w] \o unsent'[w] = toServer[w] \o bytes
  BY PuttingBytes DEF Tidy, Inv
<1>2. UpStream(w)' = toServer[w] \o bytes
  BY <1>1 DEF UpStream
<1>3. OwnCells /\ OwnCells' /\ toServer[w] \in Seq(ServerByte)
  BY DEF Tidy, Inv, Shape, TypeOK
<1>4. /\ Others(w) /\ CellsOf(w)' = CellsOf(w)
      /\ Credit(w)' = Credit(w) /\ Held(w)' = Held(w)
      /\ UpStream(w)' = UpStream(w) => UpFlow(w)' = UpFlow(w)
  BY <1>1, <1>3, WorkerTouches DEF Tidy, serverVars
<1>5. DownFlow(w)' = DownFlow(w)
  BY DEF DownFlow
<1>6. unsent[w] = bytes => UpFlow(w)' = UpFlow(w)
  BY <1>2, <1>4 DEF UpStream
<1>7. ASSUME unsent[w] = <<>> PROVE UpFlow(w)' = UpFlow(w) \o bytes
  <2>1. UpStream(w) = toServer[w]
    BY <1>3, <1>7 DEF UpStream
  <2>2. UpStream(w)' = UpStream(w) \o bytes
    BY <1>2, <2>1
  <2>3. CASE CellsOf(w) = {}
    BY <2>2, <2>3, <1>4, CellView, CellViewNext DEF NoCellViews
  <2>4. CASE CellsOf(w) # {}
    <3>1. PICK c \in Cell : socketFd[c] = w
      BY <2>4 DEF CellsOf
    <3> DEFINE p == SubSeq(buffer[c], 1, received[c])
    <3>2. UpFlow(w) = p \o UpStream(w) /\ UpFlow(w)' = p \o (UpStream(w) \o bytes)
      BY <3>1, <2>2, <1>3, CellView, CellViewNext DEF CellViews, Flow, serverVars
    <3>3. UpStream(w) \in Seq(AnyServerByte) /\ bytes \in Seq(AnyServerByte)
      <4>1. UpStream(w) \in Seq(ServerByte)
        BY <2>1, <1>3
      <4> QED
        BY <4>1 DEF AnyServerByte
    <3>4. p \in Seq(AnyServerByte)
      BY <3>3, BuffersAre, FlowIs, SizesArePositive DEF Tidy
    <3> HIDE DEF p
    <3>5. (p \o UpStream(w)) \o bytes = p \o (UpStream(w) \o bytes)
      BY ONLY <3>3, <3>4, JoinedAnyhow
    <3> QED
      BY <3>2, <3>5
  <2> QED
    BY <2>3, <2>4
<1> QED
  BY <1>4, <1>5, <1>6, <1>7

LEMMA RestCarried ==
  ASSUME Tidy, Inv', NEW w \in Worker, SendRest(w)
  PROVE  UNCHANGED Carried!vars /\ Orderly'
<1>1. /\ PutBytes(w, unsent[w]) /\ unsent[w] \in Seq(ServerByte)
      /\ UNCHANGED <<serverVars, sock, taken, taskBuffer, working, unrequested, toWorker>>
  BY DEF SendRest, Tidy, Inv, Shape, TypeOK
<1>2. /\ Others(w) /\ CellsOf(w)' = CellsOf(w)
      /\ Credit(w)' = Credit(w) /\ Held(w)' = Held(w) /\ DownFlow(w)' = DownFlow(w)
      /\ UpFlow(w)' = UpFlow(w)
  BY <1>1, WorkerPuts
<1>3. \A v \in Worker : Seen(v)
  BY <1>1, <1>2 DEF Others, Seen, SameView
<1>4. UNCHANGED Carried!vars
  BY <1>1, <1>3, NoView DEF serverVars
<1>5. WholeFlows'
  BY <1>3, NobodysFlow DEF Tidy, Orderly
<1> QED
  BY <1>1, <1>4, <1>5 DEF Tidy, Orderly, Running, NobodyHolds, FreeCells, serverVars

\* A frame is a message more.
LEMMA WorkerSays ==
  ASSUME Tidy, Inv', NEW w \in Worker, NEW f \in ServerFrame,
         sock[w] = "open", unsent[w] = <<>>, PutBytes(w, Bytes(f, ServerSize)),
         UNCHANGED <<serverVars, sock, taken, taskBuffer, toWorker>>
  PROVE  /\ Uplinks' = [Uplinks EXCEPT ![w] = Append(@, f)]
         /\ UNCHANGED <<Alive, Heard, Credits, Holdings, Downlinks>>
         /\ Orderly'
<1> DEFINE bytes == Bytes(f, ServerSize)
<1>1. bytes \in Seq(ServerByte)
  BY FrameIsWhole, SizesArePositive DEF ServerByte
<1>2. bytes \in Seq(AnyServerByte)
  <2> HIDE DEF bytes
  <2> QED
    BY <1>1 DEF AnyServerByte
<1>3. /\ Others(w) /\ CellsOf(w)' = CellsOf(w)
      /\ Credit(w)' = Credit(w) /\ Held(w)' = Held(w) /\ DownFlow(w)' = DownFlow(w)
      /\ UpFlow(w)' = UpFlow(w) \o bytes
  BY <1>1, WorkerPuts
<1>4. Up(w)' = Append(Up(w), f) /\ Whole(UpFlow(w)', ServerSize)
  <2> DEFINE s == UpFlow(w)
  <2>1. s \in Seq(AnyServerByte) /\ Whole(s, ServerSize) /\ ServerSize \in Nat \ {0}
    BY FlowsAre, SizesArePositive DEF Tidy, Orderly, WholeFlows
  <2> HIDE DEF s
  <2>2. /\ Messages(s \o Bytes(f, ServerSize), ServerSize) = Append(Messages(s, ServerSize), f)
        /\ Whole(s \o Bytes(f, ServerSize), ServerSize)
    BY <1>2, <2>1, MessageMore
  <2> QED
    BY <1>3, <2>2 DEF Up, s
<1>5. Uplinks' = [Uplinks EXCEPT ![w] = Append(Up(w), f)]
  BY <1>3, <1>4, OneView
<1>6. UNCHANGED <<Credits, Holdings, Downlinks>>
  <2>1. Down(w)' = Down(w)
    BY <1>3 DEF Down
  <2> QED
    BY <1>3, <2>1, OneView, ViewOf
<1>7. UNCHANGED <<Alive, Heard>>
  BY DEF Alive, Heard, CellsOf, serverVars
<1>8. WholeFlows'
  BY <1>3, <1>4, OthersFlow DEF Tidy, Orderly, WholeFlows
<1>9. Orderly'
  BY <1>8 DEF Tidy, Orderly, Running, NobodyHolds, FreeCells, serverVars
<1> QED
  BY <1>5, <1>6, <1>7, <1>9, ViewOf

LEMMA RequestCarried ==
  ASSUME Tidy, Inv', NEW w \in Worker, SendRequest(w)
  PROVE  Carried!Ask(w) /\ Orderly'
<1>1. Request \in ServerFrame /\ Request = Carried!Request
  BY DEF ServerFrame, Request, Carried!Request
<1>2. /\ Uplinks' = [Uplinks EXCEPT ![w] = Append(@, Request)]
      /\ UNCHANGED <<Alive, Heard, Credits, Holdings, Downlinks>>
      /\ Orderly'
  BY <1>1, WorkerSays DEF SendRequest
<1>3. w \in Alive
  BY ViewOf DEF SendRequest
<1> QED
  BY <1>1, <1>2, <1>3 DEF SendRequest, Carried!Ask, serverVars

LEMMA ResultCarried ==
  ASSUME Tidy, Inv', NEW w \in Worker, NEW t \in Task, SendResult(w, t)
  PROVE  Carried!Finish(w, t) /\ Orderly'
<1>1. Result(t) \in ServerFrame /\ Result(t) = Carried!Result(t)
  BY DEF ServerFrame, Result, Carried!Result
<1>2. /\ Uplinks' = [Uplinks EXCEPT ![w] = Append(@, Result(t))]
      /\ UNCHANGED <<Alive, Heard, Credits, Holdings, Downlinks>>
      /\ Orderly'
  BY <1>1, WorkerSays DEF SendResult
<1>3. w \in Alive
  BY ViewOf DEF SendResult
<1> QED
  BY <1>1, <1>2, <1>3 DEF SendResult, Carried!Finish, serverVars

\* A worker the server owes a task to has fewer tasks on their way to it than
\* threads: there is room for one more.
LEMMA RoomForOneMore ==
  ASSUME Tidy, NEW w \in Worker, Credit(w) > 0
  PROVE  Len(toWorker[w]) + WorkerSize <= WorkerRoom
<1> DEFINE d == Len(Down(w))
           l == Len(DownFlow(w))
           k == taken[w]
           q == Len(toWorker[w])
<1>1. d \in Nat /\ d + 1 <= Threads
  <2>1. /\ unrequested[w] \in Nat /\ Credits[w] \in Nat /\ Len(Uplinks[w]) \in Nat
        /\ Len(Downlinks[w]) \in Nat /\ Carried!Cardinality(working[w]) \in Nat
    BY Carried!CountsAreNumbers DEF Tidy
  <2>2. unrequested[w] + Len(Uplinks[w]) + Credits[w] + Len(Downlinks[w])
          + Carried!Cardinality(working[w]) <= Threads
    BY DEF Tidy, Carried!Books, Carried!Counted
  <2>3. Credits[w] > 0 /\ Downlinks[w] = Down(w)
    BY ViewOf
  <2> DEFINE a == unrequested[w]
             b == Len(Uplinks[w])
             c == Credits[w]
             e == Carried!Cardinality(working[w])
  <2>4. /\ a \in Nat /\ b \in Nat /\ c \in Nat /\ d \in Nat /\ e \in Nat
        /\ c > 0 /\ a + b + c + d + e <= Threads /\ Threads \in Nat
    BY <2>1, <2>2, <2>3, SizesArePositive
  <2> HIDE DEF a, b, c, d, e
  <2> QED
    BY ONLY <2>4
<1>2. /\ l = k + q /\ k \in Nat /\ q \in Nat
  BY FlowsAre, BuffersAre DEF Tidy, Inv, Shape, TypeOK
<1>3. PICK m \in Nat : l = m * WorkerSize
  BY DEF Tidy, Orderly, WholeFlows, Whole
<1>4. d = m
  <2>1. d = l \div WorkerSize
    BY FlowsAre, MessagesAre, SizesArePositive DEF Tidy, Down
  <2> QED
    BY <2>1, <1>3, QuotientOfProduct, SizesArePositive
<1> HIDE DEF d, l, k, q
<1>5. (m + 1) * WorkerSize <= Threads * WorkerSize
  BY <1>1, <1>4, ProductGrows, SizesArePositive
<1>6. (m + 1) * WorkerSize = m * WorkerSize + WorkerSize
  BY NextProduct, SizesArePositive
<1>7. q <= m * WorkerSize
  BY <1>2, <1>3
<1>8. m * WorkerSize \in Nat /\ Threads * WorkerSize \in Nat /\ WorkerSize \in Nat
  BY QuotientOfProduct, SizesArePositive
<1>9. WorkerRoom >= Threads * WorkerSize /\ WorkerRoom \in Nat
  BY FramingAssumption
<1>10. q + WorkerSize <= WorkerRoom
  <2> DEFINE x == m * WorkerSize
             y == Threads * WorkerSize
             z == (m + 1) * WorkerSize
  <2>1. /\ x \in Nat /\ y \in Nat /\ WorkerSize \in Nat /\ q \in Nat /\ WorkerRoom \in Nat
        /\ z <= y /\ z = x + WorkerSize /\ q <= x /\ WorkerRoom >= y
    BY <1>2, <1>5, <1>6, <1>7, <1>8, <1>9
  <2> HIDE DEF x, y, z
  <2> QED
    BY ONLY <2>1
<1> QED
  BY <1>10 DEF q

LEMMA TaskCarried ==
  ASSUME Tidy, Inv', NEW c \in Cell, NEW t \in Task, SendTask(c, t)
  PROVE  /\ \E w \in Worker : Carried!HandOut(w, t)
         /\ Orderly'
<1> PICK w \in Worker : w = socketFd[c]
  BY DEF SendTask, Tidy, Inv, Shape, TypeOK
<1> DEFINE frame == Bytes(TaskFor(t), WorkerSize)
<1>1. /\ OwnCells /\ OwnCells' /\ toWorker \in [Worker -> Seq(WorkerByte)]
      /\ requested \in [Cell -> Nat] /\ held \in [Cell -> SUBSET Task]
      /\ sock[w] \in {"none", "open", "gone", "torn"}
  BY DEF Tidy, Inv, Shape, TypeOK
<1>2. /\ CellsOf(w) # {} /\ Credit(w) = requested[c] /\ Held(w) = held[c]
      /\ UpFlow(w) = Flow(buffer[c], received[c], UpStream(w))
  BY <1>1, CellView DEF CellViews
<1>3. requested[c] > 0 /\ t \in pool /\ w # NoFd
  BY DEF SendTask
<1>4. Len(toWorker[w]) + WorkerSize <= WorkerRoom
  BY <1>2, <1>3, RoomForOneMore
<1>5. /\ toWorker' = [toWorker EXCEPT ![w] = IF sock[w] = "gone" THEN @ ELSE @ \o frame]
      /\ pool' = pool \ {t}
      /\ held' = [held EXCEPT ![c] = @ \cup {t}]
      /\ requested' = [requested EXCEPT ![c] = @ - 1]
      /\ UNCHANGED <<pc, backlog, socketFd, received, buffer, workerVars, toServer>>
  BY <1>4 DEF SendTask, OneLess
<1> HIDE DEF frame
<1>6. held'[c] = held[c] \cup {t} /\ requested'[c] = requested[c] - 1
      /\ toWorker'[w] = IF sock[w] = "gone" THEN toWorker[w] ELSE toWorker[w] \o frame
  BY <1>1, <1>5
<1>7. Others(w)
  BY <1>1, <1>5, CellTouches DEF Tidy
<1>8. UpStream(w)' = UpStream(w) /\ sock' = sock /\ CellsOf(w)' = CellsOf(w)
  BY <1>5 DEF UpStream, CellsOf, workerVars
<1>9. /\ Credit(w)' = Credit(w) - 1 /\ Held(w)' = Held(w) \cup {t} /\ UpFlow(w)' = UpFlow(w)
  <2>1. /\ Credit(w)' = requested'[c] /\ Held(w)' = held'[c]
        /\ UpFlow(w)' = Flow(buffer[c], received[c], UpStream(w))
    BY <1>1, <1>5, <1>8, CellViewNext DEF CellViews, Flow
  <2> QED
    BY <2>1, <1>2, <1>6
<1>10. sock[w] \in {"open", "gone"}
  BY <1>1 DEF OwnCells, Tidy, Inv, NoTornFrame
<1>11. /\ Down(w)' = IF w \in Alive THEN Append(Down(w), TaskFor(t)) ELSE Down(w)
       /\ Whole(DownFlow(w)', WorkerSize)
  <2> DEFINE p == SubSeq(taskBuffer[w], 1, taken[w])
             s == DownFlow(w)
  <2>1. s = p \o toWorker[w] /\ DownFlow(w)' = p \o toWorker'[w]
    BY <1>5 DEF DownFlow, workerVars
  <2>2. s \in Seq(AnyWorkerByte) /\ Whole(s, WorkerSize) /\ WorkerSize \in Nat \ {0}
    BY FlowsAre, SizesArePositive DEF Tidy, Orderly, WholeFlows
  <2>3. CASE sock[w] = "gone"
    <3>1. DownFlow(w)' = s /\ w \notin Alive
      BY <2>1, <2>3, <1>6, ViewOf
    <3> QED
      BY <3>1, <2>2 DEF Down
  <2>4. CASE sock[w] = "open"
    <3>1. frame \in Seq(WorkerByte)
      <4>1. TaskFor(t) \in WorkerFrame
        BY DEF WorkerFrame
      <4> QED
        BY <4>1, FrameIsWhole, SizesArePositive DEF WorkerByte, frame
    <3>2. frame \in Seq(AnyWorkerByte)
      BY <3>1 DEF AnyWorkerByte
    <3>3. toWorker[w] \in Seq(AnyWorkerByte)
      <4>1. toWorker[w] \in Seq(WorkerByte)
        BY <1>1
      <4> QED
        BY <4>1 DEF AnyWorkerByte
    <3>4. p \in Seq(AnyWorkerByte)
      BY <3>3, BuffersAre, FlowIs, SizesArePositive DEF Tidy
    <3> HIDE DEF p, s
    <3>5. DownFlow(w)' = s \o frame
      <4>1. (p \o toWorker[w]) \o frame = p \o (toWorker[w] \o frame)
        <5> DEFINE q == toWorker[w]
        <5>1. p \in Seq(AnyWorkerByte) /\ q \in Seq(AnyWorkerByte) /\ frame \in Seq(AnyWorkerByte)
          BY <3>2, <3>3, <3>4
        <5> HIDE DEF q
        <5>2. (p \o q) \o frame = p \o (q \o frame)
          BY ONLY <5>1, JoinedAnyhow
        <5> QED
          BY <5>2 DEF q
      <4> QED
        BY <4>1, <2>1, <2>4, <1>6
    <3>6. /\ Messages(s \o frame, WorkerSize) = Append(Messages(s, WorkerSize), TaskFor(t))
          /\ Whole(s \o frame, WorkerSize)
      BY <2>2, <3>2, MessageMore DEF frame
    <3>7. w \in Alive
      BY <2>4, ViewOf
    <3> QED
      BY <3>5, <3>6, <3>7 DEF Down, s
  <2> QED
    BY <2>3, <2>4, <1>10
<1>12. /\ Credits' = [Credits EXCEPT ![w] = @ - 1]
       /\ Holdings' = [Holdings EXCEPT ![w] = @ \cup {t}]
       /\ Downlinks' = [Downlinks EXCEPT ![w] = IF w \in Alive THEN Append(@, TaskFor(t)) ELSE @]
  BY <1>7, <1>9, <1>11, OneView, ViewOf
<1>13. UNCHANGED <<Uplinks, Alive, Heard>>
  <2>1. Up(w)' = Up(w)
    BY <1>9 DEF Up
  <2>2. UNCHANGED Uplinks
    BY <1>7, <2>1, OneView, ViewOf
  <2> QED
    BY <2>2, <1>5, <1>8 DEF Alive, Heard, CellsOf
<1>14. Carried!HandOut(w, t)
  <2>1. w \in Heard /\ Credits[w] > 0 /\ TaskFor(t) = Carried!TaskFor(t)
    BY <1>2, <1>3, ViewOf DEF TaskFor, Carried!TaskFor
  <2> QED
    BY <2>1, <1>3, <1>5, <1>12, <1>13 DEF Carried!HandOut, workerVars
<1>15. WholeFlows'
  BY <1>7, <1>8, <1>9, <1>11, OthersFlow DEF Tidy, Orderly, WholeFlows
<1>16. NobodyHolds'
  BY <1>1, <1>3, <1>5 DEF Tidy, Orderly, NobodyHolds, FreeCells
<1> QED
  BY <1>5, <1>14, <1>15, <1>16 DEF Tidy, Orderly, Running

-----------------------------------------------------------------------------
(* The theorems                                                            *)

LEMMA TidyInit == Init => Tidy /\ Carried!Init
<1> SUFFICES ASSUME Init PROVE Tidy /\ Carried!Init
  OBVIOUS
<1>1. Inv
  BY InvInit
<1>2. /\ \A w \in Worker : UpFlow(w) = <<>> /\ DownFlow(w) = <<>>
      /\ \A w \in Worker : CellsOf(w) = {} /\ Credit(w) = 0 /\ Held(w) = {}
  <2>1. \A w \in Worker : CellsOf(w) = {}
    BY SizesArePositive DEF Init, CellsOf
  <2>2. \A w \in Worker : UpStream(w) = <<>>
    <3>1. <<>> \o <<>> = <<>>
      OBVIOUS
    <3> QED
      BY <3>1 DEF Init, UpStream
  <2>3. ASSUME NEW w \in Worker PROVE DownFlow(w) = <<>>
    <3>1. taken[w] = 0 /\ toWorker[w] = <<>> /\ taskBuffer[w] \in [1 .. WorkerSize -> AnyWorkerByte]
      BY <1>1, BuffersAre DEF Init
    <3>2. SubSeq(taskBuffer[w], 1, 0) = <<>>
      BY <3>1
    <3> QED
      BY <3>1, <3>2 DEF DownFlow
  <2> QED
    BY <2>1, <2>2, <2>3, CellView DEF NoCellViews
<1>3. \A w \in Worker : Up(w) = <<>> /\ Down(w) = <<>>
  BY <1>2, NoMessages, SizesArePositive DEF Up, Down
<1>4. /\ Credits = [w \in Worker |-> 0] /\ Holdings = [w \in Worker |-> {}]
      /\ Uplinks = [w \in Worker |-> <<>>] /\ Downlinks = [w \in Worker |-> <<>>]
      /\ Alive = {} /\ Heard = {}
  BY <1>2, <1>3 DEF Init, Credits, Holdings, Uplinks, Downlinks, Alive, Heard
<1>5. Carried!Init
  BY <1>4 DEF Init, Carried!Init
<1>6. Carried!Books
  BY <1>5, Carried!BooksInit, SizesArePositive
<1>7. Orderly
  <2>1. WholeFlows
    BY <1>2, NothingIsWhole, SizesArePositive DEF WholeFlows
  <2> QED
    BY <2>1 DEF Init, Orderly, Running, NobodyHolds, FreeCells
<1> QED
  BY <1>1, <1>5, <1>6, <1>7 DEF Tidy

\* Every step of the streams is a step of the dialogue, or none.
LEMMA StepIsCarried ==
  ASSUME Tidy, [Next]_vars
  PROVE  [Carried!Next]_(Carried!vars) /\ Orderly' /\ Inv'
<1>0. Inv'
  BY InvStep DEF Tidy
<1>1. CASE UNCHANGED vars
  <2>1. \A w \in Worker : Untouched(w) /\ sock'[w] = sock[w]
    BY <1>1 DEF vars, serverVars, workerVars, Untouched, UpStream
  <2>2. \A w \in Worker : Seen(w)
    BY <2>1, <1>0, UntouchedView DEF Seen, Tidy, Inv, Shape
  <2>3. UNCHANGED Carried!vars
    BY <2>2, <1>1, NoView DEF vars, serverVars, workerVars
  <2>4. WholeFlows'
    BY <2>2, NobodysFlow DEF Tidy, Orderly
  <2> QED
    BY <2>3, <2>4, <1>0, <1>1 DEF vars, serverVars, Tidy, Orderly, Running, NobodyHolds, FreeCells
<1>2. ASSUME NEW c \in Cell, ServerNext(c)
      PROVE  [Carried!Next]_(Carried!vars) /\ Orderly'
  <2>1. ASSUME NEW w \in Worker, AcceptConnection(w, c)
        PROVE  [Carried!Next]_(Carried!vars) /\ Orderly'
    BY <2>1, <1>0, AcceptCarried DEF Carried!Next
  <2>2. CASE DropConnection(c)
    BY <2>2, <1>0, DropCarried DEF Carried!Next
  <2>3. ASSUME NEW n \in 1 .. ServerSize, ReceivePart(c, n) \/ ReceiveFrame(c, n)
        PROVE  [Carried!Next]_(Carried!vars) /\ Orderly'
    BY <2>3, <1>0, PartCarried, FrameCarried DEF Carried!Next
  <2>4. ASSUME NEW t \in Task, SendTask(c, t)
        PROVE  [Carried!Next]_(Carried!vars) /\ Orderly'
    BY <2>4, <1>0, TaskCarried DEF Carried!Next
  <2> QED
    BY <1>2, <2>1, <2>2, <2>3, <2>4 DEF ServerNext, ServerReads
<1>3. ASSUME NEW w \in Worker, WorkerNext(w)
      PROVE  [Carried!Next]_(Carried!vars) /\ Orderly'
  <2>1. CASE Connect(w)
    BY <2>1, <1>0, ConnectCarried DEF Carried!Next
  <2>2. CASE WorkerDies(w)
    BY <2>2, <1>0, DieCarried DEF Carried!Next
  <2>3. ASSUME NEW n \in 1 .. WorkerSize, TakePart(w, n) \/ TakeTask(w, n)
        PROVE  [Carried!Next]_(Carried!vars) /\ Orderly'
    BY <2>3, <1>0, TakePartCarried, TakeTaskCarried DEF Carried!Next
  <2>4. CASE SendRequest(w)
    BY <2>4, <1>0, RequestCarried DEF Carried!Next
  <2>5. CASE SendRest(w)
    BY <2>5, <1>0, RestCarried
  <2>6. ASSUME NEW t \in Task, SendResult(w, t)
        PROVE  [Carried!Next]_(Carried!vars) /\ Orderly'
    BY <2>6, <1>0, ResultCarried DEF Carried!Next
  <2> QED
    BY <1>3, <2>1, <2>2, <2>3, <2>4, <2>5, <2>6 DEF WorkerNext, WorkerReads, WorkerSends
<1> QED
  BY <1>0, <1>1, <1>2, <1>3 DEF Next

LEMMA TidyStep == Tidy /\ [Next]_vars => Tidy'
<1> SUFFICES ASSUME Tidy, [Next]_vars PROVE Tidy'
  OBVIOUS
<1>1. [Carried!Next]_(Carried!vars) /\ Orderly' /\ Inv'
  BY StepIsCarried
<1>2. Carried!Books /\ Threads \in Nat
  BY SizesArePositive DEF Tidy
<1>3. Carried!Books'
  BY <1>1, <1>2, Carried!BooksStep
<1> QED
  BY <1>1, <1>3 DEF Tidy

LEMMA TidyAlways == Spec => []Tidy
  BY TidyInit, TidyStep, PTL DEF Spec

\* There is room for every task the server sends: however the streams are cut
\* and whoever dies, send() of the server (put_data_to_connection()) is never
\* short of space for a whole frame.
THEOREM TasksHaveRoom == Spec => []RoomForTasks
<1>1. Tidy => RoomForTasks
  BY DEF Tidy, Orderly, Running, RoomForTasks
<1> QED
  BY <1>1, TidyAlways, PTL

\* The server never gets the result of a task it has not handed out to the
\* sender, or has got the result of already: the BUG_ON of its receiver is not
\* reached, however the bytes arrive and whoever dies.
THEOREM ResultsAreKnown == Spec => [](pc # "bug_unknown_result")
<1>1. Tidy => pc # "bug_unknown_result"
  BY DEF Tidy, Orderly, Running
<1> QED
  BY <1>1, TidyAlways, PTL

\* The byte streams implement the dialogue of whole messages: every message
\* arrives once, whole and in order, and a death loses the last ones only.
THEOREM StreamsCarryMessages == Spec => CarriesMessages
<1>1. Init => Talk!Init
  <2>1. Carried!Init <=> Talk!Init
    BY DEF Carried!Init, Talk!Init, Alive, Heard, Credits, Holdings, Uplinks, Downlinks,
           Credit, Held, Up, Down
  <2> QED
    BY <2>1, TidyInit
<1>2. Tidy /\ [Next]_vars => [Talk!Next]_(Talk!vars)
  <2>1. [Carried!Next]_(Carried!vars) <=> [Talk!Next]_(Talk!vars)
    BY DEF Carried!Next, Talk!Next, Carried!vars, Talk!vars,
           Carried!Connect, Carried!Accept, Carried!Ask, Carried!Hear, Carried!Take, Carried!Die,
           Carried!Forget, Carried!Finish, Carried!HandOut,
           Talk!Connect, Talk!Accept, Talk!Ask, Talk!Hear, Talk!Take, Talk!Die,
           Talk!Forget, Talk!Finish, Talk!HandOut,
           Carried!Request, Carried!Result, Carried!TaskFor,
           Talk!Request, Talk!Result, Talk!TaskFor,
           Alive, Heard, Credits, Holdings, Uplinks, Downlinks, Credit, Held, Up, Down
  <2> QED
    BY <2>1, StepIsCarried
<1> QED
  BY <1>1, <1>2, TidyAlways, PTL DEF Spec, CarriesMessages, Talk!Spec

=============================================================================
