--------------------------- MODULE FramingProofs ----------------------------
(***************************************************************************)
(* Theorems about the byte streams, for frames, sockets and numbers of     *)
(* workers, cells, tasks and threads of any size.                          *)
(***************************************************************************)
EXTENDS Framing, TLAPS

-----------------------------------------------------------------------------
(* Sequences                                                               *)

LEMMA RestOfSequence ==
  ASSUME NEW S, NEW s \in Seq(S), NEW n \in 0 .. Len(s)
  PROVE  /\ AfterFirst(s, n) \in Seq(S)
         /\ Len(AfterFirst(s, n)) = Len(s) - n
         /\ \A i \in 1 .. Len(s) - n : AfterFirst(s, n)[i] = s[n + i]
  BY DEF AfterFirst

LEMMA StartOfSequence ==
  ASSUME NEW S, NEW s \in Seq(S), NEW n \in 0 .. Len(s)
  PROVE  /\ SubSeq(s, 1, n) \in Seq(S)
         /\ Len(SubSeq(s, 1, n)) = n
         /\ \A i \in 1 .. n : SubSeq(s, 1, n)[i] = s[i]
  OBVIOUS

LEMMA Concatenation ==
  ASSUME NEW S, NEW s \in Seq(S), NEW t \in Seq(S)
  PROVE  /\ s \o t \in Seq(S)
         /\ Len(s \o t) = Len(s) + Len(t)
         /\ \A i \in 1 .. Len(s) : (s \o t)[i] = s[i]
         /\ \A i \in 1 .. Len(t) : (s \o t)[Len(s) + i] = t[i]
  OBVIOUS

LEMMA SameSequence ==
  ASSUME NEW S, NEW s \in Seq(S), NEW t \in Seq(S),
         Len(s) = Len(t), \A i \in 1 .. Len(s) : s[i] = t[i]
  PROVE  s = t
  OBVIOUS

\* Receiving from the first of two sequences is receiving from both.
LEMMA RestOfConcatenation ==
  ASSUME NEW S, NEW s \in Seq(S), NEW t \in Seq(S), NEW n \in 0 .. Len(s)
  PROVE  AfterFirst(s, n) \o t = AfterFirst(s \o t, n)
<1> DEFINE a == AfterFirst(s, n)
           b == AfterFirst(s \o t, n)
           u == s \o t
           v == a \o t
<1> HIDE DEF a, b, u, v
<1>1. a \in Seq(S) /\ Len(a) = Len(s) - n /\ \A i \in 1 .. Len(s) - n : a[i] = s[n + i]
  BY RestOfSequence DEF a
<1>2. /\ u \in Seq(S) /\ Len(u) = Len(s) + Len(t)
      /\ \A i \in 1 .. Len(s) : u[i] = s[i]
      /\ \A i \in 1 .. Len(t) : u[Len(s) + i] = t[i]
  BY Concatenation DEF u
<1>3. /\ b \in Seq(S) /\ Len(b) = Len(u) - n
      /\ \A i \in 1 .. Len(u) - n : b[i] = u[n + i]
  <2>1. n \in 0 .. Len(u) /\ b = AfterFirst(u, n)
    BY <1>2 DEF b, u
  <2> QED
    BY <1>2, <2>1, RestOfSequence
<1>4. /\ v \in Seq(S) /\ Len(v) = Len(a) + Len(t)
      /\ \A i \in 1 .. Len(a) : v[i] = a[i]
      /\ \A i \in 1 .. Len(t) : v[Len(a) + i] = t[i]
  <2>1. a \in Seq(S)
    BY <1>1
  <2> QED
    BY ONLY <2>1, t \in Seq(S), Concatenation DEF v
<1>5. ASSUME NEW i \in 1 .. Len(v) PROVE v[i] = b[i]
  <2>1. CASE i <= Len(a)
    BY <2>1, <1>1, <1>2, <1>3, <1>4
  <2>2. CASE i > Len(a)
    <3> DEFINE j == i - Len(a)
    <3>1. j \in 1 .. Len(t) /\ i = Len(a) + j /\ n + i = Len(s) + j
      BY <2>2, <1>1, <1>4
    <3>2. i \in 1 .. Len(u) - n
      BY <1>1, <1>2, <1>4
    <3> HIDE DEF j
    <3>3. v[i] = t[j] /\ b[i] = u[n + i] /\ u[n + i] = t[j]
      BY <3>1, <3>2, <1>2, <1>3, <1>4
    <3> QED
      BY <3>3
  <2> QED
    BY <2>1, <2>2, <1>1
<1>6. Len(v) = Len(b)
  BY <1>1, <1>2, <1>3, <1>4
<1>7. v = b
  BY <1>3, <1>4, <1>5, <1>6, SameSequence
<1> QED
  BY <1>7 DEF a, b, u, v

\* Cutting a sequence and joining the parts behind another one.
LEMMA CutAndJoin ==
  ASSUME NEW S, NEW s \in Seq(S), NEW t \in Seq(S), NEW n \in 0 .. Len(t)
  PROVE  (s \o SubSeq(t, 1, n)) \o AfterFirst(t, n) = s \o t
<1> DEFINE a == SubSeq(t, 1, n)
           b == AfterFirst(t, n)
           v == a \o b
<1> HIDE DEF a, b, v
<1>1. a \in Seq(S) /\ Len(a) = n /\ \A i \in 1 .. n : a[i] = t[i]
  BY StartOfSequence DEF a
<1>2. b \in Seq(S) /\ Len(b) = Len(t) - n /\ \A i \in 1 .. Len(t) - n : b[i] = t[n + i]
  BY RestOfSequence DEF b
<1>3. /\ v \in Seq(S) /\ Len(v) = Len(t)
      /\ \A i \in 1 .. Len(a) : v[i] = a[i]
      /\ \A i \in 1 .. Len(b) : v[Len(a) + i] = b[i]
  <2>1. a \in Seq(S) /\ b \in Seq(S)
    BY <1>1, <1>2
  <2>2. /\ v \in Seq(S) /\ Len(v) = Len(a) + Len(b)
        /\ \A i \in 1 .. Len(a) : v[i] = a[i]
        /\ \A i \in 1 .. Len(b) : v[Len(a) + i] = b[i]
    BY ONLY <2>1, Concatenation DEF v
  <2> QED
    BY <2>2, <1>1, <1>2
<1>4. ASSUME NEW i \in 1 .. Len(t) PROVE v[i] = t[i]
  <2>1. CASE i <= n
    BY <2>1, <1>1, <1>3
  <2>2. CASE i > n
    <3>1. i - n \in 1 .. Len(b) /\ i = Len(a) + (i - n) /\ i = n + (i - n)
      BY <2>2, <1>1, <1>2
    <3> QED
      BY <3>1, <1>2, <1>3
  <2> QED
    BY <2>1, <2>2
<1>5. v = t
  BY <1>3, <1>4, SameSequence
<1>6. (s \o a) \o b = s \o v
  BY <1>1, <1>2 DEF v
<1> QED
  BY <1>5, <1>6 DEF a, b, v

-----------------------------------------------------------------------------
(* Streams of frames                                                       *)

\* A cut stream is still one of frames.
LEMMA RestInFrames ==
  ASSUME NEW S, NEW s \in Seq(S), NEW n \in 0 .. Len(s), NEW size \in Nat \ {0},
         \A i \in 1 .. Len(s) : s[i].at \in 1 .. size,
         InFrames(s, size)
  PROVE  InFrames(AfterFirst(s, n), size)
<1> DEFINE r == AfterFirst(s, n)
<1> HIDE DEF r
<1>1. r \in Seq(S) /\ Len(r) = Len(s) - n /\ \A i \in 1 .. Len(s) - n : r[i] = s[n + i]
  BY RestOfSequence DEF r
<1>2. DOMAIN r = 1 .. Len(r) /\ DOMAIN s = 1 .. Len(s)
  BY <1>1
<1> SUFFICES ASSUME NEW i \in 1 .. Len(r)
             PROVE  /\ \A j \in 1 .. Len(r) :
                         j >= i /\ j - i <= size - r[i].at
                           => r[j] = Byte(r[i].of, r[i].at + (j - i))
                    /\ i + 1 \in 1 .. Len(r) /\ r[i].at = size => r[i + 1].at = 1
  BY <1>2 DEF InFrames, r
<1>3. r[i] = s[n + i] /\ n + i \in 1 .. Len(s) /\ s[n + i].at \in 1 .. size
  BY <1>1
<1>4. ASSUME NEW j \in 1 .. Len(r), j >= i, j - i <= size - r[i].at
      PROVE  r[j] = Byte(r[i].of, r[i].at + (j - i))
  <2>1. r[j] = s[n + j] /\ n + j \in 1 .. Len(s) /\ n + j >= n + i /\ (n + j) - (n + i) = j - i
    BY <1>1, <1>4
  <2>2. (n + j) - (n + i) <= size - s[n + i].at
    BY <2>1, <1>3, <1>4
  <2>3. s[n + j] = Byte(s[n + i].of, s[n + i].at + ((n + j) - (n + i)))
    BY <1>2, <1>3, <2>1, <2>2 DEF InFrames
  <2> QED
    BY <1>3, <2>1, <2>3
<1>5. ASSUME i + 1 \in 1 .. Len(r), r[i].at = size PROVE r[i + 1].at = 1
  <2>1. r[i + 1] = s[(n + i) + 1] /\ (n + i) + 1 \in 1 .. Len(s)
    BY <1>1, <1>5
  <2> QED
    BY <1>2, <1>3, <1>5, <2>1 DEF InFrames
<1> QED
  BY <1>4, <1>5

LEMMA StartInFrames ==
  ASSUME NEW S, NEW s \in Seq(S), NEW n \in 0 .. Len(s), NEW size \in Nat \ {0},
         InFrames(s, size)
  PROVE  InFrames(SubSeq(s, 1, n), size)
<1> DEFINE r == SubSeq(s, 1, n)
<1> HIDE DEF r
<1>1. r \in Seq(S) /\ Len(r) = n /\ \A i \in 1 .. n : r[i] = s[i]
  BY StartOfSequence DEF r
<1>2. DOMAIN r = 1 .. n /\ DOMAIN s = 1 .. Len(s)
  BY <1>1
<1> QED
  BY <1>1, <1>2 DEF InFrames, r

\* The bytes of a frame.
LEMMA FrameIsWhole ==
  ASSUME NEW F, NEW f \in F, NEW size \in Nat \ {0}
  PROVE  /\ Bytes(f, size) \in Seq([of: F, at: 1 .. size])
         /\ Len(Bytes(f, size)) = size
         /\ \A i \in 1 .. size : Bytes(f, size)[i] = Byte(f, i)
<1>1. \A i \in 1 .. size : Byte(f, i) \in [of: F, at: 1 .. size]
  BY DEF Byte
<1> QED
  BY <1>1 DEF Bytes

\* The frame f is sent behind a stream of whole frames, k bytes of the first of
\* which have been received.
Appending(F, f, size, s, k) ==
  /\ f \in F
  /\ size \in Nat \ {0}
  /\ s \in Seq([of: F, at: 1 .. size])
  /\ k \in 0 .. size - 1
  /\ InFrames(s, size)
  /\ EndsWhole(s, k, size)

\* One more frame behind a stream that ends with a whole one.
LEMMA OneMoreFrame ==
  ASSUME NEW F, NEW f, NEW size, NEW s, NEW k, Appending(F, f, size, s, k)
  PROVE  LET r == s \o Bytes(f, size) IN
         /\ r # <<>>
         /\ r[1] = IF s = <<>> THEN Byte(f, 1) ELSE s[1]
         /\ InFrames(r, size)
         /\ r[Len(r)].at = size
<1> DEFINE S == [of: F, at: 1 .. size]
           t == Bytes(f, size)
           r == s \o t
<1>typed. /\ f \in F /\ size \in Nat \ {0} /\ k \in 0 .. size - 1
          /\ s \in Seq([of: F, at: 1 .. size])
          /\ InFrames(s, size) /\ EndsWhole(s, k, size)
  BY DEF Appending
<1> USE <1>typed
<1>1. t \in Seq(S) /\ Len(t) = size /\ \A i \in 1 .. size : t[i] = Byte(f, i)
  BY FrameIsWhole
<1>0. s \in Seq(S) /\ \A b \in S : b.at \in 1 .. size
  OBVIOUS
<1> HIDE DEF t, r, S
<1>2. /\ r \in Seq(S) /\ Len(r) = Len(s) + size
      /\ \A i \in 1 .. Len(s) : r[i] = s[i]
      /\ \A i \in 1 .. size : r[Len(s) + i] = t[i]
  <2> s \in Seq(S) /\ t \in Seq(S)
    BY <1>0, <1>1
  <2>1. /\ r \in Seq(S) /\ Len(r) = Len(s) + Len(t)
        /\ \A i \in 1 .. Len(s) : r[i] = s[i]
        /\ \A i \in 1 .. Len(t) : r[Len(s) + i] = t[i]
    BY ONLY s \in Seq(S) /\ t \in Seq(S), Concatenation DEF r
  <2> QED
    BY <2>1, <1>1
<1>3. DOMAIN r = 1 .. Len(s) + size /\ DOMAIN s = 1 .. Len(s) /\ Len(s) \in Nat
  BY <1>2
<1>4. \A i \in 1 .. Len(s) : s[i] \in S /\ s[i].at \in 1 .. size
  BY <1>0
<1>5. \A i \in 1 .. size : r[Len(s) + i] = Byte(f, i) /\ Byte(f, i).at = i /\ Byte(f, i).of = f
  BY <1>1, <1>2 DEF Byte
<1>6. Len(s) # 0 => s[Len(s)].at = size
  BY DEF EndsWhole
<1>7. r[1] = IF s = <<>> THEN Byte(f, 1) ELSE s[1]
  <2>1. CASE Len(s) = 0
    BY <2>1, <1>3, <1>5
  <2>2. CASE Len(s) # 0
    BY <2>2, <1>2, <1>3
  <2> QED
    BY <2>1, <2>2
<1>8. r[Len(r)].at = size
  BY <1>2, <1>5
<1>9. InFrames(r, size)
  <2> SUFFICES ASSUME NEW i \in 1 .. Len(s) + size
               PROVE  /\ \A j \in 1 .. Len(s) + size :
                           j >= i /\ j - i <= size - r[i].at
                             => r[j] = Byte(r[i].of, r[i].at + (j - i))
                      /\ i + 1 \in 1 .. Len(s) + size /\ r[i].at = size => r[i + 1].at = 1
    BY <1>3 DEF InFrames
  <2>1. CASE i > Len(s)
    <3>1. PICK x \in 1 .. size : i = Len(s) + x
      <4>1. i - Len(s) \in 1 .. size /\ i = Len(s) + (i - Len(s))
        BY <2>1, <1>3
      <4> QED
        BY <4>1
    <3>2. r[i].at = x /\ r[i].of = f
      BY <3>1, <1>5
    <3>3. ASSUME NEW j \in 1 .. Len(s) + size, j >= i, j - i <= size - r[i].at
          PROVE  r[j] = Byte(r[i].of, r[i].at + (j - i))
      <4>1. j - Len(s) \in 1 .. size /\ j = Len(s) + (j - Len(s)) /\ x + (j - i) = j - Len(s)
        BY <3>1, <3>3, <1>3
      <4> QED
        BY <4>1, <3>2, <1>5
    <3>4. r[i].at = size => i + 1 \notin 1 .. Len(s) + size
      BY <3>1, <3>2, <1>3
    <3> QED
      BY <3>3, <3>4
  <2>2. CASE i <= Len(s)
    <3>1. r[i] = s[i] /\ i \in 1 .. Len(s)
      BY <2>2, <1>2, <1>3
    <3>2. size - s[i].at <= Len(s) - i
      <4> SUFFICES ASSUME size - s[i].at > Len(s) - i PROVE FALSE
        BY <1>3, <1>4, <3>1
      <4>1. Len(s) \in DOMAIN s /\ Len(s) >= i /\ Len(s) - i <= size - s[i].at
        BY <1>3, <1>4, <3>1
      <4>2. s[Len(s)] = Byte(s[i].of, s[i].at + (Len(s) - i))
        BY <4>1, <3>1, <1>3 DEF InFrames
      <4>3. s[Len(s)].at = s[i].at + (Len(s) - i)
        BY <4>2 DEF Byte
      <4> QED
        BY <4>3, <1>3, <1>4, <1>6, <3>1
    <3>3. ASSUME NEW j \in 1 .. Len(s) + size, j >= i, j - i <= size - r[i].at
          PROVE  r[j] = Byte(r[i].of, r[i].at + (j - i))
      <4>1. j \in 1 .. Len(s)
        BY <3>1, <3>2, <3>3, <1>3, <1>4
      <4> QED
        BY <4>1, <3>1, <3>3, <1>2, <1>3 DEF InFrames
    <3>4. ASSUME i + 1 \in 1 .. Len(s) + size, r[i].at = size PROVE r[i + 1].at = 1
      <4>1. CASE i < Len(s)
        <5>1. i + 1 \in 1 .. Len(s) /\ s[i].at = size /\ r[i + 1] = s[i + 1]
          BY <4>1, <3>1, <3>4, <1>2, <1>3
        <5> QED
          BY <5>1, <3>1, <1>3 DEF InFrames
      <4>2. CASE i = Len(s)
        <5>1. 1 \in 1 .. size
          OBVIOUS
        <5> QED
          BY <5>1, <4>2, <1>5
      <4>3. i \in Nat /\ Len(s) \in Nat /\ i <= Len(s)
        BY <2>2, <1>3
      <4> QED
        BY ONLY <4>1, <4>2, <4>3
    <3> QED
      BY <3>3, <3>4
  <2> QED
    BY <2>1, <2>2, <1>3
<1>10. r # <<>>
  BY <1>2, <1>3
<1> QED
  BY <1>2, <1>7, <1>8, <1>9, <1>10 DEF r, t, S

\* n of the bytes s arrive behind the first k of a buffer of frames; B are the
\* bytes a buffer may hold.
Arriving(S, B, size, s, buf, k, n) ==
  /\ size \in Nat \ {0}
  /\ S \subseteq B
  /\ \A b \in S : b.at \in 1 .. size
  /\ s \in Seq(S)
  /\ buf \in [1 .. size -> B]
  /\ k \in 0 .. size - 1
  /\ n \in 1 .. Len(s)
  /\ n <= size - k
  /\ InFrames(s, size)
  /\ Follows(s, buf, k)

\* recv() of n bytes behind the first k of a frame.  It is the same for both
\* sides; only the size differs.
LEMMA ReceivingKeepsFrames ==
  ASSUME NEW S, NEW B, NEW size, NEW s, NEW buf, NEW k, NEW n,
         Arriving(S, B, size, s, buf, k, n)
  PROVE  LET full == Filled(buf, k, s, n) IN
         /\ full \in [1 .. size -> B]
         /\ Follows(AfterFirst(s, n), full, Count(k, n, size))
         /\ k + n = size => IsFrame(full) /\ full[1].at = 1
<1> DEFINE full == Filled(buf, k, s, n)
           r == AfterFirst(s, n)
<1> HIDE DEF full, r
<1>typed. /\ size \in Nat \ {0} /\ S \subseteq B /\ s \in Seq(S) /\ buf \in [1 .. size -> B]
      /\ k \in 0 .. size - 1 /\ n \in 1 .. Len(s) /\ n <= size - k
      /\ InFrames(s, size) /\ Follows(s, buf, k)
  BY DEF Arriving
<1>placed. \A i \in 1 .. Len(s) : s[i].at \in 1 .. size
  <2>1. \A i \in 1 .. Len(s) : s[i] \in S
    BY <1>typed
  <2> QED
    BY <2>1 DEF Arriving
<1> USE <1>typed, <1>placed
<1>1. /\ full \in [1 .. size -> B]
      /\ \A i \in 1 .. size : i <= k => full[i] = buf[i]
      /\ \A i \in 1 .. n : full[k + i] = s[i]
  <2>1. \A i \in k + 1 .. k + n : i - k \in 1 .. Len(s) /\ s[i - k] \in B
    BY <1>typed
  <2>2. \A i \in 1 .. n : k + i \in 1 .. size /\ k + i \in k + 1 .. k + n /\ (k + i) - k = i
    OBVIOUS
  <2>3. buf \in [1 .. size -> B] /\ k \in Nat /\ n \in Nat /\ size \in Nat
    BY <1>typed
  <2>4. full = [i \in 1 .. size |-> IF i \in k + 1 .. k + n THEN s[i - k] ELSE buf[i]]
    BY <2>3 DEF Filled, full
  <2>5. full \in [1 .. size -> B]
    BY ONLY <2>1, <2>3, <2>4
  <2>6. \A i \in 1 .. size : i <= k => full[i] = buf[i]
    BY ONLY <2>3, <2>4
  <2>7. \A i \in 1 .. n : full[k + i] = s[i]
    BY ONLY <2>2, <2>4
  <2> QED
    BY <2>5, <2>6, <2>7
<1>2. r \in Seq(S) /\ Len(r) = Len(s) - n /\ \A i \in 1 .. Len(s) - n : r[i] = s[n + i]
  <2>1. s \in Seq(S) /\ n \in 0 .. Len(s)
    BY <1>typed
  <2> QED
    BY ONLY <2>1, RestOfSequence DEF r
<1>3. DOMAIN s = 1 .. Len(s) /\ DOMAIN buf = 1 .. size /\ DOMAIN full = 1 .. size
      /\ 1 \in 1 .. size /\ 1 \in 1 .. Len(s) /\ s # <<>>
  BY <1>typed, <1>1
<1>4. s[1].at = k + 1 /\ s[1] = Byte(s[1].of, k + 1) /\ (k > 0 => s[1].of = Frame(buf))
  <2>1. CASE k > 0
    BY <2>1, <1>3 DEF Follows, Byte
  <2>2. CASE k = 0
    <3>1. s[1].at = 1
      BY <2>2, <1>3 DEF Follows
    <3>2. s[1] = Byte(s[1].of, s[1].at + (1 - 1))
      <4>1. 1 >= 1 /\ 1 - 1 <= size - s[1].at /\ 1 \in DOMAIN s
        BY <1>3, <3>1
      <4>2. InFrames(s, size)
        OBVIOUS
      <4> QED
        BY ONLY <4>1, <4>2 DEF InFrames
    <3> QED
      BY <2>2, <3>1, <3>2
  <2> QED
    BY <2>1, <2>2
\* The bytes of s up to the end of the frame.
<1>5. ASSUME NEW j \in 1 .. Len(s), j <= size - k
      PROVE  s[j] = Byte(s[1].of, k + j)
  <2>1. j >= 1 /\ j - 1 <= size - s[1].at /\ s[1].at + (j - 1) = k + j
    BY <1>4, <1>5
  <2>2. s[j] = Byte(s[1].of, s[1].at + (j - 1))
    BY <2>1, <1>3 DEF InFrames
  <2> QED
    BY <2>1, <2>2
<1>6. Frame(full) = s[1].of
  <2>1. CASE k > 0
    BY <2>1, <1>1, <1>3, <1>4 DEF Frame
  <2>2. CASE k = 0
    BY <2>2, <1>1 DEF Frame
  <2> QED
    BY <2>1, <2>2
<1>7. ASSUME NEW i \in 1 .. size, i <= k + n PROVE full[i] = Byte(Frame(full), i)
  <2>1. CASE i <= k
    <3>1. buf[i] = Byte(Frame(buf), i)
      BY <2>1, <1>3 DEF Follows
    <3> QED
      BY <3>1, <2>1, <1>1, <1>4, <1>6
  <2>2. CASE i > k
    <3>1. i - k \in 1 .. n /\ i - k <= size - k /\ k + (i - k) = i
      BY <2>2, <1>7
    <3>2. full[i] = s[i - k] /\ i - k \in 1 .. Len(s)
      BY <3>1, <1>1
    <3> QED
      BY <3>1, <3>2, <1>5, <1>6
  <2> QED
    BY <2>1, <2>2
<1>8. CASE k + n # size
  <2>1. Count(k, n, size) = k + n /\ k + n # 0
    BY <1>8 DEF Count
  <2>2. r # <<>> => r[1] = Byte(Frame(full), k + n + 1)
    <3> SUFFICES ASSUME r # <<>> PROVE r[1] = Byte(Frame(full), k + n + 1)
      OBVIOUS
    <3>1. n + 1 \in 1 .. Len(s) /\ r[1] = s[n + 1] /\ n + 1 <= size - k
      BY <1>2, <1>8
    <3>2. s[n + 1] = Byte(s[1].of, k + (n + 1))
      BY <3>1, <1>5
    <3>3. k + (n + 1) = k + n + 1
      OBVIOUS
    <3> QED
      BY ONLY <3>1, <3>2, <3>3, <1>6
  <2> QED
    BY <2>1, <2>2, <1>1, <1>3, <1>7, <1>8 DEF Follows, full, r
<1>9. CASE k + n = size
  <2>1. Count(k, n, size) = 0
    BY <1>9 DEF Count
  <2>2. r # <<>> => r[1].at = 1
    <3> SUFFICES ASSUME r # <<>> PROVE r[1].at = 1
      OBVIOUS
    <3>1. n \in 1 .. Len(s) /\ n + 1 \in 1 .. Len(s) /\ r[1] = s[n + 1]
      BY <1>2
    <3>2. s[n].at = size
      <4>1. s[n] = Byte(s[1].of, k + n)
        BY <1>5
      <4> QED
        BY <4>1, <1>9 DEF Byte
    <3> QED
      BY <3>1, <3>2, <1>3 DEF InFrames
  <2>3. IsFrame(full) /\ full[1].at = 1
    BY <1>3, <1>7, <1>9 DEF IsFrame, Byte
  <2> QED
    BY <2>1, <2>2, <2>3, <1>1, <1>3, <1>9 DEF Follows, full, r
<1> QED
  BY <1>8, <1>9

\* What is left of a stream that ends with a whole frame ends with it too.
LEMMA RestEndsWhole ==
  ASSUME NEW S, NEW B, NEW size, NEW s, NEW buf, NEW k, NEW n,
         Arriving(S, B, size, s, buf, k, n), EndsWhole(s, k, size)
  PROVE  EndsWhole(AfterFirst(s, n), Count(k, n, size), size)
<1> DEFINE r == AfterFirst(s, n)
<1> HIDE DEF r
<1>typed. /\ size \in Nat \ {0} /\ s \in Seq(S) /\ buf \in [1 .. size -> B]
      /\ k \in 0 .. size - 1 /\ n \in 1 .. Len(s) /\ n <= size - k
      /\ InFrames(s, size) /\ Follows(s, buf, k)
  BY DEF Arriving
<1>placed. \A i \in 1 .. Len(s) : s[i].at \in 1 .. size
  <2>1. \A i \in 1 .. Len(s) : s[i] \in S
    BY <1>typed
  <2> QED
    BY <2>1 DEF Arriving
<1> USE <1>typed, <1>placed
<1>1. r \in Seq(S) /\ Len(r) = Len(s) - n /\ \A i \in 1 .. Len(s) - n : r[i] = s[n + i]
  BY RestOfSequence DEF r
<1>2. s # <<>> /\ s[Len(s)].at = size /\ DOMAIN s = 1 .. Len(s) /\ 1 \in 1 .. Len(s)
  BY DEF EndsWhole
<1>3. CASE n < Len(s)
  <2>1. r # <<>> /\ r[Len(r)] = s[Len(s)]
    BY <1>1, <1>3
  <2> QED
    BY <2>1, <1>2 DEF EndsWhole, r
<1>4. CASE n = Len(s)
  <2>1. r = <<>>
    BY <1>1, <1>4
  <2>2. s[1].at = k + 1
    BY <1>2 DEF Follows, Byte
  <2>3. s[n] = Byte(s[1].of, s[1].at + (n - 1))
    <3>1. n >= 1 /\ n - 1 <= size - s[1].at
      BY <2>2
    <3> QED
      BY <3>1, <1>2 DEF InFrames
  <2>4. k + n = size
    BY <2>2, <2>3, <1>2, <1>4 DEF Byte
  <2> QED
    BY <2>1, <2>4 DEF EndsWhole, Count, r
<1> QED
  BY <1>3, <1>4

-----------------------------------------------------------------------------
(* Types, and who has which cell                                           *)

\* A worker has at most one cell, and none before it is accepted; only a
\* living one waits for room; and a connection holds no more than it can.
OwnCells ==
  /\ \A c, d \in Cell : socketFd[c] # NoFd /\ socketFd[c] = socketFd[d] => c = d
  /\ \A w \in backlog, c \in Cell : socketFd[c] # w
  /\ \A w \in Worker : sock[w] = "none" => w \notin backlog /\ \A c \in Cell : socketFd[c] # w
  /\ \A w \in Worker : unsent[w] # <<>> => sock[w] = "open"
  /\ \A w \in Worker : Len(toServer[w]) <= ServerRoom

Shape == TypeOK /\ OwnCells

LEMMA SizesArePositive ==
  /\ ServerSize \in Nat \ {0} /\ WorkerSize \in Nat \ {0}
  /\ ServerRoom \in Nat /\ Threads \in Nat
  /\ NoFd \notin Worker
  BY FramingAssumption

\* What a worker has put into its connection and what is still to be put in.
LEMMA PuttingBytes ==
  ASSUME Shape, NEW w \in Worker, NEW bytes \in Seq(ServerByte), PutBytes(w, bytes)
  PROVE  /\ toServer' \in [Worker -> Seq(ServerByte)]
         /\ unsent' \in [Worker -> Seq(ServerByte)]
         /\ \A v \in Worker \ {w} : toServer'[v] = toServer[v] /\ unsent'[v] = unsent[v]
         /\ Len(toServer'[w]) <= ServerRoom
         /\ toServer'[w] \o unsent'[w] = toServer[w] \o bytes
<1> DEFINE S == ServerByte
           s == toServer[w]
           n == Fitting(s, bytes, ServerRoom)
           a == SubSeq(bytes, 1, n)
           b == AfterFirst(bytes, n)
<1>1. s \in Seq(S) /\ Len(s) <= ServerRoom
  BY DEF Shape, TypeOK, OwnCells
<1>2. n \in 0 .. Len(bytes) /\ Len(s) + n <= ServerRoom
  <2>1. Len(s) \in Nat /\ Len(bytes) \in Nat /\ ServerRoom \in Nat
    BY <1>1, SizesArePositive
  <2> HIDE DEF s
  <2> QED
    BY <1>1, <2>1 DEF Fitting
<1>3. toServer' = [toServer EXCEPT ![w] = s \o a] /\ unsent' = [unsent EXCEPT ![w] = b]
  BY DEF PutBytes
<1>4. toServer \in [Worker -> Seq(S)] /\ unsent \in [Worker -> Seq(S)]
  BY DEF Shape, TypeOK
<1> HIDE DEF n, s, S
<1>5. bytes \in Seq(S)
  BY DEF S
<1>6. a \in Seq(S) /\ Len(a) = n
  BY <1>2, <1>5, StartOfSequence
<1>7. b \in Seq(S)
  BY <1>2, <1>5, RestOfSequence
<1>8. (s \o a) \o b = s \o bytes
  BY <1>1, <1>2, <1>5, CutAndJoin
<1> HIDE DEF a, b
<1>9. s \o a \in Seq(S) /\ Len(s \o a) = Len(s) + n
  BY <1>1, <1>6
<1> QED
  BY <1>2, <1>3, <1>4, <1>7, <1>8, <1>9 DEF s, S

LEMMA ShapeInit == Init => Shape
<1> SUFFICES ASSUME Init PROVE Shape
  OBVIOUS
<1>1. 0 \in 0 .. ServerSize - 1 /\ 0 \in 0 .. WorkerSize - 1 /\ Threads \in 0 .. Threads
  BY SizesArePositive
<1>2. TypeOK
  BY <1>1 DEF Init, TypeOK
<1>3. OwnCells
  BY SizesArePositive DEF Init, OwnCells
<1> QED
  BY <1>2, <1>3 DEF Shape

LEMMA ShapeStep == Shape /\ [Next]_vars => Shape'
<1> SUFFICES ASSUME Shape, [Next]_vars PROVE TypeOK' /\ OwnCells'
  BY DEF Shape
<1> USE SizesArePositive
<1> USE DEF Shape
<1>1. CASE UNCHANGED vars
  BY <1>1 DEF vars, serverVars, workerVars, TypeOK, OwnCells
<1>2. ASSUME NEW w \in Worker, NEW c \in Cell, AcceptConnection(w, c) PROVE TypeOK' /\ OwnCells'
  <2>1. 0 \in 0 .. ServerSize - 1
    OBVIOUS
  <2>2. TypeOK'
    BY <1>2, <2>1 DEF AcceptConnection, TypeOK, workerVars
  <2>3. OwnCells'
    BY <1>2 DEF AcceptConnection, TypeOK, OwnCells, FreeCells, workerVars
  <2> QED
    BY <2>2, <2>3
<1>3. ASSUME NEW c \in Cell, DropConnection(c) PROVE TypeOK' /\ OwnCells'
  <2>1. socketFd[c] \in Worker /\ <<>> \in Seq(ServerByte)
    BY <1>3 DEF DropConnection, TypeOK
  <2>2. TypeOK'
    BY <1>3, <2>1 DEF DropConnection, TypeOK, workerVars
  <2>3. OwnCells'
    BY <1>3, <2>1 DEF DropConnection, TypeOK, OwnCells, workerVars
  <2> QED
    BY <2>2, <2>3
<1>4. ASSUME NEW c \in Cell, NEW n \in 1 .. ServerSize, ReceivePart(c, n) \/ ReceiveFrame(c, n)
      PROVE  TypeOK' /\ OwnCells'
  <2> DEFINE w == socketFd[c]
             full == Filled(buffer[c], received[c], toServer[w], n)
  <2>1. /\ w \in Worker
        /\ n \in 1 .. Len(toServer[w]) /\ n <= ServerSize - received[c]
        /\ toServer' = [toServer EXCEPT ![w] = AfterFirst(@, n)]
        /\ buffer' = [buffer EXCEPT ![c] = full]
        /\ UNCHANGED <<backlog, socketFd, pool, workerVars, toWorker>>
    BY <1>4 DEF ReceivePart, ReceiveFrame, Portions, BytesToRead, TypeOK
  <2>2. toServer[w] \in Seq(ServerByte) /\ Len(toServer[w]) \in Nat
    BY <2>1 DEF TypeOK
  <2>3. /\ AfterFirst(toServer[w], n) \in Seq(ServerByte)
        /\ Len(AfterFirst(toServer[w], n)) = Len(toServer[w]) - n
    <3>1. n \in 0 .. Len(toServer[w])
      BY <2>1, <2>2
    <3> QED
      BY <2>2, <3>1, RestOfSequence
  <2>4. full \in [1 .. ServerSize -> ServerByte \cup {Unwritten}]
    <3>1. buffer[c] \in [1 .. ServerSize -> ServerByte \cup {Unwritten}] /\ received[c] \in Nat
      BY DEF TypeOK
    <3>2. \A i \in received[c] + 1 .. received[c] + n :
            toServer[w][i - received[c]] \in ServerByte \cup {Unwritten}
      BY <2>1, <2>2, <3>1
    <3> QED
      BY <3>1, <3>2 DEF Filled
  <2>5. /\ pc' \in {"running", "bug_command", "bug_unknown_result", "no_room"}
        /\ received' \in [Cell -> 0 .. ServerSize - 1]
        /\ requested' \in [Cell -> Nat]
        /\ held' \in [Cell -> SUBSET Task]
    <3> DEFINE k == received[c]
    <3>0. k \in 0 .. ServerSize - 1 /\ received \in [Cell -> 0 .. ServerSize - 1]
          /\ requested \in [Cell -> Nat] /\ held \in [Cell -> SUBSET Task]
          /\ pc \in {"running", "bug_command", "bug_unknown_result", "no_room"}
      BY DEF TypeOK
    <3>1. CASE ReceivePart(c, n)
      <4>1. received' = [received EXCEPT ![c] = k + n] /\ k + n # ServerSize
            /\ UNCHANGED <<pc, requested, held>>
        BY <3>1 DEF ReceivePart
      <4>2. n <= ServerSize - k
        BY <2>1
      <4> HIDE DEF k
      <4>3. k + n \in 0 .. ServerSize - 1
        BY <4>1, <4>2, <3>0
      <4> QED
        BY <4>1, <4>3, <3>0
    <3>2. CASE ReceiveFrame(c, n)
      <4>1. received' = [received EXCEPT ![c] = 0] /\ requested' = [requested EXCEPT ![c] = @ + 1]
        BY <3>2 DEF ReceiveFrame, Count
      <4>2. pc' \in {"running", "bug_command", "bug_unknown_result", "no_room"}
        BY <3>0, <3>2 DEF ReceiveFrame
      <4>3. held' = held \/ \E f : held' = [held EXCEPT ![c] = @ \ {f}]
        BY <3>2 DEF ReceiveFrame
      <4>4. received' \in [Cell -> 0 .. ServerSize - 1] /\ requested' \in [Cell -> Nat]
        BY <4>1, <3>0
      <4>5. held' \in [Cell -> SUBSET Task]
        BY <4>3, <3>0
      <4> QED
        BY <4>2, <4>4, <4>5
    <3> QED
      BY <1>4, <3>1, <3>2
  <2> HIDE DEF full
  <2>6. TypeOK'
    BY <2>1, <2>3, <2>4, <2>5 DEF TypeOK, workerVars
  <2>7. OwnCells'
    <3>1. Len(toServer'[w]) <= ServerRoom
      BY <2>1, <2>2, <2>3 DEF OwnCells, TypeOK
    <3>2. \A v \in Worker : Len(toServer'[v]) <= ServerRoom
      BY <2>1, <3>1 DEF OwnCells, TypeOK
    <3> QED
      BY <2>1, <3>2 DEF OwnCells, TypeOK, workerVars
  <2> QED
    BY <2>6, <2>7
<1>5. ASSUME NEW c \in Cell, NEW t \in Task, SendTask(c, t) PROVE TypeOK' /\ OwnCells'
  <2> DEFINE w == socketFd[c]
  <2>1. w \in Worker
    BY <1>5 DEF SendTask, TypeOK
  <2>2. toWorker[w] \o Bytes(TaskFor(t), WorkerSize) \in Seq(WorkerByte)
    <3>1. TaskFor(t) \in WorkerFrame
      BY DEF WorkerFrame
    <3>2. Bytes(TaskFor(t), WorkerSize) \in Seq(WorkerByte)
      BY <3>1, FrameIsWhole DEF WorkerByte
    <3>3. toWorker[w] \in Seq(WorkerByte)
      BY <2>1 DEF TypeOK
    <3> QED
      BY <3>2, <3>3
  <2>3. toWorker' \in [Worker -> Seq(WorkerByte)]
    BY <1>5, <2>1, <2>2 DEF SendTask, TypeOK
  <2>4. /\ pc' \in {"running", "bug_command", "bug_unknown_result", "no_room"}
        /\ pool' \subseteq Task
        /\ held' \in [Cell -> SUBSET Task]
    <3>1. /\ pc \in {"running", "bug_command", "bug_unknown_result", "no_room"}
          /\ pool \subseteq Task /\ held \in [Cell -> SUBSET Task]
      BY DEF TypeOK
    <3>2. /\ pc' = pc \/ pc' = "no_room"
          /\ pool' = pool \/ pool' = pool \ {t}
          /\ held' = held \/ held' = [held EXCEPT ![c] = @ \cup {t}]
      BY <1>5 DEF SendTask
    <3> QED
      BY <3>1, <3>2
  <2>5. requested' \in [Cell -> Nat]
    <3>1. requested \in [Cell -> Nat] /\ requested[c] > 0
      BY <1>5 DEF SendTask, TypeOK
    <3>2. requested[c] - 1 \in Nat
      BY <3>1
    <3>3. requested' = requested \/ requested' = [requested EXCEPT ![c] = requested[c] - 1]
      BY <1>5 DEF SendTask, OneLess
    <3> QED
      BY <3>1, <3>2, <3>3
  <2>6. TypeOK'
    BY <1>5, <2>3, <2>4, <2>5 DEF SendTask, TypeOK, workerVars
  <2>7. OwnCells'
    BY <1>5 DEF SendTask, OwnCells, workerVars
  <2> QED
    BY <2>6, <2>7
<1>6. ASSUME NEW w \in Worker, Connect(w) PROVE TypeOK' /\ OwnCells'
  <2>1. TypeOK'
    BY <1>6 DEF Connect, TypeOK
  <2>2. OwnCells'
    BY <1>6 DEF Connect, TypeOK, OwnCells
  <2> QED
    BY <2>1, <2>2
<1>7. ASSUME NEW w \in Worker, WorkerDies(w) PROVE TypeOK' /\ OwnCells'
  <2>1. PICK n \in 0 .. Len(toServer[w]) : toServer' = [toServer EXCEPT ![w] = SubSeq(@, 1, n)]
    BY <1>7 DEF WorkerDies
  <2>2. toServer[w] \in Seq(ServerByte)
    BY DEF TypeOK
  <2>3. SubSeq(toServer[w], 1, n) \in Seq(ServerByte) /\ Len(SubSeq(toServer[w], 1, n)) <= Len(toServer[w])
    BY <2>2, StartOfSequence
  <2>4. <<>> \in Seq(ServerByte) /\ <<>> \in Seq(WorkerByte) /\ 0 \in 0 .. WorkerSize - 1
    OBVIOUS
  <2>5. TypeOK'
    BY <1>7, <2>1, <2>3, <2>4 DEF WorkerDies, TypeOK, serverVars
  <2>6. OwnCells'
    <3>1. Len(toServer'[w]) <= ServerRoom
      BY <2>1, <2>2, <2>3 DEF OwnCells, TypeOK
    <3>2. \A v \in Worker : Len(toServer'[v]) <= ServerRoom
      BY <2>1, <3>1 DEF OwnCells, TypeOK
    <3> QED
      BY <1>7, <3>2 DEF WorkerDies, OwnCells, TypeOK, serverVars
  <2> QED
    BY <2>5, <2>6
<1>8. ASSUME NEW w \in Worker, NEW n \in 1 .. WorkerSize, TakePart(w, n) \/ TakeTask(w, n)
      PROVE  TypeOK' /\ OwnCells'
  <2> DEFINE full == Filled(taskBuffer[w], taken[w], toWorker[w], n)
  <2>1. /\ n \in 1 .. Len(toWorker[w]) /\ n <= WorkerSize - taken[w]
        /\ sock[w] = "open"
        /\ toWorker' = [toWorker EXCEPT ![w] = AfterFirst(@, n)]
        /\ taskBuffer' = [taskBuffer EXCEPT ![w] = full]
        /\ UNCHANGED <<serverVars, unrequested, unsent, toServer>>
    BY <1>8 DEF TakePart, TakeTask, Reading, Portions, BytesToRead, TypeOK
  <2>2. toWorker[w] \in Seq(WorkerByte) /\ Len(toWorker[w]) \in Nat
    BY DEF TypeOK
  <2>3. AfterFirst(toWorker[w], n) \in Seq(WorkerByte)
    <3>1. n \in 0 .. Len(toWorker[w])
      BY <2>1, <2>2
    <3> QED
      BY <2>2, <3>1, RestOfSequence
  <2>4. full \in [1 .. WorkerSize -> WorkerByte \cup {Unwritten}]
    <3>1. taskBuffer[w] \in [1 .. WorkerSize -> WorkerByte \cup {Unwritten}] /\ taken[w] \in Nat
      BY DEF TypeOK
    <3>2. \A i \in taken[w] + 1 .. taken[w] + n :
            toWorker[w][i - taken[w]] \in WorkerByte \cup {Unwritten}
      BY <2>1, <2>2, <3>1
    <3> QED
      BY <3>1, <3>2 DEF Filled
  <2>5. taskBuffer'[w] = full
    BY <2>1 DEF TypeOK
  <2> HIDE DEF full
  <2>6. /\ taken' \in [Worker -> 0 .. WorkerSize - 1]
        /\ working' \in [Worker -> SUBSET Task]
        /\ sock' \in [Worker -> {"none", "open", "gone", "torn"}]
        /\ sock' = sock \/ (sock' = [sock EXCEPT ![w] = "torn"] /\ unsent[w] = <<>>)
    <3> DEFINE k == taken[w]
    <3>0. k \in 0 .. WorkerSize - 1 /\ taken \in [Worker -> 0 .. WorkerSize - 1]
          /\ working \in [Worker -> SUBSET Task]
          /\ sock \in [Worker -> {"none", "open", "gone", "torn"}]
      BY DEF TypeOK
    <3>1. CASE TakePart(w, n)
      <4>1. taken' = [taken EXCEPT ![w] = k + n] /\ k + n # WorkerSize /\ UNCHANGED <<working, sock>>
        BY <3>1 DEF TakePart
      <4>2. n <= WorkerSize - k /\ unsent[w] = <<>>
        BY <2>1, <3>1 DEF TakePart, Reading
      <4> HIDE DEF k
      <4>3. k + n \in 0 .. WorkerSize - 1
        BY <4>1, <4>2, <3>0
      <4> QED
        BY <4>1, <4>2, <4>3, <3>0
    <3>2. CASE TakeTask(w, n)
      <4>1. \A f \in WorkerFrame : f.task \in Task
        BY DEF WorkerFrame, TaskFor
      <4>2. taken' = [taken EXCEPT ![w] = 0] /\ unsent[w] = <<>>
        BY <3>2 DEF TakeTask, Reading, Count
      <4>3. \/ /\ Frame(full) \in WorkerFrame
               /\ working' = [working EXCEPT ![w] = @ \cup {Frame(full).task}]
               /\ UNCHANGED sock
            \/ sock' = [sock EXCEPT ![w] = "torn"] /\ UNCHANGED working
        BY <3>2, <2>5 DEF TakeTask
      <4>4. taken' \in [Worker -> 0 .. WorkerSize - 1]
        BY <4>2, <3>0
      <4>5. working' \in [Worker -> SUBSET Task]
        BY <4>1, <4>3, <3>0
      <4> QED
        BY <4>2, <4>3, <4>4, <4>5, <3>0
    <3> QED
      BY <1>8, <3>1, <3>2
  <2>7. TypeOK'
    BY <2>1, <2>3, <2>4, <2>6 DEF TypeOK, serverVars
  <2>8. OwnCells'
    BY <2>1, <2>6 DEF OwnCells, TypeOK, serverVars
  <2> QED
    BY <2>7, <2>8
<1>9. ASSUME NEW w \in Worker, WorkerSends(w) PROVE TypeOK' /\ OwnCells'
  <2>1. PICK bytes \in Seq(ServerByte) : PutBytes(w, bytes)
    <3>1. Request \in ServerFrame /\ \A t \in Task : Result(t) \in ServerFrame
      BY DEF ServerFrame
    <3>2. /\ Bytes(Request, ServerSize) \in Seq(ServerByte)
          /\ \A t \in Task : Bytes(Result(t), ServerSize) \in Seq(ServerByte)
      BY <3>1, FrameIsWhole DEF ServerByte
    <3>3. unsent[w] \in Seq(ServerByte)
      BY DEF TypeOK
    <3> QED
      BY <1>9, <3>2, <3>3 DEF WorkerSends, SendRequest, SendResult, SendRest
  <2>2. /\ toServer' \in [Worker -> Seq(ServerByte)]
        /\ unsent' \in [Worker -> Seq(ServerByte)]
        /\ \A v \in Worker \ {w} : toServer'[v] = toServer[v] /\ unsent'[v] = unsent[v]
        /\ Len(toServer'[w]) <= ServerRoom
    BY <2>1, PuttingBytes
  <2>3. /\ sock[w] = "open"
        /\ UNCHANGED <<serverVars, sock, taken, taskBuffer, toWorker>>
        /\ working' \in [Worker -> SUBSET Task]
        /\ unrequested' \in [Worker -> 0 .. Threads]
    <3>1. CASE SendRequest(w)
      <4>1. unrequested \in [Worker -> 0 .. Threads] /\ unrequested[w] > 0
            /\ unrequested' = [unrequested EXCEPT ![w] = @ - 1]
        BY <3>1 DEF SendRequest, TypeOK
      <4> QED
        BY <3>1, <4>1 DEF SendRequest, TypeOK
    <3>2. CASE SendRest(w)
      BY <3>2 DEF SendRest, TypeOK
    <3>3. ASSUME NEW t \in Task, SendResult(w, t)
          PROVE  /\ sock[w] = "open"
                 /\ UNCHANGED <<serverVars, sock, taken, taskBuffer, toWorker>>
                 /\ working' \in [Worker -> SUBSET Task]
                 /\ unrequested' \in [Worker -> 0 .. Threads]
      BY <3>3 DEF SendResult, TypeOK
    <3> QED
      BY <1>9, <3>1, <3>2, <3>3 DEF WorkerSends
  <2>4. TypeOK'
    BY <2>2, <2>3 DEF TypeOK, serverVars
  <2>5. OwnCells'
    BY <2>2, <2>3 DEF OwnCells, TypeOK, serverVars
  <2> QED
    BY <2>4, <2>5
<1> QED
  BY <1>1, <1>2, <1>3, <1>4, <1>5, <1>6, <1>7, <1>8, <1>9
     DEF Next, ServerNext, WorkerNext, ServerReads, WorkerReads

-----------------------------------------------------------------------------
(* Alignment                                                               *)

\* FramesAligned, for one worker and for one cell.
DownAligned(w) ==
  /\ InFrames(toWorker[w], WorkerSize)
  /\ Follows(toWorker[w], taskBuffer[w], taken[w])
  /\ EndsWhole(toWorker[w], taken[w], WorkerSize)

BeginsFrame(s) == s # <<>> => s[1].at = 1

WaitsAligned(w) ==
  CellsOf(w) = {} =>
    /\ BeginsFrame(UpStream(w))
    /\ sock[w] # "gone" => EndsWhole(UpStream(w), 0, ServerSize)

CellAligned(c) ==
  socketFd[c] # NoFd =>
    /\ Follows(UpStream(socketFd[c]), buffer[c], received[c])
    /\ sock[socketFd[c]] # "gone" => EndsWhole(UpStream(socketFd[c]), received[c], ServerSize)

LEMMA AlignedParts ==
  FramesAligned <=>
    /\ \A w \in Worker : DownAligned(w) /\ InFrames(UpStream(w), ServerSize) /\ WaitsAligned(w)
    /\ \A c \in Cell : CellAligned(c)
  BY DEF FramesAligned, DownAligned, WaitsAligned, CellAligned, BeginsFrame, FreeCells

LEMMA AlignedPartsNext ==
  ASSUME \A w \in Worker : DownAligned(w)' /\ InFrames(UpStream(w), ServerSize)' /\ WaitsAligned(w)',
         \A c \in Cell : CellAligned(c)'
  PROVE  FramesAligned'
  BY DEF FramesAligned, DownAligned, WaitsAligned, CellAligned, BeginsFrame, FreeCells

Inv == Shape /\ FramesAligned /\ NoTornFrame

\* The stream of a worker, and the place of every byte in its frame.
LEMMA StreamIsTyped ==
  ASSUME Shape, NEW w \in Worker
  PROVE  /\ UpStream(w) \in Seq(ServerByte)
         /\ \A i \in 1 .. Len(UpStream(w)) : UpStream(w)[i].at \in 1 .. ServerSize
         /\ toWorker[w] \in Seq(WorkerByte)
         /\ \A i \in 1 .. Len(toWorker[w]) : toWorker[w][i].at \in 1 .. WorkerSize
<1>1. toServer[w] \in Seq(ServerByte) /\ unsent[w] \in Seq(ServerByte) /\ toWorker[w] \in Seq(WorkerByte)
  BY DEF Shape, TypeOK
<1>2. UpStream(w) \in Seq(ServerByte)
  BY <1>1 DEF UpStream
<1>3. (\A b \in ServerByte : b.at \in 1 .. ServerSize) /\ (\A b \in WorkerByte : b.at \in 1 .. WorkerSize)
  BY DEF ServerByte, WorkerByte
<1> QED
  BY <1>1, <1>2, <1>3

LEMMA NothingIsAligned ==
  /\ \A size : InFrames(<<>>, size) /\ EndsWhole(<<>>, 0, size)
  /\ BeginsFrame(<<>>)
  BY DEF InFrames, EndsWhole, BeginsFrame

\* What no step of others changes.
LEMMA SameDown ==
  ASSUME NEW w \in Worker, DownAligned(w),
         toWorker'[w] = toWorker[w], taskBuffer'[w] = taskBuffer[w], taken'[w] = taken[w]
  PROVE  DownAligned(w)'
  BY DEF DownAligned

LEMMA SameUp ==
  ASSUME NEW w \in Worker, toServer'[w] = toServer[w], unsent'[w] = unsent[w]
  PROVE  UpStream(w)' = UpStream(w)
  BY DEF UpStream

LEMMA SameWaits ==
  ASSUME NEW w \in Worker, WaitsAligned(w), UpStream(w)' = UpStream(w),
         CellsOf(w)' = {} => CellsOf(w) = {},
         sock'[w] # "gone" => sock[w] # "gone"
  PROVE  WaitsAligned(w)'
  BY DEF WaitsAligned

LEMMA SameCell ==
  ASSUME NEW c \in Cell, CellAligned(c), socketFd'[c] = socketFd[c],
         socketFd[c] # NoFd =>
           /\ UpStream(socketFd[c])' = UpStream(socketFd[c])
           /\ sock'[socketFd[c]] # "gone" => sock[socketFd[c]] # "gone",
         buffer'[c] = buffer[c], received'[c] = received[c]
  PROVE  CellAligned(c)'
  BY DEF CellAligned

LEMMA AcceptAligned ==
  ASSUME Inv, NEW w \in Worker, NEW c \in Cell, AcceptConnection(w, c)
  PROVE  FramesAligned'
<1>1. /\ UNCHANGED <<buffer, workerVars, toServer, toWorker>>
      /\ socketFd' = [socketFd EXCEPT ![c] = w]
      /\ received' = [received EXCEPT ![c] = 0]
      /\ w \in backlog /\ socketFd[c] = NoFd
  BY DEF AcceptConnection, FreeCells
<1>2. socketFd \in [Cell -> Worker \cup {NoFd}] /\ received \in [Cell -> 0 .. ServerSize - 1]
  BY DEF Inv, Shape, TypeOK
<1>3. CellsOf(w) = {}
  BY <1>1 DEF Inv, Shape, OwnCells, CellsOf
<1>4. \A v \in Worker : UpStream(v)' = UpStream(v)
  BY <1>1 DEF UpStream, workerVars
<1>5. \A v \in Worker : DownAligned(v) /\ InFrames(UpStream(v), ServerSize) /\ WaitsAligned(v)
  BY AlignedParts DEF Inv
<1>6. ASSUME NEW v \in Worker PROVE DownAligned(v)' /\ InFrames(UpStream(v), ServerSize)' /\ WaitsAligned(v)'
  <2>1. DownAligned(v)'
    BY <1>1, <1>5, SameDown DEF workerVars
  <2>2. CellsOf(v)' = {} => CellsOf(v) = {}
    <3>1. v # NoFd
      BY SizesArePositive
    <3>2. \A d \in Cell : socketFd[d] = v => socketFd'[d] = v
      BY <1>1, <1>2, <3>1
    <3> QED
      BY <3>2 DEF CellsOf
  <2>3. WaitsAligned(v)'
    BY <1>1, <1>4, <1>5, <2>2, SameWaits DEF workerVars
  <2> QED
    BY <2>1, <2>3, <1>4, <1>5
<1>7. ASSUME NEW d \in Cell PROVE CellAligned(d)'
  <2>1. CASE d = c
    <3>1. socketFd'[c] = w /\ received'[c] = 0 /\ buffer'[c] = buffer[c]
      BY <1>1, <1>2
    <3>2. BeginsFrame(UpStream(w)) /\ (sock[w] # "gone" => EndsWhole(UpStream(w), 0, ServerSize))
      BY <1>3, <1>5 DEF WaitsAligned
    <3>3. Follows(UpStream(w), buffer[c], 0)
      <4>1. DOMAIN buffer[c] = 1 .. ServerSize
        BY DEF Inv, Shape, TypeOK
      <4> QED
        BY <3>2, <4>1, SizesArePositive DEF Follows, BeginsFrame
    <3> QED
      BY <1>1, <1>4, <2>1, <3>1, <3>2, <3>3 DEF CellAligned, workerVars
  <2>2. CASE d # c
    <3>1. CellAligned(d)
      BY AlignedParts DEF Inv
    <3> QED
      BY <1>1, <1>2, <1>4, <2>2, <3>1, SameCell DEF workerVars
  <2> QED
    BY <2>1, <2>2
<1> QED
  BY <1>6, <1>7, AlignedPartsNext

LEMMA DropAligned ==
  ASSUME Inv, NEW c \in Cell, DropConnection(c)
  PROVE  FramesAligned'
<1> PICK w \in Worker : w = socketFd[c]
  BY DEF DropConnection, Inv, Shape, TypeOK
<1>1. /\ UNCHANGED <<buffer, received, workerVars, toWorker>>
      /\ socketFd' = [socketFd EXCEPT ![c] = NoFd]
      /\ toServer' = [toServer EXCEPT ![w] = <<>>]
      /\ socketFd[c] = w /\ sock[w] = "gone"
  BY DEF DropConnection, Inv, Shape, TypeOK
<1>2. socketFd \in [Cell -> Worker \cup {NoFd}] /\ toServer \in [Worker -> Seq(ServerByte)]
  BY DEF Inv, Shape, TypeOK
<1>3. unsent[w] = <<>>
  BY <1>1 DEF Inv, Shape, OwnCells
<1>4. UpStream(w)' = <<>>
  <2>1. toServer'[w] = <<>> /\ unsent'[w] = <<>>
    BY <1>1, <1>2, <1>3 DEF workerVars
  <2>2. toServer'[w] \o unsent'[w] = <<>>
    BY <2>1
  <2> QED
    BY <2>2 DEF UpStream
<1>5. \A v \in Worker \ {w} : UpStream(v)' = UpStream(v)
  BY <1>1, <1>2 DEF UpStream, workerVars
<1>6. \A v \in Worker : DownAligned(v) /\ InFrames(UpStream(v), ServerSize) /\ WaitsAligned(v)
  BY AlignedParts DEF Inv
<1>7. ASSUME NEW v \in Worker PROVE DownAligned(v)' /\ InFrames(UpStream(v), ServerSize)' /\ WaitsAligned(v)'
  <2>1. DownAligned(v)'
    BY <1>1, <1>6, SameDown DEF workerVars
  <2>2. CASE v = w
    <3>1. InFrames(UpStream(v), ServerSize)'
      BY <1>4, <2>2, NothingIsAligned
    <3>2. WaitsAligned(v)'
      BY <1>1, <1>4, <2>2, NothingIsAligned DEF WaitsAligned, workerVars
    <3> QED
      BY <2>1, <3>1, <3>2
  <2>3. CASE v # w
    <3>1. CellsOf(v)' = {} => CellsOf(v) = {}
      BY <1>1, <1>2, <2>3, SizesArePositive DEF CellsOf
    <3>2. WaitsAligned(v)'
      BY <1>1, <1>5, <1>6, <2>3, <3>1, SameWaits DEF workerVars
    <3> QED
      BY <2>1, <2>3, <3>2, <1>5, <1>6
  <2> QED
    BY <2>2, <2>3
<1>8. ASSUME NEW d \in Cell PROVE CellAligned(d)'
  <2>1. CASE d = c
    BY <1>1, <1>2, <2>1 DEF CellAligned
  <2>2. CASE d # c
    <3>1. CellAligned(d)
      BY AlignedParts DEF Inv
    <3>2. socketFd[d] # NoFd => socketFd[d] \in Worker \ {w}
      BY <1>1, <1>2, <2>2 DEF Inv, Shape, OwnCells
    <3> QED
      BY <1>1, <1>2, <1>5, <2>2, <3>1, <3>2, SameCell DEF workerVars
  <2> QED
    BY <2>1, <2>2
<1> QED
  BY <1>7, <1>8, AlignedPartsNext

LEMMA ConnectAligned ==
  ASSUME Inv, NEW w \in Worker, Connect(w)
  PROVE  FramesAligned' /\ NoTornFrame'
<1>1. /\ UNCHANGED <<pc, socketFd, received, buffer, taken, taskBuffer, unsent, toServer, toWorker>>
      /\ sock' = [sock EXCEPT ![w] = "open"] /\ sock[w] = "none"
  BY DEF Connect
<1>2. sock \in [Worker -> {"none", "open", "gone", "torn"}] /\ socketFd \in [Cell -> Worker \cup {NoFd}]
  BY DEF Inv, Shape, TypeOK
<1>3. \A v \in Worker : UpStream(v)' = UpStream(v) /\ CellsOf(v)' = CellsOf(v)
                         /\ (sock'[v] # "gone" => sock[v] # "gone")
  BY <1>1, <1>2 DEF UpStream, CellsOf
<1>4. \A v \in Worker : DownAligned(v) /\ InFrames(UpStream(v), ServerSize) /\ WaitsAligned(v)
  BY AlignedParts DEF Inv
<1>5. ASSUME NEW v \in Worker PROVE DownAligned(v)' /\ InFrames(UpStream(v), ServerSize)' /\ WaitsAligned(v)'
  <2>1. DownAligned(v)'
    BY <1>1, <1>4, SameDown
  <2>2. WaitsAligned(v)'
    BY <1>3, <1>4, SameWaits
  <2> QED
    BY <2>1, <2>2, <1>3, <1>4
<1>6. ASSUME NEW d \in Cell PROVE CellAligned(d)'
  <2>1. CellAligned(d)
    BY AlignedParts DEF Inv
  <2> QED
    BY <2>1, <1>1, <1>2, <1>3, SameCell
<1>7. NoTornFrame'
  BY <1>1, <1>2 DEF Inv, NoTornFrame
<1> QED
  BY <1>5, <1>6, <1>7, AlignedPartsNext

\* A death cuts the stream, and nobody expects a whole frame of it any more.
LEMMA StartOfConcatenation ==
  ASSUME NEW S, NEW s \in Seq(S), NEW t \in Seq(S), NEW n \in 0 .. Len(s)
  PROVE  SubSeq(s, 1, n) \o <<>> = SubSeq(s \o t, 1, n)
<1> DEFINE a == SubSeq(s, 1, n)
           u == s \o t
           b == SubSeq(u, 1, n)
<1> HIDE DEF a, u, b
<1>1. a \in Seq(S) /\ Len(a) = n /\ \A i \in 1 .. n : a[i] = s[i]
  BY StartOfSequence DEF a
<1>2. u \in Seq(S) /\ Len(u) = Len(s) + Len(t) /\ \A i \in 1 .. Len(s) : u[i] = s[i]
  BY Concatenation DEF u
<1>3. b \in Seq(S) /\ Len(b) = n /\ \A i \in 1 .. n : b[i] = u[i]
  <2>1. n \in 0 .. Len(u)
    BY <1>2
  <2> QED
    BY <2>1, <1>2, StartOfSequence DEF b
<1>4. ASSUME NEW i \in 1 .. Len(a) PROVE a[i] = b[i]
  <2>1. i \in 1 .. n /\ i \in 1 .. Len(s)
    BY <1>1
  <2> QED
    BY <2>1, <1>1, <1>2, <1>3
<1>5. a = b
  BY <1>1, <1>3, <1>4, SameSequence
<1>6. a \o <<>> = a
  BY <1>1
<1> QED
  BY <1>5, <1>6 DEF a, b, u

LEMMA DeathAligned ==
  ASSUME Inv, NEW w \in Worker, WorkerDies(w)
  PROVE  FramesAligned' /\ NoTornFrame'
<1> DEFINE u == UpStream(w)
<1>1. /\ UNCHANGED <<pc, socketFd, received, buffer, taskBuffer>>
      /\ sock' = [sock EXCEPT ![w] = "gone"]
      /\ unsent' = [unsent EXCEPT ![w] = <<>>]
      /\ toWorker' = [toWorker EXCEPT ![w] = <<>>]
      /\ taken' = [taken EXCEPT ![w] = 0]
  BY DEF WorkerDies, serverVars
<1>2. PICK n \in 0 .. Len(toServer[w]) : toServer' = [toServer EXCEPT ![w] = SubSeq(@, 1, n)]
  BY DEF WorkerDies
<1>3. /\ sock \in [Worker -> {"none", "open", "gone", "torn"}]
      /\ unsent \in [Worker -> Seq(ServerByte)]
      /\ toServer \in [Worker -> Seq(ServerByte)]
      /\ toWorker \in [Worker -> Seq(WorkerByte)]
      /\ taken \in [Worker -> 0 .. WorkerSize - 1]
      /\ taskBuffer \in [Worker -> [1 .. WorkerSize -> WorkerByte \cup {Unwritten}]]
      /\ socketFd \in [Cell -> Worker \cup {NoFd}]
  BY DEF Inv, Shape, TypeOK
<1>4. u' = SubSeq(u, 1, n)
  <2>1. toServer'[w] \o unsent'[w] = SubSeq(toServer[w], 1, n) \o <<>>
    BY <1>1, <1>2, <1>3
  <2>2. SubSeq(toServer[w], 1, n) \o <<>> = SubSeq(toServer[w] \o unsent[w], 1, n)
    BY <1>2, <1>3, StartOfConcatenation
  <2> QED
    BY <2>1, <2>2 DEF UpStream
<1>5. u \in Seq(ServerByte) /\ n \in 0 .. Len(u)
  <2>1. u \in Seq(ServerByte)
    BY StreamIsTyped DEF Inv
  <2>2. Len(u) = Len(toServer[w]) + Len(unsent[w])
    BY <1>3 DEF UpStream
  <2>3. Len(toServer[w]) \in Nat /\ Len(unsent[w]) \in Nat
    BY <1>3
  <2>4. \A a, b \in Nat : n \in 0 .. a => n \in 0 .. a + b
    OBVIOUS
  <2>5. n \in 0 .. Len(u)
    BY ONLY <2>2, <2>3, <2>4, n \in 0 .. Len(toServer[w])
  <2> QED
    BY <2>1, <2>5
<1>6. \A v \in Worker \ {w} : UpStream(v)' = UpStream(v)
  BY <1>1, <1>2, <1>3 DEF UpStream
<1>7. \A v \in Worker : DownAligned(v) /\ InFrames(UpStream(v), ServerSize) /\ WaitsAligned(v)
  BY AlignedParts DEF Inv
<1> HIDE DEF u
<1>8. InFrames(u', ServerSize)
  <2>1. InFrames(u, ServerSize)
    BY <1>7 DEF u
  <2> QED
    BY <2>1, <1>4, <1>5, StartInFrames, SizesArePositive
<1>9. u' # <<>> => u # <<>> /\ u'[1] = u[1]
  BY <1>4, <1>5
<1>10. ASSUME NEW v \in Worker PROVE DownAligned(v)' /\ InFrames(UpStream(v), ServerSize)' /\ WaitsAligned(v)'
  <2>1. CASE v = w
    <3>1. toWorker'[w] = <<>> /\ taken'[w] = 0
      BY <1>1, <1>3
    <3>2. DownAligned(w)'
      <4>1. DOMAIN (taskBuffer'[w]) = 1 .. WorkerSize
        BY <1>1, <1>3
      <4>2. Follows(<<>>, taskBuffer'[w], 0)
        BY <4>1, SizesArePositive DEF Follows
      <4> QED
        BY <3>1, <4>2, NothingIsAligned DEF DownAligned
    <3>3. sock'[w] = "gone"
      BY <1>1, <1>3
    <3>4. CellsOf(w)' = {} => CellsOf(w) = {}
      BY <1>1 DEF CellsOf
    <3>5. WaitsAligned(w)'
      BY <3>3, <3>4, <1>7, <1>9 DEF WaitsAligned, BeginsFrame, u
    <3> QED
      BY <2>1, <3>2, <3>5, <1>8 DEF u
  <2>2. CASE v # w
    <3>1. DownAligned(v)'
      BY <1>1, <1>3, <1>7, <2>2, SameDown
    <3>2. CellsOf(v)' = {} => CellsOf(v) = {}
      BY <1>1 DEF CellsOf
    <3>3. sock'[v] = sock[v]
      BY <1>1, <1>3, <2>2
    <3>4. WaitsAligned(v)'
      BY <3>2, <3>3, <1>6, <1>7, <2>2, SameWaits
    <3> QED
      BY <3>1, <3>4, <1>6, <1>7, <2>2
  <2> QED
    BY <2>1, <2>2
<1>11. ASSUME NEW d \in Cell PROVE CellAligned(d)'
  <2>1. CellAligned(d)
    BY AlignedParts DEF Inv
  <2>2. CASE socketFd[d] = w
    <3>1. Follows(u', buffer[d], received[d])
      BY <2>1, <2>2, <1>9, SizesArePositive DEF CellAligned, Follows, u
    <3>2. sock'[w] = "gone"
      BY <1>1, <1>3
    <3> QED
      BY <2>2, <3>1, <3>2, <1>1 DEF CellAligned, u
  <2>3. CASE socketFd[d] # w
    <3>1. socketFd[d] # NoFd => sock'[socketFd[d]] = sock[socketFd[d]]
                                /\ UpStream(socketFd[d])' = UpStream(socketFd[d])
      BY <2>3, <1>1, <1>3, <1>6
    <3> QED
      BY <2>1, <3>1, <1>1, SameCell
  <2> QED
    BY <2>2, <2>3
<1>12. NoTornFrame'
  BY <1>1, <1>3 DEF Inv, NoTornFrame
<1> QED
  BY <1>10, <1>11, <1>12, AlignedPartsNext

\* A byte that begins a frame is of a frame that was sent.
LEMMA BufferedFrame ==
  ASSUME NEW F, NEW size \in Nat \ {0},
         NEW buf \in [1 .. size -> [of: F, at: 1 .. size] \cup {Unwritten}],
         buf[1].at = 1
  PROVE  Frame(buf) \in F
<1>1. buf[1] \in [of: F, at: 1 .. size] \cup {Unwritten}
  OBVIOUS
<1>2. Unwritten.at # 1
  BY DEF Unwritten, Byte
<1> QED
  BY <1>1, <1>2 DEF Frame

\* What is received is taken from the stream of the worker of the cell.
LEMMA PartReceived ==
  ASSUME Inv, NEW c \in Cell, NEW n \in 1 .. ServerSize, ReceivePart(c, n) \/ ReceiveFrame(c, n),
         NEW w \in Worker, w = socketFd[c]
  PROVE  /\ UpStream(w)' = AfterFirst(UpStream(w), n)
         /\ Filled(buffer[c], received[c], toServer[w], n)
              = Filled(buffer[c], received[c], UpStream(w), n)
         /\ Arriving(ServerByte, ServerByte \cup {Unwritten}, ServerSize, UpStream(w),
                     buffer[c], received[c], n)
<1> DEFINE k == received[c]
           u == UpStream(w)
           full == Filled(buffer[c], k, toServer[w], n)
<1>1. /\ n \in 1 .. Len(toServer[w]) /\ n <= ServerSize - k
      /\ toServer' = [toServer EXCEPT ![w] = AfterFirst(@, n)]
      /\ buffer' = [buffer EXCEPT ![c] = full]
      /\ UNCHANGED <<socketFd, workerVars, toWorker>>
  BY DEF ReceivePart, ReceiveFrame, Portions, BytesToRead
<1>2. /\ toServer \in [Worker -> Seq(ServerByte)]
      /\ unsent \in [Worker -> Seq(ServerByte)]
      /\ received \in [Cell -> 0 .. ServerSize - 1]
      /\ buffer \in [Cell -> [1 .. ServerSize -> ServerByte \cup {Unwritten}]]
      /\ socketFd \in [Cell -> Worker \cup {NoFd}]
  BY DEF Inv, Shape, TypeOK
<1>4. /\ u \in Seq(ServerByte) /\ Len(u) = Len(toServer[w]) + Len(unsent[w])
      /\ \A i \in 1 .. Len(u) : u[i].at \in 1 .. ServerSize
      /\ \A i \in 1 .. Len(toServer[w]) : u[i] = toServer[w][i]
  BY <1>2, StreamIsTyped, Concatenation DEF Inv, UpStream
<1>5. n \in 1 .. Len(u) /\ n \in 0 .. Len(u) /\ n \in 0 .. Len(toServer[w])
  <2>1. toServer[w] \in Seq(ServerByte) /\ unsent[w] \in Seq(ServerByte)
    BY <1>2
  <2>2. Len(toServer[w]) \in Nat /\ Len(unsent[w]) \in Nat
    BY ONLY <2>1
  <2>3. n \in 1 .. Len(toServer[w])
    BY <1>1
  <2>4. Len(u) = Len(toServer[w]) + Len(unsent[w])
    BY <1>4
  <2> DEFINE a == Len(toServer[w])
             b == Len(unsent[w])
             l == Len(u)
  <2>5. a \in Nat /\ b \in Nat /\ n \in 1 .. a /\ l = a + b
    BY <2>2, <2>3, <2>4
  <2> HIDE DEF a, b, l
  <2>6. n \in 1 .. l /\ n \in 0 .. l /\ n \in 0 .. a
    BY ONLY <2>5
  <2> QED
    BY <2>6 DEF a, l
<1>6. u' = AfterFirst(u, n)
  <2>1. toServer'[w] \o unsent'[w] = AfterFirst(toServer[w], n) \o unsent[w]
    BY <1>1, <1>2 DEF workerVars
  <2>2. toServer[w] \in Seq(ServerByte) /\ unsent[w] \in Seq(ServerByte) /\ n \in 0 .. Len(toServer[w])
    BY <1>2, <1>5
  <2>3. AfterFirst(toServer[w], n) \o unsent[w] = AfterFirst(toServer[w] \o unsent[w], n)
    BY ONLY <2>2, RestOfConcatenation
  <2> QED
    BY ONLY <2>1, <2>3 DEF UpStream
<1>7. full = Filled(buffer[c], k, u, n)
  <2>1. \A i \in 1 .. ServerSize : i \in k + 1 .. k + n => i - k \in 1 .. Len(toServer[w])
    BY <1>1, <1>2
  <2>2. DOMAIN buffer[c] = 1 .. ServerSize
    BY <1>2
  <2> HIDE DEF u
  <2> QED
    BY <2>1, <2>2, <1>4 DEF Filled
<1>8. Follows(u, buffer[c], k) /\ InFrames(u, ServerSize)
  <2>1. CellAligned(c) /\ InFrames(u, ServerSize)
    BY AlignedParts DEF Inv
  <2> QED
    BY <2>1, SizesArePositive DEF CellAligned
<1>9. /\ k \in 0 .. ServerSize - 1
      /\ buffer[c] \in [1 .. ServerSize -> ServerByte \cup {Unwritten}]
      /\ ServerByte \subseteq ServerByte \cup {Unwritten}
      /\ ServerSize \in Nat \ {0}
  BY <1>2, SizesArePositive
<1> HIDE DEF u, k, full
<1>10. Arriving(ServerByte, ServerByte \cup {Unwritten}, ServerSize, u, buffer[c], k, n)
  <2>1. \A b \in ServerByte : b.at \in 1 .. ServerSize
    BY DEF ServerByte
  <2> QED
    BY <2>1, <1>1, <1>4, <1>5, <1>8, <1>9 DEF Arriving, k
<1> QED
  BY <1>6, <1>7, <1>10 DEF u, k, full

LEMMA ReceiveAligned ==
  ASSUME Inv, NEW c \in Cell, NEW n \in 1 .. ServerSize, ReceivePart(c, n) \/ ReceiveFrame(c, n)
  PROVE  FramesAligned' /\ NoTornFrame'
<1> PICK w \in Worker : w = socketFd[c]
  BY DEF ReceivePart, ReceiveFrame, Inv, Shape, TypeOK
<1> DEFINE k == received[c]
           u == UpStream(w)
           full == Filled(buffer[c], k, toServer[w], n)
<1>1. /\ n \in 1 .. Len(toServer[w]) /\ n <= ServerSize - k
      /\ toServer' = [toServer EXCEPT ![w] = AfterFirst(@, n)]
      /\ buffer' = [buffer EXCEPT ![c] = full]
      /\ UNCHANGED <<socketFd, workerVars, toWorker>>
  BY DEF ReceivePart, ReceiveFrame, Portions, BytesToRead
<1>2. /\ toServer \in [Worker -> Seq(ServerByte)]
      /\ unsent \in [Worker -> Seq(ServerByte)]
      /\ received \in [Cell -> 0 .. ServerSize - 1]
      /\ buffer \in [Cell -> [1 .. ServerSize -> ServerByte \cup {Unwritten}]]
      /\ socketFd \in [Cell -> Worker \cup {NoFd}]
  BY DEF Inv, Shape, TypeOK
<1>3. received' = [received EXCEPT ![c] = Count(k, n, ServerSize)]
  <2>1. CASE ReceivePart(c, n)
    BY <2>1 DEF ReceivePart, Count
  <2>2. CASE ReceiveFrame(c, n)
    BY <2>2 DEF ReceiveFrame
  <2> QED
    BY <2>1, <2>2
<1>4. /\ u \in Seq(ServerByte)
      /\ \A i \in 1 .. Len(u) : u[i].at \in 1 .. ServerSize
  BY StreamIsTyped DEF Inv
<1>5. /\ u' = AfterFirst(u, n)
      /\ full = Filled(buffer[c], k, u, n)
      /\ Arriving(ServerByte, ServerByte \cup {Unwritten}, ServerSize, u, buffer[c], k, n)
  BY PartReceived
<1>8. \A v \in Worker : DownAligned(v) /\ InFrames(UpStream(v), ServerSize) /\ WaitsAligned(v)
  BY AlignedParts DEF Inv
<1>9. Follows(u, buffer[c], k) /\ (sock[w] # "gone" => EndsWhole(u, k, ServerSize))
  <2>1. CellAligned(c)
    BY AlignedParts DEF Inv
  <2> QED
    BY <2>1, SizesArePositive DEF CellAligned
<1>10. InFrames(u, ServerSize)
  BY <1>8
<1>11. /\ k \in 0 .. ServerSize - 1
       /\ buffer[c] \in [1 .. ServerSize -> ServerByte \cup {Unwritten}]
       /\ ServerByte \subseteq ServerByte \cup {Unwritten}
       /\ ServerSize \in Nat \ {0}
  BY <1>2, SizesArePositive
<1> HIDE DEF u, k, full
<1>12. /\ full \in [1 .. ServerSize -> ServerByte \cup {Unwritten}]
       /\ Follows(AfterFirst(u, n), full, Count(k, n, ServerSize))
       /\ k + n = ServerSize => IsFrame(full) /\ full[1].at = 1
  BY <1>5, ReceivingKeepsFrames
<1>13. sock[w] # "gone" => EndsWhole(AfterFirst(u, n), Count(k, n, ServerSize), ServerSize)
  BY <1>5, <1>9, RestEndsWhole
<1>14. InFrames(u', ServerSize)
  <2>1. n \in 0 .. Len(u)
    BY <1>4, <1>5 DEF Arriving
  <2> QED
    BY <2>1, <1>4, <1>5, <1>10, <1>11, RestInFrames
<1>15. \A v \in Worker \ {w} : UpStream(v)' = UpStream(v)
  BY <1>1, <1>2 DEF UpStream, workerVars
<1>16. ASSUME NEW v \in Worker PROVE DownAligned(v)' /\ InFrames(UpStream(v), ServerSize)' /\ WaitsAligned(v)'
  <2>1. DownAligned(v)'
    BY <1>1, <1>8, SameDown DEF workerVars
  <2>2. CASE v = w
    <3>1. CellsOf(w)' # {}
      BY <1>1 DEF CellsOf
    <3> QED
      BY <2>1, <2>2, <3>1, <1>14 DEF WaitsAligned, u
  <2>3. CASE v # w
    <3>1. CellsOf(v)' = {} => CellsOf(v) = {}
      BY <1>1 DEF CellsOf
    <3>2. WaitsAligned(v)'
      BY <1>1, <1>8, <1>15, <2>3, <3>1, SameWaits DEF workerVars
    <3> QED
      BY <2>1, <2>3, <3>2, <1>8, <1>15
  <2> QED
    BY <2>2, <2>3
<1>17. ASSUME NEW d \in Cell PROVE CellAligned(d)'
  <2>1. CASE d = c
    <3>1. /\ buffer'[c] = full /\ received'[c] = Count(k, n, ServerSize)
          /\ socketFd'[c] = w /\ sock' = sock
      BY <1>1, <1>2, <1>3 DEF workerVars
    <3>2. Follows(u', full, Count(k, n, ServerSize))
          /\ (sock[w] # "gone" => EndsWhole(u', Count(k, n, ServerSize), ServerSize))
      BY <1>5, <1>12, <1>13
    <3> QED
      BY <2>1, <3>1, <3>2 DEF CellAligned, u
  <2>2. CASE d # c
    <3>1. CellAligned(d)
      BY AlignedParts DEF Inv
    <3>2. socketFd[d] # NoFd => socketFd[d] \in Worker \ {w}
      BY <1>2, <2>2 DEF Inv, Shape, OwnCells
    <3> QED
      BY <1>1, <1>2, <1>3, <1>15, <2>2, <3>1, <3>2, SameCell DEF workerVars
  <2> QED
    BY <2>1, <2>2
<1>18. NoTornFrame'
  <2>1. sock' = sock
    BY <1>1 DEF workerVars
  <2>2. pc' # "bug_command"
    <3>1. CASE ReceivePart(c, n)
      BY <3>1 DEF ReceivePart, Inv, NoTornFrame
    <3>2. CASE ReceiveFrame(c, n)
      <4>1. k + n = ServerSize
        BY <3>2 DEF ReceiveFrame, k
      <4>2. IsFrame(full) /\ Frame(full) \in ServerFrame
        BY <4>1, <1>11, <1>12, BufferedFrame DEF ServerByte
      <4> QED
        BY <3>2, <4>2 DEF ReceiveFrame, full, k, Inv, NoTornFrame
    <3> QED
      BY <3>1, <3>2
  <2> QED
    BY <2>1, <2>2 DEF Inv, NoTornFrame
<1> QED
  BY <1>16, <1>17, <1>18, AlignedPartsNext

LEMMA TakeAligned ==
  ASSUME Inv, NEW w \in Worker, NEW n \in 1 .. WorkerSize, TakePart(w, n) \/ TakeTask(w, n)
  PROVE  FramesAligned' /\ NoTornFrame'
<1> DEFINE k == taken[w]
           s == toWorker[w]
           full == Filled(taskBuffer[w], k, s, n)
<1>1. /\ n \in 1 .. Len(s) /\ n <= WorkerSize - k
      /\ toWorker' = [toWorker EXCEPT ![w] = AfterFirst(s, n)]
      /\ taskBuffer' = [taskBuffer EXCEPT ![w] = full]
      /\ UNCHANGED <<serverVars, unsent, toServer>>
      /\ sock[w] = "open"
  BY DEF TakePart, TakeTask, Reading, Portions, BytesToRead
<1>2. /\ toWorker \in [Worker -> Seq(WorkerByte)]
      /\ taken \in [Worker -> 0 .. WorkerSize - 1]
      /\ taskBuffer \in [Worker -> [1 .. WorkerSize -> WorkerByte \cup {Unwritten}]]
      /\ socketFd \in [Cell -> Worker \cup {NoFd}]
      /\ sock \in [Worker -> {"none", "open", "gone", "torn"}]
  BY DEF Inv, Shape, TypeOK
<1>3. taken' = [taken EXCEPT ![w] = Count(k, n, WorkerSize)]
  <2>1. CASE TakePart(w, n)
    BY <2>1 DEF TakePart, Count
  <2>2. CASE TakeTask(w, n)
    BY <2>2 DEF TakeTask
  <2> QED
    BY <2>1, <2>2
<1>4. \A v \in Worker : DownAligned(v) /\ InFrames(UpStream(v), ServerSize) /\ WaitsAligned(v)
  BY AlignedParts DEF Inv
<1>5. InFrames(s, WorkerSize) /\ Follows(s, taskBuffer[w], k) /\ EndsWhole(s, k, WorkerSize)
  BY <1>4 DEF DownAligned
<1>6. Arriving(WorkerByte, WorkerByte \cup {Unwritten}, WorkerSize, s, taskBuffer[w], k, n)
  <2>1. \A b \in WorkerByte : b.at \in 1 .. WorkerSize
    BY DEF WorkerByte
  <2> QED
    BY <2>1, <1>1, <1>2, <1>5, SizesArePositive DEF Arriving
<1>7. /\ s \in Seq(WorkerByte) /\ n \in 0 .. Len(s) /\ WorkerSize \in Nat \ {0}
      /\ \A i \in 1 .. Len(s) : s[i].at \in 1 .. WorkerSize
  BY <1>1, <1>2, StreamIsTyped, SizesArePositive DEF Inv
<1> HIDE DEF k, s, full
<1>8. /\ full \in [1 .. WorkerSize -> WorkerByte \cup {Unwritten}]
      /\ Follows(AfterFirst(s, n), full, Count(k, n, WorkerSize))
      /\ k + n = WorkerSize => IsFrame(full) /\ full[1].at = 1
  BY <1>6, ReceivingKeepsFrames DEF full
<1>9. EndsWhole(AfterFirst(s, n), Count(k, n, WorkerSize), WorkerSize)
  BY <1>5, <1>6, RestEndsWhole
<1>10. InFrames(AfterFirst(s, n), WorkerSize)
  BY <1>5, <1>7, RestInFrames
<1>11. sock' = sock
  <2>1. CASE TakePart(w, n)
    BY <2>1 DEF TakePart
  <2>2. CASE TakeTask(w, n)
    <3>1. k + n = WorkerSize
      BY <2>2 DEF TakeTask, k
    <3>2. IsFrame(full) /\ Frame(full) \in WorkerFrame
      BY <3>1, <1>7, <1>8, BufferedFrame DEF WorkerByte
    <3>3. taskBuffer'[w] = full
      BY <1>1, <1>2
    <3> QED
      BY <2>2, <3>2, <3>3 DEF TakeTask
  <2> QED
    BY <2>1, <2>2
<1>12. \A v \in Worker : UpStream(v)' = UpStream(v) /\ CellsOf(v)' = CellsOf(v)
  BY <1>1 DEF UpStream, CellsOf, serverVars
<1>13. ASSUME NEW v \in Worker PROVE DownAligned(v)' /\ InFrames(UpStream(v), ServerSize)' /\ WaitsAligned(v)'
  <2>1. WaitsAligned(v)'
    BY <1>4, <1>11, <1>12, SameWaits
  <2>2. CASE v = w
    <3>1. /\ toWorker'[w] = AfterFirst(s, n) /\ taskBuffer'[w] = full
          /\ taken'[w] = Count(k, n, WorkerSize)
      BY <1>1, <1>2, <1>3
    <3>2. DownAligned(w)'
      BY <3>1, <1>8, <1>9, <1>10 DEF DownAligned
    <3> QED
      BY <2>1, <2>2, <3>2, <1>4, <1>12
  <2>3. CASE v # w
    <3>1. DownAligned(v)'
      BY <1>1, <1>2, <1>3, <1>4, <2>3, SameDown
    <3> QED
      BY <2>1, <3>1, <1>4, <1>12
  <2> QED
    BY <2>2, <2>3
<1>14. ASSUME NEW d \in Cell PROVE CellAligned(d)'
  <2>1. CellAligned(d)
    BY AlignedParts DEF Inv
  <2> QED
    BY <2>1, <1>1, <1>2, <1>11, <1>12, SameCell DEF serverVars
<1>15. NoTornFrame'
  BY <1>1, <1>11 DEF Inv, NoTornFrame, serverVars
<1> QED
  BY <1>13, <1>14, <1>15, AlignedPartsNext

\* A frame more is still to follow what has been received.
LEMMA FollowedByFrame ==
  ASSUME NEW F, NEW f \in F, NEW size, NEW s, NEW r, NEW buf, NEW k,
         Follows(s, buf, k), EndsWhole(s, k, size),
         r # <<>>, r[1] = IF s = <<>> THEN Byte(f, 1) ELSE s[1], r[Len(r)].at = size
  PROVE  Follows(r, buf, k) /\ EndsWhole(r, k, size)
<1>1. EndsWhole(r, k, size)
  BY DEF EndsWhole
<1>2. CASE s = <<>>
  <2>1. k = 0 /\ r[1].at = 1
    BY <1>2 DEF EndsWhole, Byte
  <2> QED
    BY <1>1, <2>1 DEF Follows
<1>3. CASE s # <<>>
  BY <1>1, <1>3 DEF Follows
<1> QED
  BY <1>2, <1>3

LEMMA FrameSentAligned ==
  ASSUME Inv, NEW w \in Worker, NEW f \in ServerFrame,
         sock[w] = "open", unsent[w] = <<>>, PutBytes(w, Bytes(f, ServerSize)),
         UNCHANGED <<serverVars, sock, taken, taskBuffer, toWorker>>
  PROVE  FramesAligned'
<1> DEFINE u == UpStream(w)
           r == u \o Bytes(f, ServerSize)
<1>1. /\ toServer \in [Worker -> Seq(ServerByte)] /\ unsent \in [Worker -> Seq(ServerByte)]
      /\ socketFd \in [Cell -> Worker \cup {NoFd}] /\ received \in [Cell -> 0 .. ServerSize - 1]
  BY DEF Inv, Shape, TypeOK
<1>2. \A v \in Worker : DownAligned(v) /\ InFrames(UpStream(v), ServerSize) /\ WaitsAligned(v)
  BY AlignedParts DEF Inv
<1>3. Bytes(f, ServerSize) \in Seq(ServerByte)
  BY FrameIsWhole, SizesArePositive DEF ServerByte
<1>4. /\ toServer'[w] \o unsent'[w] = toServer[w] \o Bytes(f, ServerSize)
      /\ \A v \in Worker \ {w} : toServer'[v] = toServer[v] /\ unsent'[v] = unsent[v]
  BY <1>3, PuttingBytes DEF Inv
<1>5. u = toServer[w] /\ u \in Seq(ServerByte)
  <2>1. toServer[w] \o <<>> = toServer[w]
    BY <1>1
  <2> QED
    BY <2>1, <1>1 DEF UpStream
<1>6. u' = r
  BY <1>4, <1>5 DEF UpStream
<1>7. \A v \in Worker \ {w} : UpStream(v)' = UpStream(v)
  BY <1>4 DEF UpStream
<1>8. \A v \in Worker : CellsOf(v)' = CellsOf(v)
  BY DEF CellsOf, serverVars
<1>9. ASSUME NEW d \in Cell, socketFd[d] = w
      PROVE  Follows(u, buffer[d], received[d]) /\ EndsWhole(u, received[d], ServerSize)
  <2>1. CellAligned(d)
    BY AlignedParts DEF Inv
  <2> QED
    BY <2>1, <1>9, SizesArePositive DEF CellAligned
<1>10. PICK k \in 0 .. ServerSize - 1 : EndsWhole(u, k, ServerSize)
  <2>1. CASE CellsOf(w) = {}
    <3>1. EndsWhole(u, 0, ServerSize) /\ 0 \in 0 .. ServerSize - 1
      BY <2>1, <1>2, SizesArePositive DEF WaitsAligned
    <3> QED
      BY <3>1
  <2>2. CASE CellsOf(w) # {}
    BY <2>2, <1>1, <1>9 DEF CellsOf
  <2> QED
    BY <2>1, <2>2
<1>11. InFrames(u, ServerSize)
  BY <1>2
<1> HIDE DEF u
<1>12. /\ r # <<>> /\ r[1] = IF u = <<>> THEN Byte(f, 1) ELSE u[1]
       /\ InFrames(r, ServerSize) /\ r[Len(r)].at = ServerSize
  <2>1. Appending(ServerFrame, f, ServerSize, u, k)
    BY <1>5, <1>10, <1>11, SizesArePositive DEF ServerByte, Appending
  <2> QED
    BY ONLY <2>1, OneMoreFrame
<1> HIDE DEF r
<1>13. ASSUME NEW v \in Worker PROVE DownAligned(v)' /\ InFrames(UpStream(v), ServerSize)' /\ WaitsAligned(v)'
  <2>1. DownAligned(v)'
    BY <1>2, SameDown
  <2>2. CASE v = w
    <3>1. ASSUME CellsOf(w) = {} PROVE BeginsFrame(r) /\ EndsWhole(r, 0, ServerSize)
      <4>1. BeginsFrame(u) /\ EndsWhole(u, 0, ServerSize)
        BY <3>1, <1>2 DEF WaitsAligned, u
      <4>2. r[1].at = 1
        BY <4>1, <1>12 DEF BeginsFrame, Byte
      <4> QED
        BY <4>2, <1>12 DEF BeginsFrame, EndsWhole
    <3>2. WaitsAligned(w)'
      BY <3>1, <1>6, <1>8 DEF WaitsAligned, u
    <3> QED
      BY <2>1, <2>2, <3>2, <1>6, <1>12 DEF u
  <2>3. CASE v # w
    <3>1. WaitsAligned(v)'
      BY <2>3, <1>2, <1>7, <1>8, SameWaits
    <3> QED
      BY <2>1, <2>3, <3>1, <1>2, <1>7
  <2> QED
    BY <2>2, <2>3
<1>14. ASSUME NEW d \in Cell PROVE CellAligned(d)'
  <2>1. CellAligned(d)
    BY AlignedParts DEF Inv
  <2>2. CASE socketFd[d] = w
    <3>1. Follows(u, buffer[d], received[d]) /\ EndsWhole(u, received[d], ServerSize)
      BY <2>2, <1>9
    <3>2. r # <<>> /\ r[1] = (IF u = <<>> THEN Byte(f, 1) ELSE u[1]) /\ r[Len(r)].at = ServerSize
      BY <1>12
    <3>3. Follows(r, buffer[d], received[d]) /\ EndsWhole(r, received[d], ServerSize)
      BY ONLY f \in ServerFrame, <3>1, <3>2, FollowedByFrame
    <3> QED
      BY <2>2, <3>3, <1>6 DEF CellAligned, serverVars, u
  <2>3. CASE socketFd[d] # w
    <3>1. socketFd[d] # NoFd => socketFd[d] \in Worker \ {w}
      BY <2>3, <1>1
    <3> QED
      BY <2>1, <3>1, <1>7, SameCell DEF serverVars
  <2> QED
    BY <2>2, <2>3
<1> QED
  BY <1>13, <1>14, AlignedPartsNext

LEMMA SendsAligned ==
  ASSUME Inv, NEW w \in Worker, WorkerSends(w)
  PROVE  FramesAligned' /\ NoTornFrame'
<1>1. UNCHANGED <<serverVars, sock, taken, taskBuffer, toWorker>> /\ sock[w] = "open"
  BY DEF WorkerSends, SendRequest, SendResult, SendRest
<1>2. NoTornFrame'
  BY <1>1 DEF Inv, NoTornFrame, serverVars
<1>3. CASE SendRequest(w)
  <2>1. Request \in ServerFrame
    BY DEF ServerFrame
  <2>2. unsent[w] = <<>> /\ PutBytes(w, Bytes(Request, ServerSize))
    BY <1>3 DEF SendRequest
  <2> QED
    BY <2>1, <2>2, <1>1, <1>2, FrameSentAligned
<1>4. ASSUME NEW t \in Task, SendResult(w, t) PROVE FramesAligned'
  <2>1. Result(t) \in ServerFrame
    BY DEF ServerFrame
  <2>2. unsent[w] = <<>> /\ PutBytes(w, Bytes(Result(t), ServerSize))
    BY <1>4 DEF SendResult
  <2> QED
    BY <2>1, <2>2, <1>1, FrameSentAligned
<1>5. CASE SendRest(w)
  <2>1. unsent[w] \in Seq(ServerByte) /\ PutBytes(w, unsent[w])
    BY <1>5 DEF SendRest, Inv, Shape, TypeOK
  <2>2. /\ toServer'[w] \o unsent'[w] = toServer[w] \o unsent[w]
        /\ \A v \in Worker \ {w} : toServer'[v] = toServer[v] /\ unsent'[v] = unsent[v]
    BY <2>1, PuttingBytes DEF Inv
  <2>3. \A v \in Worker : UpStream(v)' = UpStream(v)
    BY <2>2 DEF UpStream
  <2>4. \A v \in Worker : DownAligned(v) /\ InFrames(UpStream(v), ServerSize) /\ WaitsAligned(v)
    BY AlignedParts DEF Inv
  <2>5. ASSUME NEW v \in Worker PROVE DownAligned(v)' /\ InFrames(UpStream(v), ServerSize)' /\ WaitsAligned(v)'
    <3>1. DownAligned(v)'
      BY <1>1, <2>4, SameDown
    <3>2. WaitsAligned(v)'
      BY <1>1, <2>3, <2>4, SameWaits DEF CellsOf, serverVars
    <3> QED
      BY <3>1, <3>2, <2>3, <2>4
  <2>6. ASSUME NEW d \in Cell PROVE CellAligned(d)'
    <3>1. CellAligned(d)
      BY AlignedParts DEF Inv
    <3>2. socketFd[d] # NoFd => socketFd[d] \in Worker
      BY DEF Inv, Shape, TypeOK
    <3> QED
      BY <3>1, <3>2, <1>1, <2>3, SameCell DEF serverVars
  <2> QED
    BY <1>2, <2>5, <2>6, AlignedPartsNext
<1> QED
  BY <1>2, <1>3, <1>4, <1>5 DEF WorkerSends

LEMMA TaskSentAligned ==
  ASSUME Inv, NEW c \in Cell, NEW t \in Task, SendTask(c, t)
  PROVE  FramesAligned' /\ NoTornFrame'
<1> PICK w \in Worker : w = socketFd[c]
  BY DEF SendTask, Inv, Shape, TypeOK
<1> DEFINE s == toWorker[w]
           f == TaskFor(t)
           k == taken[w]
           r == s \o Bytes(f, WorkerSize)
<1>1. /\ UNCHANGED <<backlog, socketFd, received, buffer, workerVars, toServer>>
      /\ pc' = pc \/ pc' = "no_room"
      /\ toWorker' = toWorker \/ toWorker' = [toWorker EXCEPT ![w] = r]
  BY DEF SendTask, Inv, Shape, TypeOK
<1>2. NoTornFrame'
  BY <1>1 DEF Inv, NoTornFrame, workerVars
<1>3. \A v \in Worker : DownAligned(v) /\ InFrames(UpStream(v), ServerSize) /\ WaitsAligned(v)
  BY AlignedParts DEF Inv
<1>4. \A v \in Worker : UpStream(v)' = UpStream(v) /\ CellsOf(v)' = CellsOf(v)
  BY <1>1 DEF UpStream, CellsOf, workerVars
<1>5. toWorker \in [Worker -> Seq(WorkerByte)]
  BY DEF Inv, Shape, TypeOK
<1>6. InFrames(s, WorkerSize) /\ Follows(s, taskBuffer[w], k) /\ EndsWhole(s, k, WorkerSize)
  BY <1>3 DEF DownAligned
<1>7. Appending(WorkerFrame, f, WorkerSize, s, k)
  BY <1>6, SizesArePositive DEF Appending, WorkerFrame, WorkerByte, Inv, Shape, TypeOK
<1>8. f \in WorkerFrame
  BY DEF WorkerFrame
<1> HIDE DEF s, f, k
<1>9. /\ r # <<>> /\ r[1] = IF s = <<>> THEN Byte(f, 1) ELSE s[1]
      /\ InFrames(r, WorkerSize) /\ r[Len(r)].at = WorkerSize
  BY ONLY <1>7, OneMoreFrame
<1> HIDE DEF r
<1>10. Follows(r, taskBuffer[w], k) /\ EndsWhole(r, k, WorkerSize)
  BY <1>6, <1>8, <1>9, FollowedByFrame
<1>11. ASSUME NEW v \in Worker PROVE DownAligned(v)' /\ InFrames(UpStream(v), ServerSize)' /\ WaitsAligned(v)'
  <2>1. WaitsAligned(v)'
    BY <1>1, <1>3, <1>4, SameWaits DEF workerVars
  <2>2. DownAligned(v)'
    <3>1. CASE toWorker'[v] = toWorker[v]
      BY <3>1, <1>1, <1>3, SameDown DEF workerVars
    <3>2. CASE v = w /\ toWorker'[w] = r
      BY <3>2, <1>1, <1>9, <1>10 DEF DownAligned, workerVars, k
    <3> QED
      BY <3>1, <3>2, <1>1, <1>5
  <2> QED
    BY <2>1, <2>2, <1>3, <1>4
<1>12. ASSUME NEW d \in Cell PROVE CellAligned(d)'
  <2>1. CellAligned(d)
    BY AlignedParts DEF Inv
  <2>2. socketFd[d] # NoFd => socketFd[d] \in Worker
    BY DEF Inv, Shape, TypeOK
  <2> QED
    BY <2>1, <2>2, <1>1, <1>4, SameCell DEF workerVars
<1> QED
  BY <1>2, <1>11, <1>12, AlignedPartsNext

-----------------------------------------------------------------------------
(* The theorems                                                            *)

LEMMA InvInit == Init => Inv
<1> SUFFICES ASSUME Init PROVE Inv
  OBVIOUS
<1>1. Shape
  BY ShapeInit
<1>2. \A w \in Worker : toServer[w] = <<>> /\ unsent[w] = <<>> /\ toWorker[w] = <<>> /\ taken[w] = 0
  BY DEF Init
<1>3. \A w \in Worker : UpStream(w) = <<>>
  <2>1. <<>> \o <<>> = <<>>
    OBVIOUS
  <2> QED
    BY <1>2, <2>1, Zenon DEF UpStream
<1>4. \A c \in Cell : CellAligned(c)
  BY DEF Init, CellAligned
<1>5. ASSUME NEW w \in Worker PROVE DownAligned(w) /\ InFrames(UpStream(w), ServerSize) /\ WaitsAligned(w)
  <2>1. DOMAIN (taskBuffer[w]) = 1 .. WorkerSize
    BY DEF Init
  <2>2. Follows(<<>>, taskBuffer[w], 0)
    BY <2>1, SizesArePositive DEF Follows
  <2> QED
    BY <2>2, <1>2, <1>3, NothingIsAligned DEF DownAligned, WaitsAligned
<1>6. FramesAligned
  BY <1>4, <1>5, AlignedParts
<1>7. NoTornFrame
  BY DEF Init, NoTornFrame
<1> QED
  BY <1>1, <1>6, <1>7 DEF Inv

LEMMA InvStep == Inv /\ [Next]_vars => Inv'
<1> SUFFICES ASSUME Inv, [Next]_vars PROVE FramesAligned' /\ NoTornFrame'
  BY ShapeStep DEF Inv
<1>1. CASE UNCHANGED vars
  <2>1. \A w \in Worker : UpStream(w)' = UpStream(w) /\ CellsOf(w)' = CellsOf(w)
    BY <1>1 DEF UpStream, CellsOf, vars, serverVars, workerVars
  <2>2. FreeCells' = FreeCells
    BY <1>1 DEF FreeCells, vars, serverVars
  <2>3. \A c \in Cell \ FreeCells : socketFd[c] \in Worker
    BY DEF FreeCells, Inv, Shape, TypeOK
  <2> QED
    BY <1>1, <2>1, <2>2, <2>3 DEF Inv, FramesAligned, NoTornFrame, vars, serverVars, workerVars
<1>2. ASSUME NEW w \in Worker, NEW c \in Cell, AcceptConnection(w, c) PROVE FramesAligned' /\ NoTornFrame'
  BY <1>2, AcceptAligned DEF AcceptConnection, Inv, NoTornFrame, workerVars
<1>3. ASSUME NEW c \in Cell, DropConnection(c) PROVE FramesAligned' /\ NoTornFrame'
  BY <1>3, DropAligned DEF DropConnection, Inv, NoTornFrame, workerVars
<1>4. ASSUME NEW c \in Cell, ServerReads(c) PROVE FramesAligned' /\ NoTornFrame'
  BY <1>4, ReceiveAligned DEF ServerReads
<1>5. ASSUME NEW c \in Cell, NEW t \in Task, SendTask(c, t) PROVE FramesAligned' /\ NoTornFrame'
  BY <1>5, TaskSentAligned
<1>6. ASSUME NEW w \in Worker, WorkerNext(w) PROVE FramesAligned' /\ NoTornFrame'
  BY <1>6, ConnectAligned, TakeAligned, SendsAligned, DeathAligned DEF WorkerNext, WorkerReads
<1> QED
  BY <1>1, <1>2, <1>3, <1>4, <1>5, <1>6 DEF Next, ServerNext

LEMMA InvAlways == Spec => []Inv
  BY InvInit, InvStep, PTL DEF Spec

\* A buffer is never full between two recv(), however the streams are cut.
THEOREM BuffersAreTyped == Spec => []TypeOK
<1>1. Inv => TypeOK
  BY DEF Inv, Shape
<1> QED
  BY <1>1, InvAlways, PTL

\* Each side finds the next frame where the last one ended, for frames of any
\* size and recv() and send() of any part of them.
THEOREM StreamsStayAligned == Spec => []FramesAligned
<1>1. Inv => FramesAligned
  BY DEF Inv
<1> QED
  BY <1>1, InvAlways, PTL

\* No side ever takes bytes of two frames for one: neither the BUG_ON of the
\* server nor that of a worker is ever reached.
THEOREM FramesAreNeverTorn == Spec => []NoTornFrame
<1>1. Inv => NoTornFrame
  BY DEF Inv
<1> QED
  BY <1>1, InvAlways, PTL

=============================================================================
