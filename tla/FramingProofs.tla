---------------------------- MODULE FramingProofs ----------------------------
(***************************************************************************)
(* Proofs about Buffers and Framing: read_uint32 undoes write_uint32, for  *)
(* every size of a byte, and server::read takes from the stream of a       *)
(* connection the requests that were written to it, however recv() cuts    *)
(* it.                                                                     *)
(*                                                                         *)
(* What is on its way is described by the positions at which the requests  *)
(* start: the one being read has started before the first byte.            *)
(***************************************************************************)
EXTENDS Framing, SequenceTheorems, TLAPS

(***************************************************************************)
(* The length in front of a request.                                       *)
(***************************************************************************)

\* What a shift leaves behind and what it shifts out.
LEMMA ShiftLow ==
  ASSUME NEW v \in Nat
  PROVE  /\ Shift8(v) \in Nat
         /\ LowByte(v) \in Byte
         /\ v = Shift8(v) * Base + LowByte(v)
BY BaseAssumption DEF Shift8, LowByte, Byte

\* A product below a multiple of Base has a factor below the multiplier.
LEMMA FactorBound ==
  ASSUME NEW a \in Nat, NEW b \in Nat, NEW c \in Nat, c = a * Base + b,
         NEW d \in Nat, c < d * Base
  PROVE  a < d
<1>1. SUFFICES ASSUME a >= d PROVE FALSE
  OBVIOUS
<1>2. PICK e \in Nat : a = d + e
  <2>1. a - d \in Nat /\ a = d + (a - d)
    BY <1>1
  <2> QED
    BY <2>1
<1>3. a * Base = d * Base + e * Base
  BY <1>2, BaseAssumption
<1>4. e * Base \in Nat /\ d * Base \in Nat
  BY <1>2, BaseAssumption
<1> QED
  BY <1>3, <1>4

\* The four bytes that write_uint32 writes are bytes, and read_uint32 reads the
\* value back: the length in front of a message is the one its sender wrote.
THEOREM RoundTrip ==
  ASSUME NEW v \in UInt32
  PROVE  WriteBig(v) \in [1 .. 4 -> Byte] /\ ReadBig(WriteBig(v)) = v
<1> DEFINE p == Shift8(v)
           q == Shift8(p)
           t == Shift8(q)
<1>1. v \in Nat /\ v < Base * Base * Base * Base
  BY BaseAssumption DEF UInt32, Range32
<1>2. p \in Nat /\ LowByte(v) \in Byte /\ v = p * Base + LowByte(v)
  BY <1>1, ShiftLow
<1>3. q \in Nat /\ LowByte(p) \in Byte /\ p = q * Base + LowByte(p)
  BY <1>2, ShiftLow
<1>4. t \in Nat /\ LowByte(q) \in Byte /\ q = t * Base + LowByte(q)
  BY <1>3, ShiftLow
<1>5. Base * Base \in Nat /\ Base * Base * Base \in Nat
  BY BaseAssumption
<1>6. p < Base * Base * Base
  BY <1>1, <1>2, <1>5, BaseAssumption, FactorBound DEF Byte
<1>7. q < Base * Base
  BY <1>3, <1>2, <1>6, <1>5, BaseAssumption, FactorBound DEF Byte
<1>8. t < Base
  BY <1>4, <1>3, <1>7, <1>5, BaseAssumption, FactorBound DEF Byte
<1>9. LowByte(t) = t
  BY <1>4, <1>8, BaseAssumption DEF LowByte
<1>10. WriteBig(v) = <<t, LowByte(q), LowByte(p), LowByte(v)>>
  BY <1>9 DEF WriteBig
<1>11. t \in Byte
  BY <1>4, <1>8, BaseAssumption DEF Byte
<1>12. WriteBig(v) \in [1 .. 4 -> Byte]
  BY <1>2, <1>3, <1>4, <1>10, <1>11
<1>13. ReadBig(WriteBig(v))
         = t * (Base * Base * Base) + LowByte(q) * (Base * Base) + LowByte(p) * Base + LowByte(v)
  BY <1>10 DEF ReadBig
<1>14. q * Base = t * (Base * Base) + LowByte(q) * Base
  BY <1>4, BaseAssumption, Z3 DEF Byte
<1>15. p * Base = t * (Base * Base * Base) + LowByte(q) * (Base * Base) + LowByte(p) * Base
  BY <1>3, <1>4, <1>14, BaseAssumption, Z3 DEF Byte
<1> QED
  BY <1>2, <1>12, <1>13, <1>15

(***************************************************************************)
(* The helpers of the model.                                               *)
(***************************************************************************)

\* The smaller of two numbers is one of them.
LEMMA MinOfTwo ==
  ASSUME NEW a \in Int, NEW b \in Int
  PROVE  Min({a, b}) \in {a, b} /\ Min({a, b}) <= a /\ Min({a, b}) <= b
<1>1. \E x \in {a, b} : \A y \in {a, b} : x <= y
  OBVIOUS
<1> QED
  BY <1>1 DEF Min

\* recv() of at most n bytes returns the first bytes that have arrived, and leaves the rest.
LEMMA ChunkOf ==
  ASSUME arriving \in Seq(Byte), NEW n \in Int, NEW chunk \in Chunk(n), Taken(chunk)
  PROVE  \E c \in 1 .. Len(arriving) :
           /\ c <= n
           /\ chunk \in Seq(Byte) /\ Len(chunk) = c
           /\ \A p \in 1 .. c : chunk[p] = arriving[p]
           /\ arriving' \in Seq(Byte) /\ Len(arriving') = Len(arriving) - c
           /\ \A p \in 1 .. Len(arriving) - c : arriving'[p] = arriving[c + p]
<1>1. Len(arriving) \in Nat
  BY LenProperties
<1>2. PICK c \in 1 .. Min({n, Len(arriving)}) : chunk = SubSeq(arriving, 1, c)
  BY DEF Chunk
<1>3. c \in 1 .. Len(arriving) /\ c <= n
  <2>1. Min({n, Len(arriving)}) <= n /\ Min({n, Len(arriving)}) <= Len(arriving)
        /\ Min({n, Len(arriving)}) \in {n, Len(arriving)}
    <3>1. Len(arriving) \in Int
      BY <1>1
    <3> QED
      BY <3>1, MinOfTwo, Zenon
  <2> QED
    BY <1>1, <1>2, <2>1
<1>4. \A p \in 1 .. Len(arriving) : arriving[p] \in Byte
  BY ElementOfSeq
<1>5. chunk \in Seq(Byte) /\ Len(chunk) = c /\ \A p \in 1 .. c : chunk[p] = arriving[p]
  <2>1. \A p \in 1 .. c : arriving[p] \in Byte
    BY <1>1, <1>3, <1>4
  <2>2. /\ SubSeq(arriving, 1, c) \in Seq(Byte)
        /\ Len(SubSeq(arriving, 1, c)) = IF 1 <= c THEN c - 1 + 1 ELSE 0
        /\ \A p \in 1 .. c - 1 + 1 : SubSeq(arriving, 1, c)[p] = arriving[1 + p - 1]
    BY <1>3, <2>1, SubSeqProperties
  <2> QED
    BY <1>1, <1>2, <1>3, <2>2
<1>6. /\ arriving' \in Seq(Byte) /\ Len(arriving') = Len(arriving) - c
      /\ \A p \in 1 .. Len(arriving) - c : arriving'[p] = arriving[c + p]
  <2>1. arriving' = SubSeq(arriving, c + 1, Len(arriving))
    BY <1>5 DEF Taken
  <2>2. \A p \in c + 1 .. Len(arriving) : arriving[p] \in Byte
    BY <1>1, <1>3, <1>4
  <2>3. /\ SubSeq(arriving, c + 1, Len(arriving)) \in Seq(Byte)
        /\ Len(SubSeq(arriving, c + 1, Len(arriving)))
             = IF c + 1 <= Len(arriving) THEN Len(arriving) - (c + 1) + 1 ELSE 0
        /\ \A p \in 1 .. Len(arriving) - (c + 1) + 1 :
             SubSeq(arriving, c + 1, Len(arriving))[p] = arriving[c + 1 + p - 1]
    BY <1>1, <1>3, <2>2, SubSeqProperties, Z3
  <2> QED
    BY <1>1, <1>3, <2>1, <2>3
<1> QED
  BY <1>3, <1>5, <1>6

\* A request as it is written: its length, then its text.
Frame(r) == WriteBig(Len(r)) \o r

\* The four bytes in front of a request are a sequence of bytes.
LEMMA LengthBytes ==
  ASSUME NEW v \in UInt32
  PROVE  WriteBig(v) \in Seq(Byte) /\ Len(WriteBig(v)) = 4
<1>1. WriteBig(v) \in [1 .. 4 -> Byte]
  BY RoundTrip
<1> QED
  BY <1>1 DEF WriteBig

\* Four bytes of length, then the text.
LEMMA FrameProperties ==
  ASSUME NEW r \in Requests
  PROVE  /\ r \in Seq(Byte) /\ Len(r) \in Nat /\ Len(r) \in UInt32
         /\ Frame(r) \in Seq(Byte) /\ Len(Frame(r)) = 4 + Len(r)
         /\ \A p \in 1 .. 4 : Frame(r)[p] = WriteBig(Len(r))[p]
         /\ \A p \in 1 .. Len(r) : Frame(r)[4 + p] = r[p]
<1>1. r \in Seq(Byte) /\ Len(r) \in UInt32
  BY FramingAssumption
<1>2. Len(r) \in Nat
  BY <1>1, LenProperties
<1>3. WriteBig(Len(r)) \in Seq(Byte) /\ Len(WriteBig(Len(r))) = 4
  BY <1>1, LengthBytes
<1>4. /\ Frame(r) \in Seq(Byte) /\ Len(Frame(r)) = 4 + Len(r)
      /\ \A p \in 1 .. 4 + Len(r) :
           Frame(r)[p] = IF p <= 4 THEN WriteBig(Len(r))[p] ELSE r[p - 4]
  <2> DEFINE w == WriteBig(Len(r))
  <2>1. /\ w \o r \in Seq(Byte) /\ Len(w \o r) = Len(w) + Len(r)
        /\ \A p \in 1 .. Len(w) + Len(r) :
             (w \o r)[p] = IF p <= Len(w) THEN w[p] ELSE r[p - Len(w)]
    BY <1>1, <1>3, ConcatProperties
  <2> HIDE DEF w
  <2>2. Len(w) = 4 /\ Frame(r) = w \o r
    BY <1>3 DEF Frame, w
  <2>3. \A p \in 1 .. 4 + Len(r) : (w \o r)[p] = IF p <= 4 THEN w[p] ELSE r[p - 4]
    BY <2>1, <2>2
  <2> QED
    BY <2>1, <2>2, <2>3 DEF w
<1>5. \A p \in 1 .. 4 : Frame(r)[p] = WriteBig(Len(r))[p]
  <2> SUFFICES ASSUME NEW p \in 1 .. 4 PROVE Frame(r)[p] = WriteBig(Len(r))[p]
    OBVIOUS
  <2>1. p \in 1 .. 4 + Len(r) /\ p <= 4
    BY <1>2
  <2> QED
    BY <1>4, <2>1
<1>6. \A p \in 1 .. Len(r) : Frame(r)[4 + p] = r[p]
  <2> SUFFICES ASSUME NEW p \in 1 .. Len(r) PROVE Frame(r)[4 + p] = r[p]
    OBVIOUS
  <2> DEFINE l == Len(r)
             q == 4 + p
  <2>1. l \in Nat /\ p \in 1 .. l
    BY <1>2
  <2> HIDE DEF l
  <2>2. q \in 1 .. 4 + l /\ ~(q <= 4) /\ q - 4 = p
    BY <2>1
  <2> HIDE DEF q
  <2>3. Frame(r)[q] = r[q - 4]
    BY <1>4, <2>2 DEF l
  <2> QED
    BY <2>2, <2>3 DEF q
<1> QED
  BY <1>1, <1>2, <1>4, <1>5, <1>6

\* What send() adds to what is on its way is one frame.
LEMMA SentIsFrame ==
  ASSUME NEW r \in Requests, NEW s \in Seq(Byte)
  PROVE  /\ s \o WriteBig(Len(r)) \o r \in Seq(Byte)
         /\ Len(s \o WriteBig(Len(r)) \o r) = Len(s) + 4 + Len(r)
         /\ \A p \in 1 .. Len(s) : (s \o WriteBig(Len(r)) \o r)[p] = s[p]
         /\ \A p \in 1 .. 4 + Len(r) : (s \o WriteBig(Len(r)) \o r)[Len(s) + p] = Frame(r)[p]
<1>1. r \in Seq(Byte) /\ WriteBig(Len(r)) \in Seq(Byte)
  BY FrameProperties, LengthBytes
<1>2. s \o WriteBig(Len(r)) \o r = s \o Frame(r)
  BY <1>1, ConcatAssociative DEF Frame
<1>3. /\ s \o Frame(r) \in Seq(Byte) /\ Len(s \o Frame(r)) = Len(s) + Len(Frame(r))
      /\ \A p \in 1 .. Len(s) + Len(Frame(r)) :
           (s \o Frame(r))[p] = IF p <= Len(s) THEN s[p] ELSE Frame(r)[p - Len(s)]
  BY FrameProperties, ConcatProperties
<1>4. Len(s) \in Nat /\ Len(r) \in Nat /\ Len(Frame(r)) = 4 + Len(r)
  BY FrameProperties, LenProperties
<1> QED
  BY <1>2, <1>3, <1>4

(***************************************************************************)
(* The requests that are on their way.                                     *)
(***************************************************************************)

\* The requests of reqs from the given one on lie one behind the other in bytes; the
\* k-th of them follows position start[k], and the part before position 1 is read.
Laid(start, bytes, reqs, from) ==
  /\ start[Len(reqs) + 1] = Len(bytes)
  /\ \A k \in from .. Len(reqs) :
       /\ start[k + 1] = start[k] + 4 + Len(reqs[k]) /\ start[k + 1] <= Len(bytes)
       /\ \A p \in 1 .. 4 + Len(reqs[k]) :
            start[k] + p >= 1 => bytes[start[k] + p] = Frame(reqs[k])[p]

Starts == [Nat -> Int]

\* A request that is sent is laid behind the others.
LEMMA LaidSend ==
  ASSUME NEW start \in Starts, NEW bytes \in Seq(Byte), NEW reqs \in Seq(Requests),
         NEW from \in 1 .. Len(reqs) + 1, Laid(start, bytes, reqs, from), NEW r \in Requests
  PROVE  \E new \in Starts :
           /\ \A k \in 1 .. Len(reqs) + 1 : new[k] = start[k]
           /\ Laid(new, bytes \o WriteBig(Len(r)) \o r, Append(reqs, r), from)
<1> DEFINE sent == bytes \o WriteBig(Len(r)) \o r
           more == Append(reqs, r)
           new == [start EXCEPT ![Len(reqs) + 2] = Len(bytes) + 4 + Len(r)]
<1>1. Len(reqs) \in Nat /\ Len(bytes) \in Nat /\ Len(r) \in Nat
  BY FrameProperties, LenProperties
<1>2. /\ sent \in Seq(Byte) /\ Len(sent) = Len(bytes) + 4 + Len(r)
      /\ \A p \in 1 .. Len(bytes) : sent[p] = bytes[p]
      /\ \A p \in 1 .. 4 + Len(r) : sent[Len(bytes) + p] = Frame(r)[p]
  BY SentIsFrame
<1>3. /\ Len(more) = Len(reqs) + 1 /\ more[Len(reqs) + 1] = r
      /\ \A k \in 1 .. Len(reqs) : more[k] = reqs[k]
  BY <1>1, AppendProperties
<1>4. /\ new \in Starts /\ new[Len(reqs) + 2] = Len(bytes) + 4 + Len(r)
      /\ \A k \in 1 .. Len(reqs) + 1 : new[k] = start[k]
  BY <1>1 DEF Starts
<1> HIDE DEF sent, more, new
<1>5. new[Len(more) + 1] = Len(sent)
  BY <1>1, <1>2, <1>3, <1>4
<1>6. ASSUME NEW k \in from .. Len(more)
      PROVE  /\ new[k + 1] = new[k] + 4 + Len(more[k]) /\ new[k + 1] <= Len(sent)
             /\ \A p \in 1 .. 4 + Len(more[k]) :
                  new[k] + p >= 1 => sent[new[k] + p] = Frame(more[k])[p]
  <2>1. CASE k = Len(reqs) + 1
    <3>1. start[Len(reqs) + 1] = Len(bytes)
      BY DEF Laid
    <3>2. new[k] = Len(bytes) /\ new[k + 1] = Len(bytes) + 4 + Len(r) /\ more[k] = r
      BY <1>1, <1>3, <1>4, <2>1, <3>1
    <3>3. new[k + 1] = Len(sent)
      BY <1>2, <3>2, Zenon
    <3>4. \A p \in 1 .. 4 + Len(more[k]) : sent[new[k] + p] = Frame(more[k])[p]
      BY <1>2, <3>2
    <3> QED
      BY <1>1, <1>2, <3>2, <3>3, <3>4
  <2>2. CASE k \in from .. Len(reqs)
    <3>1. k \in Nat /\ k + 1 \in 1 .. Len(reqs) + 1 /\ k \in 1 .. Len(reqs)
      BY <1>1, <2>2
    <3>2. new[k + 1] = start[k + 1] /\ new[k] = start[k] /\ more[k] = reqs[k]
      BY <1>1, <1>3, <1>4, <3>1
    <3>3. /\ start[k + 1] = start[k] + 4 + Len(reqs[k]) /\ start[k + 1] <= Len(bytes)
          /\ \A p \in 1 .. 4 + Len(reqs[k]) :
               start[k] + p >= 1 => bytes[start[k] + p] = Frame(reqs[k])[p]
      BY <2>2 DEF Laid
    <3>4. start[k] \in Int /\ Len(reqs[k]) \in Nat
      BY <3>1, ElementOfSeq, FrameProperties DEF Starts
    <3>5. ASSUME NEW p \in 1 .. 4 + Len(reqs[k]), start[k] + p >= 1
          PROVE  sent[start[k] + p] = Frame(reqs[k])[p]
      <4> DEFINE s == start[k]
                 l == Len(reqs[k])
                 b == Len(bytes)
      <4>1. s + 4 + l <= b /\ p \in 1 .. 4 + l /\ s + p >= 1 /\ s \in Int /\ l \in Nat /\ b \in Nat
        BY <1>1, <3>3, <3>4, <3>5
      <4> HIDE DEF s, l, b
      <4>2. s + p \in 1 .. b
        BY <4>1
      <4> USE DEF s, l, b
      <4> QED
        BY <1>2, <3>3, <3>5, <4>2
    <3>6. new[k + 1] = new[k] + 4 + Len(more[k])
      BY <3>2, <3>3
    <3>7. new[k + 1] <= Len(sent)
      <4> DEFINE s == start[k + 1]
                 b == Len(bytes)
                 l == Len(r)
      <4>1. s \in Int /\ s <= b /\ b \in Nat /\ l \in Nat /\ Len(sent) = b + 4 + l
        BY <1>1, <1>2, <3>1, <3>3 DEF Starts
      <4> HIDE DEF s, b, l
      <4>2. s <= Len(sent)
        BY <4>1
      <4> USE DEF s, b, l
      <4> QED
        BY <3>2, <4>2
    <3>8. \A p \in 1 .. 4 + Len(more[k]) :
            new[k] + p >= 1 => sent[new[k] + p] = Frame(more[k])[p]
      BY <3>2, <3>5
    <3> QED
      BY <3>6, <3>7, <3>8
  <2> QED
    BY <1>1, <1>3, <2>1, <2>2
<1> QED
  BY <1>4, <1>5, <1>6 DEF Laid, sent, more

\* When the first c bytes have been read, all that is left is c positions further on.
LEMMA LaidTake ==
  ASSUME NEW start \in Starts, NEW bytes \in Seq(Byte), NEW reqs \in Seq(Requests),
         NEW from \in 1 .. Len(reqs) + 1, Laid(start, bytes, reqs, from),
         NEW c \in 1 .. Len(bytes), NEW left \in Seq(Byte), Len(left) = Len(bytes) - c,
         \A p \in 1 .. Len(bytes) - c : left[p] = bytes[c + p]
  PROVE  \E new \in Starts :
           (\A k \in 1 .. Len(reqs) + 1 : new[k] = start[k] - c) /\ Laid(new, left, reqs, from)
<1> DEFINE new == [k \in Nat |-> start[k] - c]
<1>1. Len(reqs) \in Nat /\ Len(bytes) \in Nat
  BY LenProperties
<1>2. c \in Nat /\ \A k \in Nat : start[k] \in Int
  BY <1>1 DEF Starts
<1>3. new \in Starts /\ \A k \in Nat : new[k] = start[k] - c
  BY <1>2 DEF Starts
<1> HIDE DEF new
<1>4. new[Len(reqs) + 1] = Len(left)
  <2>1. start[Len(reqs) + 1] = Len(bytes)
    BY DEF Laid
  <2> QED
    BY <1>1, <1>2, <1>3, <2>1
<1>5. ASSUME NEW k \in from .. Len(reqs)
      PROVE  /\ new[k + 1] = new[k] + 4 + Len(reqs[k]) /\ new[k + 1] <= Len(left)
             /\ \A p \in 1 .. 4 + Len(reqs[k]) :
                  new[k] + p >= 1 => left[new[k] + p] = Frame(reqs[k])[p]
  <2>1. k \in Nat /\ k \in 1 .. Len(reqs)
    BY <1>1
  <2>2. /\ start[k] \in Int /\ start[k + 1] \in Int
        /\ new[k] = start[k] - c /\ new[k + 1] = start[k + 1] - c
    <3>1. k + 1 \in Nat
      BY <2>1
    <3> QED
      BY <1>2, <1>3, <2>1, <3>1, Zenon
  <2>3. Len(reqs[k]) \in Nat
    BY <2>1, ElementOfSeq, FrameProperties
  <2>4. start[k + 1] = start[k] + 4 + Len(reqs[k]) /\ start[k + 1] <= Len(bytes)
    BY DEF Laid
  <2>5. \A p \in 1 .. 4 + Len(reqs[k]) :
          start[k] + p >= 1 => bytes[start[k] + p] = Frame(reqs[k])[p]
    BY DEF Laid
  <2>6. ASSUME NEW p \in 1 .. 4 + Len(reqs[k]), new[k] + p >= 1
        PROVE  left[new[k] + p] = Frame(reqs[k])[p]
    <3> DEFINE s == start[k]
               n == new[k]
               l == Len(reqs[k])
               b == Len(bytes)
    <3>1. /\ s + 4 + l <= b /\ n = s - c /\ p \in 1 .. 4 + l /\ n + p >= 1
          /\ s \in Int /\ l \in Nat /\ b \in Nat /\ c \in Nat
      BY <1>1, <1>2, <2>2, <2>3, <2>4, <2>6
    <3> HIDE DEF s, n, l, b
    <3>2. n + p \in 1 .. b - c /\ c + (n + p) = s + p /\ s + p >= 1
      BY <3>1
    <3> USE DEF s, n, l, b
    <3> QED
      BY <2>5, <3>2
  <2>7. new[k + 1] = new[k] + 4 + Len(reqs[k]) /\ new[k + 1] <= Len(left)
    <3> DEFINE l == Len(reqs[k])
               s == start[k]
               t == start[k + 1]
               b == Len(bytes)
               n == new[k]
               m == new[k + 1]
    <3>1. /\ l \in Nat /\ s \in Int /\ t \in Int /\ t = s + 4 + l /\ t <= b
          /\ b \in Nat /\ c \in Nat /\ n = s - c /\ m = t - c
      BY <1>1, <1>2, <2>2, <2>3, <2>4
    <3>2. Len(left) = b - c
      OBVIOUS
    <3> HIDE DEF l, s, t, b, n, m
    <3>3. m = n + 4 + l /\ m <= b - c
      BY <3>1
    <3> QED
      BY <3>2, <3>3 DEF l, n, m
  <2> QED
    BY <2>6, <2>7
<1>6. Laid(new, left, reqs, from)
  BY <1>4, <1>5 DEF Laid
<1> QED
  BY <1>1, <1>3, <1>6

\* When d bytes of the first request are read, the next bytes are those behind them.
LEMMA LaidFirst ==
  ASSUME NEW start \in Starts, NEW bytes \in Seq(Byte), NEW reqs \in Seq(Requests),
         NEW from \in 1 .. Len(reqs) + 1, Laid(start, bytes, reqs, from),
         NEW d \in Nat, start[from] = 0 - d
  PROVE  /\ bytes # <<>> \/ d # 0 => from <= Len(reqs)
         /\ from <= Len(reqs) => \A p \in 1 .. 4 + Len(reqs[from]) - d :
                                   bytes[p] = Frame(reqs[from])[d + p]
<1>1. Len(reqs) \in Nat /\ Len(bytes) \in Nat /\ (bytes # <<>> => Len(bytes) # 0)
  BY LenProperties, EmptySeq
<1>2. ASSUME from = Len(reqs) + 1 PROVE bytes = <<>> /\ d = 0
  <2>1. Len(bytes) = 0 - d
    BY <1>2 DEF Laid
  <2> QED
    BY <1>1, <2>1
<1>3. ASSUME from <= Len(reqs), NEW p \in 1 .. 4 + Len(reqs[from]) - d
      PROVE  bytes[p] = Frame(reqs[from])[d + p]
  <2>1. from \in 1 .. Len(reqs) /\ from \in from .. Len(reqs) /\ Len(reqs[from]) \in Nat
    BY <1>1, <1>3, ElementOfSeq, FrameProperties
  <2>2. d + p \in 1 .. 4 + Len(reqs[from]) /\ start[from] + (d + p) = p /\ p >= 1
    BY <1>3, <2>1
  <2>3. start[from] + (d + p) >= 1 => bytes[start[from] + (d + p)] = Frame(reqs[from])[d + p]
    BY <2>1, <2>2 DEF Laid
  <2> QED
    BY <2>2, <2>3
<1> QED
  BY <1>1, <1>2, <1>3

(***************************************************************************)
(* The types.                                                              *)
(***************************************************************************)

\* How many bytes of the length have been received, and when no text has.
LengthInv ==
  /\ phase = "length" => toRead = 4 - Len(header) /\ rawRequest = <<>>
  /\ phase = "text" => Len(header) = 4

TypeInv == TypeOK /\ LengthInv

\* What recv() appends keeps its types.
LEMMA AppendChunk ==
  ASSUME arriving \in Seq(Byte), NEW n \in Int, NEW chunk \in Chunk(n), Taken(chunk),
         NEW s \in Seq(Byte)
  PROVE  /\ arriving' \in Seq(Byte) /\ s \o chunk \in Seq(Byte)
         /\ Len(s \o chunk) = Len(s) + Len(chunk)
         /\ Len(chunk) \in Nat \ {0} /\ Len(chunk) <= n
         /\ \A p \in 1 .. Len(s) : (s \o chunk)[p] = s[p]
         /\ \A p \in 1 .. Len(chunk) : (s \o chunk)[Len(s) + p] = chunk[p]
<1>1. PICK c \in 1 .. Len(arriving) :
        c <= n /\ chunk \in Seq(Byte) /\ Len(chunk) = c /\ arriving' \in Seq(Byte)
  BY ChunkOf
<1>2. Len(arriving) \in Nat /\ Len(s) \in Nat
  BY LenProperties
<1>3. /\ s \o chunk \in Seq(Byte) /\ Len(s \o chunk) = Len(s) + Len(chunk)
      /\ \A p \in 1 .. Len(s) + Len(chunk) :
           (s \o chunk)[p] = IF p <= Len(s) THEN s[p] ELSE chunk[p - Len(s)]
  BY <1>1, ConcatProperties
<1>4. c \in Nat \ {0}
  BY <1>2
<1> QED
  BY <1>1, <1>2, <1>3, <1>4

\* Multiplication of integers, for terms that are products themselves.
LEMMA ProductIsInt == \A a \in Int, b \in Int : a * b \in Int
OBVIOUS

\* Bytes are integers.
LEMMA ByteIsInt == \A b \in Byte : b \in Int
BY BaseAssumption DEF Byte

\* Every step keeps the types and the count of the bytes of the length.
LEMMA TypesKept == TypeInv /\ [Next]_vars => TypeInv'
<1> SUFFICES ASSUME TypeInv, [Next]_vars PROVE TypeInv'
  OBVIOUS
<1> USE DEF TypeInv, TypeOK, LengthInv
<1>1. CASE UNCHANGED vars
  BY <1>1 DEF vars
<1>2. ASSUME NEW r \in Requests, Send(r) PROVE TypeInv'
  <2>1. arriving' \in Seq(Byte)
    BY <1>2, SentIsFrame DEF Send
  <2>2. requests' \in Seq(Requests)
    BY <1>2, AppendProperties DEF Send
  <2> QED
    BY <1>2, <2>1, <2>2 DEF Send
<1>3. CASE Close
  BY <1>3 DEF Close
<1>4. CASE ReadLength
  <2>1. PICK chunk \in Chunk(toRead) :
          Taken(chunk) /\ header' = header \o chunk /\ toRead' = toRead - Len(chunk)
    BY <1>4 DEF ReadLength
  <2>2. /\ arriving' \in Seq(Byte) /\ header' \in Seq(Byte)
        /\ Len(header') = Len(header) + Len(chunk) /\ Len(chunk) \in Nat /\ Len(chunk) <= toRead
    BY <2>1, AppendChunk
  <2>3. Len(header) \in Nat /\ toRead = 4 - Len(header)
    BY <1>4, LenProperties DEF ReadLength
  <2>4. Len(header') <= 4 /\ toRead' \in Int /\ toRead' = 4 - Len(header')
    BY <2>1, <2>2, <2>3
  <2> QED
    BY <1>4, <2>2, <2>4 DEF ReadLength
<1>5. CASE GotLength
  <2>1. Len(header) = 4
    BY <1>5, LenProperties DEF GotLength
  <2>2. header[1] \in Int /\ header[2] \in Int /\ header[3] \in Int /\ header[4] \in Int
    <3>1. \A k \in 1 .. 4 : header[k] \in Byte
      BY <2>1, ElementOfSeq
    <3>2. header[1] \in Byte /\ header[2] \in Byte /\ header[3] \in Byte /\ header[4] \in Byte
      BY <3>1
    <3> QED
      BY <3>2, ByteIsInt
  <2>3. Base * Base * Base \in Int /\ Base * Base \in Int /\ Range32 \in Int
    BY BaseAssumption DEF Range32
  <2>4. ReadBig(header) \in Int
    <3> DEFINE cube == Base * Base * Base
               square == Base * Base
    <3>1. Base \in Int /\ cube \in Int /\ square \in Int
      BY <2>3, BaseAssumption
    <3>2. ReadBig(header) = header[1] * cube + header[2] * square + header[3] * Base + header[4]
      BY DEF ReadBig
    <3> HIDE DEF cube, square
    <3>3. header[1] * cube \in Int /\ header[2] * square \in Int /\ header[3] * Base \in Int
      BY <2>2, <3>1, ProductIsInt, Zenon
    <3> DEFINE w == header[1] * cube
               x == header[2] * square
               y == header[3] * Base
               z == header[4]
    <3>4. w \in Int /\ x \in Int /\ y \in Int /\ z \in Int
      BY <2>2, <3>3
    <3>5. ReadBig(header) = w + x + y + z
      BY <3>2
    <3> HIDE DEF w, x, y, z
    <3> QED
      BY <3>4, <3>5
  <2>5. toRead' \in Int
    BY <1>5, <2>3, <2>4 DEF GotLength, ToInt
  <2> QED
    BY <1>5, <2>1, <2>5 DEF GotLength
<1>6. CASE ReadText
  <2>1. PICK chunk \in Chunk(Min({toRead, BufferSize})) :
          Taken(chunk) /\ rawRequest' = rawRequest \o chunk /\ toRead' = toRead - Len(chunk)
    BY <1>6 DEF ReadText
  <2>2. Min({toRead, BufferSize}) \in Int
    <3>1. toRead \in Int /\ BufferSize \in Int
      BY FramingAssumption
    <3>2. Min({toRead, BufferSize}) \in {toRead, BufferSize}
      BY <3>1, MinOfTwo, Zenon
    <3> QED
      BY <3>1, <3>2
  <2>3. arriving' \in Seq(Byte) /\ rawRequest' \in Seq(Byte) /\ Len(chunk) \in Nat
    BY <2>1, <2>2, AppendChunk
  <2>4. toRead' \in Int
    BY <2>1, <2>3
  <2> QED
    BY <1>6, <2>3, <2>4 DEF ReadText
<1>7. CASE GotText
  <2>1. received' \in Seq(Seq(Byte))
    BY <1>7, AppendProperties DEF GotText
  <2>2. <<>> \in Seq(Byte) /\ Len(<<>>) = 0
    BY EmptySeq
  <2> QED
    BY <1>7, <2>1, <2>2 DEF GotText
<1>8. CASE ReadEof \/ GiveUp
  BY <1>8 DEF ReadEof, GiveUp
<1> QED
  BY <1>1, <1>2, <1>3, <1>4, <1>5, <1>6, <1>7, <1>8 DEF Next, ReadStep

\* At the start nothing has been sent or read.
LEMMA InitialTypes == Init => TypeInv
<1>1. /\ <<>> \in Seq(Requests) /\ <<>> \in Seq(Byte) /\ <<>> \in Seq(Seq(Byte))
      /\ Len(<<>>) = 0
  BY EmptySeq
<1> SUFFICES ASSUME Init PROVE TypeInv
  OBVIOUS
<1>2. /\ requests = <<>> /\ arriving = <<>> /\ header = <<>> /\ rawRequest = <<>>
      /\ received = <<>> /\ closed = FALSE /\ phase = "length" /\ toRead = 4
  BY DEF Init
<1>3. TypeOK
  <2>1. /\ requests \in Seq(Requests) /\ arriving \in Seq(Byte) /\ header \in Seq(Byte)
        /\ rawRequest \in Seq(Byte) /\ received \in Seq(Seq(Byte))
    BY <1>1, <1>2, Zenon
  <2>2. Len(header) <= 4 /\ toRead \in Int
    BY <1>1, <1>2
  <2> QED
    BY <1>2, <2>1, <2>2 DEF TypeOK
<1>4. Len(header) = 0
  BY <1>1, <1>2
<1>5. LengthInv
  BY <1>2, <1>4 DEF LengthInv
<1> QED
  BY <1>3, <1>5 DEF TypeInv

(***************************************************************************)
(* The requests received.                                                  *)
(***************************************************************************)

\* The request that is being read, if there is one.
Current == requests[Len(received) + 1]

\* What was parsed is what was sent.
ParsedInv ==
  Len(received) <= Len(requests) /\ \A k \in 1 .. Len(received) : received[k] = requests[k]

\* What was received of the request that is being read, and how much is to come.
CurrentInv ==
  /\ \A p \in 1 .. Len(header) : header[p] = Frame(Current)[p]
  /\ \A p \in 1 .. Len(rawRequest) : rawRequest[p] = Current[p]
  /\ phase = "text" => toRead \in Nat /\ toRead = Len(Current) - Len(rawRequest)

\* The rest of it is first of what is on its way, and the requests after it follow.
ArrivingInv ==
  \E start \in Starts :
    /\ start[Len(received) + 1] = 0 - (Len(header) + Len(rawRequest))
    /\ Laid(start, arriving, requests, Len(received) + 1)

StreamInv == AllShort => ParsedInv /\ CurrentInv /\ ArrivingInv

\* The lengths are numbers, and there is a request being read when something has arrived
\* or was received of it.
LEMMA Reading ==
  ASSUME TypeInv, ParsedInv, ArrivingInv
  PROVE  /\ Len(received) \in Nat /\ Len(requests) \in Nat /\ Len(arriving) \in Nat
         /\ Len(header) \in Nat /\ Len(rawRequest) \in Nat
         /\ Len(received) + 1 \in 1 .. Len(requests) + 1
         /\ arriving # <<>> \/ Len(header) # 0 \/ Len(rawRequest) # 0 =>
              /\ Len(received) + 1 \in 1 .. Len(requests)
              /\ Current \in Requests
              /\ \A p \in 1 .. 4 + Len(Current) - (Len(header) + Len(rawRequest)) :
                   arriving[p] = Frame(Current)[Len(header) + Len(rawRequest) + p]
<1> DEFINE d == Len(header) + Len(rawRequest)
           from == Len(received) + 1
<1>1. /\ Len(received) \in Nat /\ Len(requests) \in Nat /\ Len(arriving) \in Nat
      /\ Len(header) \in Nat /\ Len(rawRequest) \in Nat
  BY LenProperties DEF TypeInv, TypeOK
<1>2. from \in 1 .. Len(requests) + 1 /\ d \in Nat
  BY <1>1 DEF ParsedInv
<1>3. PICK start \in Starts : start[from] = 0 - d /\ Laid(start, arriving, requests, from)
  BY DEF ArrivingInv
<1>4. arriving \in Seq(Byte) /\ requests \in Seq(Requests)
  BY DEF TypeInv, TypeOK
<1>5. ASSUME arriving # <<>> \/ Len(header) # 0 \/ Len(rawRequest) # 0
      PROVE  /\ from \in 1 .. Len(requests) /\ Current \in Requests
             /\ \A p \in 1 .. 4 + Len(Current) - d : arriving[p] = Frame(Current)[d + p]
  <2>1. arriving # <<>> \/ d # 0
    BY <1>1, <1>5
  <2> HIDE DEF d
  <2>2. from <= Len(requests)
    BY <1>2, <1>3, <1>4, <2>1, LaidFirst
  <2>3. \A p \in 1 .. 4 + Len(requests[from]) - d :
          arriving[p] = Frame(requests[from])[d + p]
    BY <1>2, <1>3, <1>4, <2>2, LaidFirst
  <2>4. from \in 1 .. Len(requests)
    BY <1>1, <1>2, <2>2
  <2> QED
    BY <1>4, <2>3, <2>4, ElementOfSeq DEF Current
<1> QED
  BY <1>1, <1>2, <1>5

\* A step that neither reads nor writes keeps what is on its way.
LEMMA QuietStep ==
  ASSUME StreamInv, AllShort', CurrentInv /\ AllShort => CurrentInv',
         UNCHANGED <<requests, arriving, header, rawRequest, received>>
  PROVE  ParsedInv' /\ CurrentInv' /\ ArrivingInv'
<1>1. AllShort
  BY DEF AllShort, Short
<1>2. ParsedInv /\ CurrentInv /\ ArrivingInv
  BY <1>1 DEF StreamInv
<1>3. ParsedInv'
  BY <1>2 DEF ParsedInv
<1>4. ArrivingInv'
  BY <1>2 DEF ArrivingInv
<1> QED
  BY <1>1, <1>2, <1>3, <1>4

\* A request that is sent goes behind the others.
LEMMA SendStep ==
  ASSUME TypeInv, StreamInv, NEW r \in Requests, Send(r), AllShort'
  PROVE  ParsedInv' /\ CurrentInv' /\ ArrivingInv'
<1> DEFINE from == Len(received) + 1
<1>1. requests \in Seq(Requests) /\ arriving \in Seq(Byte) /\ Len(requests) \in Nat
  BY LenProperties DEF TypeInv, TypeOK
<1>2. /\ requests' = Append(requests, r) /\ Len(requests') = Len(requests) + 1
      /\ \A k \in 1 .. Len(requests) : requests'[k] = requests[k]
      /\ arriving' = arriving \o WriteBig(Len(r)) \o r
      /\ UNCHANGED <<phase, toRead, header, rawRequest, received>>
  BY <1>1, AppendProperties DEF Send
<1>3. AllShort
  <2>1. \A k \in 1 .. Len(requests) : k \in 1 .. Len(requests')
    BY <1>1, <1>2
  <2>2. DOMAIN requests = 1 .. Len(requests) /\ DOMAIN requests' = 1 .. Len(requests')
    BY <1>1, <1>2, AppendProperties, LenProperties
  <2> QED
    BY <1>2, <2>1, <2>2 DEF AllShort
<1>4. ParsedInv /\ CurrentInv /\ ArrivingInv
  BY <1>3 DEF StreamInv
<1>5. /\ Len(received) \in Nat /\ Len(header) \in Nat /\ Len(rawRequest) \in Nat
      /\ from \in 1 .. Len(requests) + 1
      /\ Len(header) # 0 \/ Len(rawRequest) # 0 => from \in 1 .. Len(requests)
  BY <1>4, Reading
<1>6. ParsedInv'
  BY <1>1, <1>2, <1>4, <1>5 DEF ParsedInv
<1>7. CurrentInv'
  <2>1. CASE Len(header) # 0 \/ Len(rawRequest) # 0
    <3>1. Current' = Current
      BY <1>2, <1>5, <2>1 DEF Current
    <3> QED
      BY <1>2, <1>4, <3>1 DEF CurrentInv
  <2>2. CASE Len(header) = 0 /\ Len(rawRequest) = 0
    BY <1>2, <2>2 DEF CurrentInv, TypeInv, LengthInv
  <2> QED
    BY <2>1, <2>2
<1>8. ArrivingInv'
  <2>1. PICK start \in Starts :
          /\ start[from] = 0 - (Len(header) + Len(rawRequest))
          /\ Laid(start, arriving, requests, from)
    BY <1>4 DEF ArrivingInv
  <2>2. PICK new \in Starts :
          /\ \A k \in 1 .. Len(requests) + 1 : new[k] = start[k]
          /\ Laid(new, arriving', requests', from)
    BY <1>1, <1>2, <1>5, <2>1, LaidSend
  <2>3. new[from] = 0 - (Len(header) + Len(rawRequest))
    BY <1>5, <2>1, <2>2
  <2> QED
    BY <1>2, <2>2, <2>3 DEF ArrivingInv
<1> QED
  BY <1>6, <1>7, <1>8

\* What recv() has returned belongs to the request that is being read.
LEMMA RecvStep ==
  ASSUME TypeInv, ParsedInv, ArrivingInv, UNCHANGED <<requests, received>>,
         NEW n \in Int, NEW chunk \in Chunk(n), Taken(chunk),
         Len(header') + Len(rawRequest') = Len(header) + Len(rawRequest) + Len(chunk)
  PROVE  /\ ParsedInv' /\ ArrivingInv' /\ Current' = Current /\ Current \in Requests
         /\ \A p \in 1 .. Len(chunk) :
              Len(header) + Len(rawRequest) + p <= 4 + Len(Current) =>
                chunk[p] = Frame(Current)[Len(header) + Len(rawRequest) + p]
<1> DEFINE from == Len(received) + 1
           d == Len(header) + Len(rawRequest)
<1>1. requests \in Seq(Requests) /\ arriving \in Seq(Byte) /\ from \in 1 .. Len(requests) + 1
  BY Reading DEF TypeInv, TypeOK
<1>2. PICK c \in 1 .. Len(arriving) :
        /\ c <= n
        /\ chunk \in Seq(Byte) /\ Len(chunk) = c
        /\ \A p \in 1 .. c : chunk[p] = arriving[p]
        /\ arriving' \in Seq(Byte) /\ Len(arriving') = Len(arriving) - c
        /\ \A p \in 1 .. Len(arriving) - c : arriving'[p] = arriving[c + p]
  BY <1>1, ChunkOf
<1>3. Len(arriving) \in Nat /\ Len(header) \in Nat /\ Len(rawRequest) \in Nat
  BY Reading
<1>4. arriving # <<>> /\ c \in Nat
  BY <1>2, <1>3, EmptySeq
<1>5. /\ Current \in Requests /\ from \in 1 .. Len(requests)
      /\ \A p \in 1 .. 4 + Len(Current) - d : arriving[p] = Frame(Current)[d + p]
  BY <1>4, Reading
<1>6. ParsedInv' /\ Current' = Current
  BY DEF ParsedInv, Current
<1>7. ArrivingInv'
  <2>1. PICK start \in Starts : start[from] = 0 - d /\ Laid(start, arriving, requests, from)
    BY DEF ArrivingInv
  <2>2. PICK new \in Starts :
          /\ \A k \in 1 .. Len(requests) + 1 : new[k] = start[k] - c
          /\ Laid(new, arriving', requests, from)
    <3>1. /\ start \in Starts /\ arriving \in Seq(Byte) /\ requests \in Seq(Requests)
          /\ from \in 1 .. Len(requests) + 1 /\ Laid(start, arriving, requests, from)
          /\ c \in 1 .. Len(arriving) /\ arriving' \in Seq(Byte)
          /\ Len(arriving') = Len(arriving) - c
          /\ \A p \in 1 .. Len(arriving) - c : arriving'[p] = arriving[c + p]
      BY <1>1, <1>2, <2>1
    <3> HIDE DEF from
    <3> QED
      BY <3>1, LaidTake, ZenonT(60)
  <2>3. new[from] = 0 - (Len(header') + Len(rawRequest'))
    <3>1. new[from] = (0 - d) - c
      BY <1>1, <2>1, <2>2
    <3>2. d \in Nat /\ Len(header') + Len(rawRequest') = d + c
      BY <1>2, <1>3
    <3> HIDE DEF d
    <3>3. (0 - d) - c = 0 - (d + c)
      BY <1>4, <3>2
    <3> QED
      BY <3>1, <3>2, <3>3
  <2> QED
    BY <2>2, <2>3 DEF ArrivingInv
<1>8. ASSUME NEW p \in 1 .. Len(chunk), d + p <= 4 + Len(Current)
      PROVE  chunk[p] = Frame(Current)[d + p]
  <2> DEFINE l == Len(Current)
  <2>1. p \in 1 .. c /\ l \in Nat /\ d \in Nat
    BY <1>2, <1>3, <1>5, FrameProperties
  <2>2. d + p <= 4 + l
    BY <1>8
  <2> HIDE DEF l, d
  <2>3. p \in 1 .. 4 + l - d
    BY <1>4, <2>1, <2>2
  <2> USE DEF l, d
  <2> QED
    BY <1>2, <1>5, <2>1, <2>3
<1> QED
  BY <1>5, <1>6, <1>7, <1>8

\* A part of the length is received.
LEMMA ReadLengthStep ==
  ASSUME TypeInv, ParsedInv, CurrentInv, ArrivingInv, ReadLength
  PROVE  ParsedInv' /\ CurrentInv' /\ ArrivingInv'
<1>1. PICK chunk \in Chunk(toRead) :
        Taken(chunk) /\ header' = header \o chunk /\ toRead' = toRead - Len(chunk)
  BY DEF ReadLength
<1>2. /\ phase = "length" /\ phase' = "length" /\ rawRequest' = rawRequest
      /\ UNCHANGED <<requests, received>>
  BY DEF ReadLength
<1>3. /\ arriving \in Seq(Byte) /\ header \in Seq(Byte) /\ toRead \in Int
      /\ Len(rawRequest) = 0 /\ toRead = 4 - Len(header)
  BY <1>2, EmptySeq DEF TypeInv, TypeOK, LengthInv
<1>4. /\ Len(header') = Len(header) + Len(chunk) /\ Len(chunk) \in Nat /\ Len(chunk) <= toRead
      /\ \A p \in 1 .. Len(header) : header'[p] = header[p]
      /\ \A p \in 1 .. Len(chunk) : header'[Len(header) + p] = chunk[p]
  BY <1>1, <1>3, AppendChunk
<1>5. Len(header) \in Nat
  BY Reading
<1>6. Len(header') + Len(rawRequest') = Len(header) + Len(rawRequest) + Len(chunk)
  BY <1>2, <1>3, <1>4, <1>5
<1>7. /\ ParsedInv' /\ ArrivingInv' /\ Current' = Current /\ Current \in Requests
      /\ \A p \in 1 .. Len(chunk) :
           Len(header) + Len(rawRequest) + p <= 4 + Len(Current) =>
             chunk[p] = Frame(Current)[Len(header) + Len(rawRequest) + p]
  BY <1>1, <1>2, <1>3, <1>6, RecvStep
<1>8. Len(Current) \in Nat
  BY <1>7, FrameProperties
<1>9. ASSUME NEW p \in 1 .. Len(header') PROVE header'[p] = Frame(Current)[p]
  <2>1. CASE p \in 1 .. Len(header)
    BY <1>4, <2>1 DEF CurrentInv
  <2>2. CASE p \notin 1 .. Len(header)
    <3>1. PICK q \in 1 .. Len(chunk) : p = Len(header) + q
      <4>1. p - Len(header) \in 1 .. Len(chunk) /\ p = Len(header) + (p - Len(header))
        BY <1>4, <1>5, <2>2
      <4> QED
        BY <4>1
    <3>2. Len(header) + Len(rawRequest) + q = p /\ p <= 4 + Len(Current)
      BY <1>3, <1>4, <1>5, <1>8, <3>1
    <3> QED
      BY <1>4, <1>7, <3>1, <3>2
  <2> QED
    BY <2>1, <2>2
<1>10. CurrentInv'
  BY <1>2, <1>3, <1>7, <1>9 DEF CurrentInv
<1> QED
  BY <1>7, <1>10

\* A request has the length that its first four bytes tell.
LEMMA LengthRead ==
  ASSUME NEW r \in Requests, Short(r), NEW h \in Seq(Byte), Len(h) = 4,
         \A p \in 1 .. 4 : h[p] = Frame(r)[p]
  PROVE  ToInt(ReadBig(h)) = Len(r)
<1>1. Len(r) \in UInt32 /\ \A p \in 1 .. 4 : Frame(r)[p] = WriteBig(Len(r))[p]
  BY FrameProperties
<1>2. \A p \in 1 .. 4 : h[p] = WriteBig(Len(r))[p]
  BY <1>1
<1>3. ReadBig(h) = ReadBig(WriteBig(Len(r)))
  <2>1. /\ h[1] = WriteBig(Len(r))[1] /\ h[2] = WriteBig(Len(r))[2]
        /\ h[3] = WriteBig(Len(r))[3] /\ h[4] = WriteBig(Len(r))[4]
    BY <1>2
  <2> QED
    BY <2>1, Zenon DEF ReadBig
<1>4. ReadBig(h) = Len(r)
  BY <1>1, <1>3, RoundTrip
<1> QED
  BY <1>4 DEF ToInt, Short

\* The length is known.
LEMMA GotLengthStep ==
  ASSUME TypeInv, ParsedInv, CurrentInv, ArrivingInv, AllShort, GotLength
  PROVE  CurrentInv'
<1>1. /\ Len(header) = 4 /\ Len(rawRequest) = 0 /\ header \in Seq(Byte)
      /\ toRead' = ToInt(ReadBig(header))
      /\ UNCHANGED <<requests, received, header, rawRequest>>
  BY LenProperties, EmptySeq DEF GotLength, TypeInv, TypeOK, LengthInv
<1>2. Current \in Requests /\ Len(received) + 1 \in 1 .. Len(requests)
  BY <1>1, Reading
<1>3. Short(Current)
  BY <1>2, LenProperties DEF AllShort, Current, TypeInv, TypeOK
<1>4. toRead' = Len(Current) /\ Len(Current) \in Nat
  <2>1. header \in Seq(Byte) /\ \A p \in 1 .. 4 : header[p] = Frame(Current)[p]
    BY <1>1 DEF CurrentInv
  <2>2. ToInt(ReadBig(header)) = Len(Current)
    BY <1>1, <1>2, <1>3, <2>1, LengthRead
  <2> QED
    BY <1>1, <1>2, <2>2, FrameProperties
<1>5. Current' = Current
  BY <1>1 DEF Current
<1>6. \A p \in 1 .. Len(header') : header'[p] = Frame(Current')[p]
  BY <1>1, <1>5 DEF CurrentInv
<1>7. Len(rawRequest') = 0 /\ toRead' \in Nat /\ toRead' = Len(Current') - Len(rawRequest')
  BY <1>1, <1>4, <1>5
<1> QED
  BY <1>6, <1>7 DEF CurrentInv

\* A part of the text is received.
LEMMA ReadTextStep ==
  ASSUME TypeInv, ParsedInv, CurrentInv, ArrivingInv, ReadText
  PROVE  ParsedInv' /\ CurrentInv' /\ ArrivingInv'
<1> DEFINE n == Min({toRead, BufferSize})
<1>1. PICK chunk \in Chunk(n) :
        Taken(chunk) /\ rawRequest' = rawRequest \o chunk /\ toRead' = toRead - Len(chunk)
  BY DEF ReadText
<1>2. phase = "text" /\ phase' = "text" /\ UNCHANGED <<header, requests, received>>
  BY DEF ReadText
<1>3. /\ arriving \in Seq(Byte) /\ rawRequest \in Seq(Byte)
      /\ Len(header) = 4 /\ toRead \in Nat /\ toRead = Len(Current) - Len(rawRequest)
  BY <1>2 DEF TypeInv, TypeOK, LengthInv, CurrentInv
<1>4. n \in Int /\ n <= toRead
  <2>1. toRead \in Int /\ BufferSize \in Int
    BY <1>3, FramingAssumption
  <2>2. Min({toRead, BufferSize}) \in {toRead, BufferSize} /\ Min({toRead, BufferSize}) <= toRead
    BY <2>1, MinOfTwo, Zenon
  <2> QED
    BY <2>1, <2>2
<1> HIDE DEF n
<1>5. /\ Len(rawRequest') = Len(rawRequest) + Len(chunk) /\ Len(chunk) \in Nat /\ Len(chunk) <= n
      /\ \A p \in 1 .. Len(rawRequest) : rawRequest'[p] = rawRequest[p]
      /\ \A p \in 1 .. Len(chunk) : rawRequest'[Len(rawRequest) + p] = chunk[p]
  BY <1>1, <1>3, <1>4, AppendChunk
<1>6. Len(rawRequest) \in Nat
  BY Reading
<1>7. Len(header') + Len(rawRequest') = Len(header) + Len(rawRequest) + Len(chunk)
  BY <1>2, <1>3, <1>5, <1>6
<1>8. /\ ParsedInv' /\ ArrivingInv' /\ Current' = Current /\ Current \in Requests
      /\ \A p \in 1 .. Len(chunk) :
           Len(header) + Len(rawRequest) + p <= 4 + Len(Current) =>
             chunk[p] = Frame(Current)[Len(header) + Len(rawRequest) + p]
  BY <1>1, <1>2, <1>4, <1>7, RecvStep
<1>9. Len(Current) \in Nat /\ \A p \in 1 .. Len(Current) : Frame(Current)[4 + p] = Current[p]
  BY <1>8, FrameProperties
<1>10. ASSUME NEW p \in 1 .. Len(rawRequest') PROVE rawRequest'[p] = Current[p]
  <2>1. CASE p \in 1 .. Len(rawRequest)
    BY <1>5, <2>1 DEF CurrentInv
  <2>2. CASE p \notin 1 .. Len(rawRequest)
    <3> DEFINE raw == Len(rawRequest)
               all == Len(Current)
               c == Len(chunk)
    <3>1. /\ raw \in Nat /\ all \in Nat /\ c \in Nat /\ toRead \in Nat
          /\ toRead = all - raw /\ c <= n /\ n <= toRead /\ n \in Int
          /\ p \in 1 .. raw + c /\ p \notin 1 .. raw
      BY <1>3, <1>4, <1>5, <1>6, <1>9, <2>2
    <3> HIDE DEF raw, all, c
    <3>2. p - raw \in 1 .. c /\ 4 + raw + (p - raw) = 4 + p /\ p \in 1 .. all
          /\ raw + (p - raw) = p /\ 4 + p <= 4 + all
      BY <3>1
    <3> USE DEF raw, all, c
    <3>3. chunk[p - raw] = Frame(Current)[4 + raw + (p - raw)]
      BY <1>3, <1>8, <3>2
    <3> QED
      BY <1>5, <1>9, <3>2, <3>3
  <2> QED
    BY <2>1, <2>2
<1>11. toRead' \in Nat /\ toRead' = Len(Current) - Len(rawRequest')
  BY <1>1, <1>3, <1>4, <1>5, <1>6, <1>9
<1>12. CurrentInv'
  BY <1>2, <1>3, <1>8, <1>10, <1>11 DEF CurrentInv
<1> QED
  BY <1>8, <1>12

\* The text is complete and goes to the parser.
LEMMA GotTextStep ==
  ASSUME TypeInv, ParsedInv, CurrentInv, ArrivingInv, GotText
  PROVE  ParsedInv' /\ CurrentInv' /\ ArrivingInv'
<1> DEFINE from == Len(received) + 1
<1>1. /\ phase = "text" /\ toRead <= 0 /\ phase' = "length"
      /\ header' = <<>> /\ rawRequest' = <<>> /\ received' = Append(received, rawRequest)
      /\ UNCHANGED <<requests, arriving>>
  BY DEF GotText
<1>2. /\ Len(header) = 4 /\ toRead \in Nat /\ toRead = Len(Current) - Len(rawRequest)
      /\ rawRequest \in Seq(Byte) /\ received \in Seq(Seq(Byte)) /\ requests \in Seq(Requests)
  BY <1>1 DEF TypeInv, TypeOK, LengthInv, CurrentInv
<1>3. /\ Len(received) \in Nat /\ Len(requests) \in Nat /\ Len(rawRequest) \in Nat
      /\ from \in 1 .. Len(requests) /\ Current \in Requests
  BY <1>2, Reading
<1>4. Current \in Seq(Byte) /\ Len(Current) \in Nat
  BY <1>3, FrameProperties
<1>5. Len(rawRequest) = Len(Current)
  BY <1>1, <1>2, <1>3, <1>4
<1>6. rawRequest = Current
  BY <1>2, <1>4, <1>5, SeqEqual DEF CurrentInv
<1>7. /\ Len(received') = from /\ received'[from] = rawRequest
      /\ \A k \in 1 .. Len(received) : received'[k] = received[k]
  BY <1>1, <1>2, AppendProperties
<1>8. ParsedInv'
  <2>1. ASSUME NEW k \in 1 .. Len(received') PROVE received'[k] = requests[k]
    <3>1. k = from \/ k \in 1 .. Len(received)
      BY <1>3, <1>7
    <3> QED
      BY <1>6, <1>7, <3>1 DEF ParsedInv, Current
  <2> QED
    BY <1>1, <1>3, <1>7, <2>1 DEF ParsedInv
<1>9. Len(header') = 0 /\ Len(rawRequest') = 0
  BY <1>1, EmptySeq
<1>10. CurrentInv'
  BY <1>1, <1>9 DEF CurrentInv
<1>11. ArrivingInv'
  <2>1. PICK start \in Starts :
          /\ start[from] = 0 - (Len(header) + Len(rawRequest))
          /\ Laid(start, arriving, requests, from)
    BY DEF ArrivingInv
  <2>2. start[from + 1] = start[from] + 4 + Len(Current)
    <3>1. \A k \in from .. Len(requests) : start[k + 1] = start[k] + 4 + Len(requests[k])
      BY <2>1 DEF Laid
    <3>2. from \in from .. Len(requests) /\ Current = requests[from]
      BY <1>3 DEF Current
    <3> HIDE DEF from
    <3> QED
      BY <3>1, <3>2
  <2>3. start[from + 1] = 0
    <3> DEFINE l == Len(Current)
    <3>1. start[from] = 0 - (4 + l) /\ l \in Nat
      BY <1>2, <1>4, <1>5, <2>1
    <3>2. start[from + 1] = start[from] + 4 + l
      BY <2>2
    <3> HIDE DEF l, from
    <3> QED
      BY <3>1, <3>2
  <2>4. start[Len(received') + 1] = 0 - (Len(header') + Len(rawRequest'))
    <3>1. Len(received') = from
      BY <1>7
    <3>2. 0 - (Len(header') + Len(rawRequest')) = 0
      <4> DEFINE h == Len(header')
                 t == Len(rawRequest')
      <4>1. h = 0 /\ t = 0
        BY <1>9
      <4> HIDE DEF h, t
      <4>2. 0 - (h + t) = 0
        BY <4>1
      <4> QED
        BY <4>2 DEF h, t
    <3> HIDE DEF from
    <3> QED
      BY <2>3, <3>1, <3>2
  <2>5. Laid(start, arriving, requests, from + 1)
    <3>1. \A k \in from + 1 .. Len(requests) : k \in from .. Len(requests)
      BY <1>3
    <3> HIDE DEF from
    <3> QED
      BY <2>1, <3>1 DEF Laid
  <2> QED
    BY <1>1, <1>7, <2>4, <2>5 DEF ArrivingInv
<1> QED
  BY <1>8, <1>10, <1>11

\* Every step keeps the invariant.
LEMMA StreamKept == TypeInv /\ StreamInv /\ [Next]_vars => StreamInv'
<1> SUFFICES ASSUME TypeInv, StreamInv, [Next]_vars, AllShort'
             PROVE  ParsedInv' /\ CurrentInv' /\ ArrivingInv'
  BY DEF StreamInv
<1>1. ASSUME UNCHANGED <<requests, received, arriving, header, rawRequest>>,
             CurrentInv /\ AllShort => CurrentInv'
      PROVE  ParsedInv' /\ CurrentInv' /\ ArrivingInv'
  BY <1>1, QuietStep
<1>2. ASSUME UNCHANGED requests PROVE AllShort /\ ParsedInv /\ CurrentInv /\ ArrivingInv
  <2>1. AllShort
    BY <1>2 DEF AllShort, Short
  <2> QED
    BY <2>1 DEF StreamInv
<1>3. CASE UNCHANGED vars \/ Close \/ ReadEof \/ GiveUp
  <2>1. /\ UNCHANGED <<requests, received, arriving, header, rawRequest, toRead>>
        /\ phase' = "text" => phase = "text"
    BY <1>3 DEF vars, Close, ReadEof, GiveUp
  <2>2. CurrentInv => CurrentInv'
    BY <2>1 DEF CurrentInv, Current
  <2> QED
    BY <1>1, <2>1, <2>2
<1>4. ASSUME NEW r \in Requests, Send(r) PROVE ParsedInv' /\ CurrentInv' /\ ArrivingInv'
  BY <1>4, SendStep
<1>5. CASE ReadLength
  BY <1>2, <1>5, ReadLengthStep DEF ReadLength
<1>6. CASE GotLength
  <2>1. UNCHANGED <<requests, received, arriving, header, rawRequest>>
    BY <1>6 DEF GotLength
  <2>2. CurrentInv'
    BY <1>2, <1>6, <2>1, GotLengthStep
  <2> QED
    BY <1>1, <2>1, <2>2
<1>7. CASE ReadText
  BY <1>2, <1>7, ReadTextStep DEF ReadText
<1>8. CASE GotText
  BY <1>2, <1>8, GotTextStep DEF GotText
<1> QED
  BY <1>3, <1>4, <1>5, <1>6, <1>7, <1>8 DEF Next, ReadStep

\* Nothing has been sent.
LEMMA InitialStream == Init => StreamInv
<1> SUFFICES ASSUME Init PROVE ParsedInv /\ CurrentInv /\ ArrivingInv
  BY DEF StreamInv
<1>1. /\ requests = <<>> /\ arriving = <<>> /\ header = <<>> /\ rawRequest = <<>>
      /\ received = <<>> /\ phase = "length" /\ Len(<<>>) = 0
  BY EmptySeq DEF Init
<1>2. /\ Len(requests) = 0 /\ Len(arriving) = 0 /\ Len(header) = 0 /\ Len(rawRequest) = 0
      /\ Len(received) = 0
  BY <1>1
<1>3. ParsedInv
  BY <1>2 DEF ParsedInv
<1>4. CurrentInv
  BY <1>1, <1>2 DEF CurrentInv
<1>5. ArrivingInv
  <2> DEFINE start == [k \in Nat |-> 0]
  <2>1. start \in Starts /\ start[1] = 0
    BY DEF Starts
  <2> HIDE DEF start
  <2>2. Laid(start, arriving, requests, 1)
    BY <1>2, <2>1 DEF Laid
  <2>3. start[Len(received) + 1] = 0 - (Len(header) + Len(rawRequest)) /\ Len(received) + 1 = 1
    BY <1>2, <2>1
  <2> QED
    BY <2>1, <2>2, <2>3 DEF ArrivingInv
<1> QED
  BY <1>3, <1>4, <1>5

(***************************************************************************)
(* The theorems.                                                           *)
(***************************************************************************)

\* server::read keeps the types of its locals: never more than four bytes are taken
\* for a length.
THEOREM TypeCorrect == Spec => []TypeOK
<1>1. TypeInv => TypeOK
  BY DEF TypeInv
<1> QED
  BY InitialTypes, TypesKept, <1>1, PTL DEF Spec

\* The texts that server::read passes to the parser are the requests that Waterproof has
\* sent, whole and in order, for every size of the buffer and however recv() cuts the
\* stream, while all of them are shorter than half the range of a uint32_t.
THEOREM RequestsAreReceived == Spec => []ReceivesRequests
<1>1. TypeInv /\ StreamInv => ReceivesRequests
  <2> SUFFICES ASSUME TypeInv, AllShort, ParsedInv PROVE IsPrefix(received, requests)
    BY DEF StreamInv, ReceivesRequests
  <2> DEFINE n == Len(received)
  <2>1. /\ n \in Nat /\ Len(requests) \in Nat /\ n <= Len(requests)
        /\ \A k \in 1 .. n : received[k] = requests[k]
    BY LenProperties DEF TypeInv, TypeOK, ParsedInv
  <2>2. received \in Seq(Seq(Byte)) /\ \A k \in 1 .. n : received[k] \in Seq(Byte)
    BY ElementOfSeq DEF TypeInv, TypeOK
  <2>3. \A k \in 1 .. n : requests[k] \in Seq(Byte)
    BY <2>1, <2>2
  <2> HIDE DEF n
  <2>4. /\ SubSeq(received, 1, n) \in Seq(Seq(Byte)) /\ Len(SubSeq(received, 1, n)) = n
        /\ \A k \in 1 .. n : SubSeq(received, 1, n)[k] = received[k]
    <3>1. /\ SubSeq(received, 1, n) \in Seq(Seq(Byte))
          /\ Len(SubSeq(received, 1, n)) = IF 1 <= n THEN n - 1 + 1 ELSE 0
          /\ \A k \in 1 .. n - 1 + 1 : SubSeq(received, 1, n)[k] = received[1 + k - 1]
      BY <2>1, <2>2, SubSeqProperties
    <3> QED
      BY <2>1, <3>1
  <2>5. /\ SubSeq(requests, 1, n) \in Seq(Seq(Byte)) /\ Len(SubSeq(requests, 1, n)) = n
        /\ \A k \in 1 .. n : SubSeq(requests, 1, n)[k] = requests[k]
    <3>1. /\ SubSeq(requests, 1, n) \in Seq(Seq(Byte))
          /\ Len(SubSeq(requests, 1, n)) = IF 1 <= n THEN n - 1 + 1 ELSE 0
          /\ \A k \in 1 .. n - 1 + 1 : SubSeq(requests, 1, n)[k] = requests[1 + k - 1]
      BY <2>1, <2>3, SubSeqProperties
    <3> QED
      BY <2>1, <3>1
  <2>6. SubSeq(received, 1, n) = SubSeq(requests, 1, n)
    BY <2>1, <2>4, <2>5, SeqEqual
  <2> QED
    BY <2>1, <2>6 DEF IsPrefix, n
<1> QED
  BY InitialTypes, TypesKept, InitialStream, StreamKept, <1>1, PTL DEF Spec
=============================================================================
