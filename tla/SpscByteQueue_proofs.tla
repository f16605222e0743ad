-------------------------- MODULE SpscByteQueue_proofs --------------------------
(***************************************************************************)
(* The ring implements a queue of whole records, for every capacity and    *)
(* every set of records.                                                   *)
(***************************************************************************)
EXTENDS SpscByteQueue, SequenceTheorems, TLAPS

\* The offset n bytes after a.
Plus(a, n) == IF a + n >= Capacity THEN a + n - Capacity ELSE a + n

Size(k) == HEADER + Len(queue[k])
\* How far behind r the k-th record begins.
Off(k) == Dist(r, starts[k])

\* The records lie one behind the other from r to w, without a gap.
Layout ==
    /\ Len(starts) = Len(queue)
    /\ queue = <<>> => w = r
    /\ queue # <<>> => Off(1) = 0 /\ Off(Len(queue)) + Size(Len(queue)) = Dist(r, w)
    /\ \A k \in 1 .. Len(queue) : Off(k) + Size(k) <= Dist(r, w)
    /\ \A k \in 1 .. Len(queue) - 1 : Off(k + 1) = Off(k) + Size(k)
    /\ \A j, k \in 1 .. Len(queue) : j < k => Off(j) + Size(j) <= Off(k)

\* Each of them is there, byte for byte.
Stored ==
    \A k \in 1 .. Len(queue) : \A i \in 0 .. Size(k) - 1 :
        buf[Plus(starts[k], i)] = Encoded(queue[k])[i + 1]

\* What push() has written so far lies behind w, and the rest will fit.
Pushing ==
    pushing # <<>> =>
        /\ Dist(r, w) + HEADER + Len(pushing) <= Capacity - 1
        /\ put <= HEADER + Len(pushing) /\ wp = Plus(w, put)
        /\ \A i \in 0 .. put - 1 : buf[Plus(w, i)] = Encoded(pushing)[i + 1]

\* What pop() has read so far is the beginning of the first record.
Popping ==
    popping =>
        /\ queue # <<>>
        /\ Len(got) <= Size(1) /\ rp = Plus(r, Len(got))
        /\ \A i \in 1 .. Len(got) : got[i] = Encoded(queue[1])[i]

RingInv == TypeOK /\ Layout /\ Stored /\ Pushing /\ Popping

-----------------------------------------------------------------------------
(* Offsets around the ring: what put(), get() and the used-bytes expression *)
(* of push() compute.                                                       *)

\* The used-bytes expression of push() counts less than the capacity.
LEMMA OffsetsTyped ==
    \A a, b \in Index : Dist(a, b) \in Nat /\ Dist(a, b) < Capacity /\ Dist(a, a) = 0
  BY RingAssumption DEF Index, Dist

\* Going on n bytes from b puts n bytes more between a and where one is.
LEMMA DistPlus ==
    \A a, b \in Index, n \in Nat : Dist(a, b) + n < Capacity =>
        Plus(b, n) \in Index /\ Dist(a, Plus(b, n)) = Dist(a, b) + n
  BY RingAssumption DEF Index, Dist, Plus

\* Two offsets at the same distance from a are one.
LEMMA DistInjective == \A a, b, c \in Index : Dist(a, b) = Dist(a, c) => b = c
  BY RingAssumption DEF Index, Dist

\* put() and get() go on one byte, over the physical end too.
LEMMA StepPlus ==
    \A a \in Index, n \in Nat : n < Capacity =>
        Plus(a, n) \in Index /\ Step(Plus(a, n)) = Plus(a, n + 1) /\ Plus(a, 0) = a
  BY RingAssumption DEF Index, Plus, Step

\* Releasing n bytes brings everything behind them n bytes closer.
LEMMA DistShift ==
    \A a, b \in Index, n \in Nat : n <= Dist(a, b) =>
        Plus(a, n) \in Index /\ Dist(Plus(a, n), b) = Dist(a, b) - n
  BY RingAssumption DEF Index, Dist, Plus

-----------------------------------------------------------------------------
(* A record as push() lays it out.                                          *)

\* A length is put together again from the two bytes push() splits it into.
LEMMA DivMod ==
    \A n \in Nat : /\ n % Base \in Byte /\ n \div Base \in Nat
                  /\ (n % Base) + Base * (n \div Base) = n
  BY RingAssumption DEF Byte

\* The header is the record's length, the rest its bytes.
LEMMA EncodedShape ==
    ASSUME NEW rec \in Records
    PROVE  /\ Encoded(rec) \in Seq(Byte) /\ Len(rec) \in Nat /\ Len(rec) > 0
           /\ Len(Encoded(rec)) = HEADER + Len(rec)
           /\ Encoded(rec)[1] + Base * Encoded(rec)[2] = Len(rec)
           /\ \A i \in 1 .. Len(rec) : Encoded(rec)[HEADER + i] = rec[i]
<1> DEFINE n == Len(rec)
           h == <<n % Base, n \div Base>>
<1> HIDE DEF n
<1>0. rec \in Seq(Byte) /\ rec # <<>> /\ n \div Base < Base
  BY RecordsAssumption DEF n
<1>1. n \in Nat /\ n > 0
  BY <1>0 DEF n
<1>2. n % Base \in Byte /\ n \div Base \in Byte /\ (n % Base) + Base * (n \div Base) = n
  <2>1. n % Base \in Byte /\ n \div Base \in Nat /\ (n % Base) + Base * (n \div Base) = n
    BY <1>1, DivMod
  <2>2. \A m \in Nat : m < Base => m \in Byte
    BY RingAssumption DEF Byte
  <2> QED
    BY <1>0, <2>1, <2>2
<1>3. h \in Seq(Byte) /\ Len(h) = 2 /\ h[1] = n % Base /\ h[2] = n \div Base
  BY <1>2
<1> HIDE DEF h
<1>4. /\ h \o rec \in Seq(Byte) /\ Len(h \o rec) = 2 + Len(rec)
      /\ (h \o rec)[1] = h[1] /\ (h \o rec)[2] = h[2]
      /\ \A i \in 1 .. Len(rec) : (h \o rec)[2 + i] = rec[i]
  <2>1. /\ h \o rec \in Seq(Byte) /\ Len(h \o rec) = Len(h) + Len(rec)
        /\ \A i \in 1 .. Len(h) + Len(rec) :
               (h \o rec)[i] = IF i <= Len(h) THEN h[i] ELSE rec[i - Len(h)]
    BY <1>0, <1>3, ConcatProperties
  <2>2. \A i \in 1 .. Len(rec) : 2 + i \in 1 .. 2 + Len(rec) /\ ~(2 + i <= 2) /\ 2 + i - 2 = i
    BY <1>1 DEF n
  <2>3. 1 \in 1 .. 2 + Len(rec) /\ 2 \in 1 .. 2 + Len(rec)
    BY <1>1 DEF n
  <2> QED
    BY <1>3, <2>1, <2>2, <2>3
<1>5. Encoded(rec) = h \o rec
  BY DEF Encoded, h, n
<1> QED
  BY <1>0, <1>1, <1>2, <1>3, <1>4, <1>5 DEF HEADER, n

-----------------------------------------------------------------------------
(* The invariant holds initially and every step keeps it.                   *)

\* Appending keeps what a sequence held (PushPublish, GetByte).
LEMMA Pushed ==
    ASSUME NEW S, NEW s \in Seq(S), NEW x \in S
    PROVE  /\ Append(s, x) \in Seq(S) /\ Len(s) \in Nat /\ Len(Append(s, x)) = Len(s) + 1
           /\ Append(s, x)[Len(s) + 1] = x /\ Append(s, x) # <<>>
           /\ \A i \in 1 .. Len(s) : Append(s, x)[i] = s[i]
  OBVIOUS

\* Dropping the first entry moves the others up (PopPublish).
LEMMA Shifted ==
    ASSUME NEW S, NEW s \in Seq(S), s # <<>>
    PROVE  /\ Tail(s) \in Seq(S) /\ Len(s) \in Nat /\ Len(s) >= 1
           /\ Len(Tail(s)) = Len(s) - 1 /\ Head(s) = s[1] /\ s[1] \in S
           /\ \A i \in 1 .. Len(s) - 1 : Tail(s)[i] = s[i + 1]
  OBVIOUS

\* The records of the ring, their sizes and places, in the terms of the lemmas.
LEMMA Places ==
    ASSUME TypeOK, Layout, NEW k \in 1 .. Len(queue)
    PROVE  /\ queue[k] \in Records /\ starts[k] \in Index /\ Len(queue) \in Nat
           /\ Len(queue[k]) \in Nat /\ Size(k) \in Nat /\ Size(k) > HEADER
           /\ Off(k) \in Nat /\ Off(k) < Capacity
<1>1. queue[k] \in Records /\ starts[k] \in Index /\ Len(queue) \in Nat
  BY DEF TypeOK, Layout
<1>2. Len(queue[k]) \in Nat /\ Len(queue[k]) > 0
  BY <1>1, EncodedShape
<1>3. Off(k) \in Nat /\ Off(k) < Capacity
  BY <1>1, OffsetsTyped DEF TypeOK, Off
<1> QED
  BY <1>1, <1>2, <1>3 DEF Size, HEADER

\* The empty ring of the constructor.
LEMMA InitRing == Init => RingInv
<1> SUFFICES ASSUME Init PROVE RingInv
  OBVIOUS
<1>1. 0 \in Index /\ 0 \in Byte
  BY RingAssumption DEF Index, Byte, HEADER
<1>2. TypeOK
  BY <1>1, RingAssumption DEF Init, TypeOK
<1>3. Len(<<>>) = 0
  OBVIOUS
<1> QED
  BY <1>2, <1>3 DEF Init, RingInv, Layout, Stored, Pushing, Popping

\* push() finding room.
LEMMA PushStartRing == RingInv /\ PushStart => RingInv'
<1> SUFFICES ASSUME RingInv, PushStart PROVE RingInv'
  OBVIOUS
<1>1. PICK rec \in Records : HEADER + Len(rec) <= Free /\ pushing' = rec
  BY DEF PushStart
<1>2. /\ put' = 0 /\ wp' = w
      /\ UNCHANGED <<buf, w, r, popping, got, rp, taken, queue, starts>>
  BY DEF PushStart, consumerVars
<1>3. TypeOK'
  BY <1>1, <1>2, RingAssumption DEF RingInv, TypeOK
<1>4. Layout' /\ Stored' /\ Popping'
  BY <1>2 DEF RingInv, Layout, Stored, Popping, Off, Size
<1>5. Pushing'
  <2>1. Len(rec) \in Nat /\ w \in Index /\ r \in Index
    BY EncodedShape DEF RingInv, TypeOK
  <2>2. Dist(r, w) \in Nat /\ Dist(r, w) + HEADER + Len(rec) <= Capacity - 1
    BY <1>1, <2>1, OffsetsTyped, RingAssumption DEF Free, HEADER
  <2>3. wp' = Plus(w', put')
    BY <1>2, <2>1, StepPlus, RingAssumption DEF HEADER
  <2>4. put' <= HEADER + Len(pushing') /\ 0 .. put' - 1 = {}
    BY <1>1, <1>2, <2>1 DEF HEADER
  <2> QED
    BY <1>1, <1>2, <2>2, <2>3, <2>4 DEF Pushing
<1> QED
  BY <1>3, <1>4, <1>5 DEF RingInv

\* put(): the byte written lies behind every record in the ring and behind what
\* was written of this one.
LEMMA PutByteRing == RingInv /\ PutByte => RingInv'
<1> SUFFICES ASSUME RingInv, PutByte PROVE RingInv'
  OBVIOUS
<1> DEFINE e == Encoded(pushing)
           u == Dist(r, w)
<1>1. /\ pushing # <<>> /\ put < HEADER + Len(pushing)
      /\ buf' = [buf EXCEPT ![wp] = e[put + 1]]
      /\ put' = put + 1 /\ wp' = Step(wp)
      /\ UNCHANGED <<w, r, pushing, popping, got, rp, taken, queue, starts>>
  BY DEF PutByte, consumerVars
<1>2. /\ buf \in [Index -> Byte] /\ w \in Index /\ r \in Index /\ wp \in Index
      /\ pushing \in Records /\ put \in Nat
  BY <1>1 DEF RingInv, TypeOK
<1>3. /\ e \in Seq(Byte) /\ Len(pushing) \in Nat /\ Len(e) = HEADER + Len(pushing)
  BY <1>2, EncodedShape
<1>4. /\ u \in Nat /\ u + HEADER + Len(pushing) <= Capacity - 1
      /\ wp = Plus(w, put)
      /\ \A i \in 0 .. put - 1 : buf[Plus(w, i)] = e[i + 1]
  BY <1>1, <1>2, OffsetsTyped DEF RingInv, Pushing
<1>5. \A i \in 0 .. put : Plus(w, i) \in Index /\ Dist(r, Plus(w, i)) = u + i
  BY <1>1, <1>2, <1>3, <1>4, DistPlus, RingAssumption DEF HEADER
<1>6. Dist(r, wp) = u + put
  BY <1>2, <1>4, <1>5
<1>7. e[put + 1] \in Byte
  BY <1>1, <1>2, <1>3 DEF HEADER
<1> HIDE DEF e, u
<1>8. TypeOK'
  <2>1. buf' \in [Index -> Byte]
    BY <1>1, <1>2, <1>7
  <2>2. wp' \in Index
    BY <1>1, <1>2, RingAssumption DEF Step, Index, HEADER
  <2>3. put' \in 0 .. Capacity
    BY <1>1, <1>2, <1>3, <1>4, RingAssumption DEF HEADER
  <2> QED
    BY <1>1, <1>2, <2>1, <2>2, <2>3 DEF RingInv, TypeOK
<1>9. Layout' /\ Popping'
  BY <1>1 DEF RingInv, Layout, Popping, Off, Size
<1>10. Stored'
  <2> SUFFICES ASSUME NEW k \in 1 .. Len(queue), NEW i \in 0 .. Size(k) - 1
               PROVE  buf'[Plus(starts[k], i)] = Encoded(queue[k])[i + 1]
    BY <1>1 DEF Stored, Size
  <2>1. /\ starts[k] \in Index /\ Off(k) \in Nat /\ Size(k) \in Nat
        /\ Off(k) + Size(k) <= u
    BY Places DEF RingInv, Layout, u
  <2>2. i \in Nat /\ Off(k) + i < u /\ Off(k) + i < Capacity
    BY <1>3, <1>4, <2>1, RingAssumption DEF HEADER
  <2>3. Plus(starts[k], i) \in Index /\ Dist(r, Plus(starts[k], i)) = Off(k) + i
    BY <1>2, <2>1, <2>2, DistPlus DEF Off
  <2>4. Plus(starts[k], i) # wp
    BY <1>2, <1>4, <1>6, <2>1, <2>2, <2>3
  <2> QED
    BY <1>1, <1>2, <2>3, <2>4 DEF RingInv, Stored
<1>11. Pushing'
  <2>1. put' <= HEADER + Len(pushing)
    BY <1>1, <1>2, <1>3 DEF HEADER
  <2>2. wp' = Plus(w, put')
    BY <1>1, <1>2, <1>3, <1>4, StepPlus, RingAssumption DEF HEADER
  <2>3. ASSUME NEW i \in 0 .. put' - 1 PROVE buf'[Plus(w, i)] = e[i + 1]
    <3>1. CASE i = put
      BY <1>1, <1>2, <1>4, <3>1
    <3>2. CASE i # put
      <4>1. i \in 0 .. put - 1 /\ i \in 0 .. put /\ u + i # u + put
        BY <1>1, <1>2, <1>4, <3>2
      <4>2. Plus(w, i) # wp /\ Plus(w, i) \in Index
        BY <1>5, <1>6, <4>1
      <4> QED
        BY <1>1, <1>2, <1>4, <4>1, <4>2
    <3> QED
      BY <3>1, <3>2
  <2> QED
    BY <1>1, <1>4, <2>1, <2>2, <2>3 DEF Pushing, e, u
<1> QED
  BY <1>8, <1>9, <1>10, <1>11 DEF RingInv

\* push() publishing: the record written becomes the last of the ring.
LEMMA PushPublishRing == RingInv /\ PushPublish => RingInv'
<1> SUFFICES ASSUME RingInv, PushPublish PROVE RingInv'
  OBVIOUS
<1>0. PICK n \in Nat : n = Len(queue)
  BY DEF RingInv, TypeOK
<1> DEFINE u == Dist(r, w)
           need == HEADER + Len(pushing)
<1>1. /\ pushing # <<>> /\ put = need
      /\ w' = wp /\ pushing' = <<>> /\ put' = 0
      /\ queue' = Append(queue, pushing) /\ starts' = Append(starts, w)
      /\ UNCHANGED <<buf, wp, r, popping, got, rp, taken>>
  BY DEF PushPublish, consumerVars
<1>2. /\ w \in Index /\ r \in Index /\ pushing \in Records /\ n \in Nat
      /\ queue \in Seq(Records) /\ starts \in Seq(Index) /\ Len(starts) = n
  BY <1>0, <1>1 DEF RingInv, TypeOK, Layout
<1>3. need \in Nat /\ need > 0 /\ u \in Nat
  BY <1>2, EncodedShape, OffsetsTyped DEF HEADER
<1>4. /\ u + need <= Capacity - 1 /\ wp = Plus(w, need)
      /\ \A i \in 0 .. need - 1 : buf[Plus(w, i)] = Encoded(pushing)[i + 1]
  BY <1>1, <1>3 DEF RingInv, Pushing, HEADER
<1>5. w' \in Index /\ Dist(r, w') = u + need
  BY <1>1, <1>2, <1>3, <1>4, DistPlus, RingAssumption
<1>6. /\ queue' \in Seq(Records) /\ Len(queue') = n + 1 /\ queue'[n + 1] = pushing
      /\ \A k \in 1 .. n : queue'[k] = queue[k]
      /\ queue' # <<>>
  BY <1>0, <1>1, <1>2, Pushed
<1>7. /\ starts' \in Seq(Index) /\ Len(starts') = n + 1 /\ starts'[n + 1] = w
      /\ \A k \in 1 .. n : starts'[k] = starts[k]
  BY <1>0, <1>1, <1>2, Pushed
<1>8. \A k \in 1 .. n : /\ Off(k)' = Off(k) /\ Size(k)' = Size(k)
                         /\ Off(k) \in Nat /\ Size(k) \in Nat
                         /\ Off(k) + Size(k) <= u
  <2> SUFFICES ASSUME NEW k \in 1 .. n
               PROVE  /\ Off(k)' = Off(k) /\ Size(k)' = Size(k)
                      /\ Off(k) \in Nat /\ Size(k) \in Nat
                      /\ Off(k) + Size(k) <= u
    OBVIOUS
  <2>1. Off(k) \in Nat /\ Size(k) \in Nat /\ Off(k) + Size(k) <= u
    BY <1>0, Places DEF RingInv, Layout
  <2>2. Off(k)' = Off(k) /\ Size(k)' = Size(k)
    BY <1>1, <1>6, <1>7 DEF Off, Size
  <2> QED
    BY <2>1, <2>2
<1>9. Off(n + 1)' = u /\ Size(n + 1)' = need
  BY <1>1, <1>6, <1>7 DEF Off, Size
<1>10. TypeOK'
  BY <1>1, <1>5, <1>6, <1>7, RingAssumption DEF RingInv, TypeOK
<1>11. /\ queue = <<>> => n = 0 /\ u = 0
       /\ queue # <<>> => n > 0 /\ Off(1) = 0 /\ Off(n) + Size(n) = u
       /\ \A k \in 1 .. n - 1 : Off(k + 1) = Off(k) + Size(k)
       /\ \A j, k \in 1 .. n : j < k => Off(j) + Size(j) <= Off(k)
  BY <1>0, <1>2, OffsetsTyped DEF RingInv, Layout
<1> HIDE DEF u, need
<1>12. Layout'
  <2>1. Off(1)' = 0
    BY <1>2, <1>8, <1>9, <1>11
  <2>2. Off(n + 1)' + Size(n + 1)' = Dist(r, w')
    BY <1>5, <1>9
  <2>3. \A k \in 1 .. n + 1 : k = n + 1 \/ k \in 1 .. n
    BY <1>2
  <2>4. \A k \in 1 .. n + 1 : Off(k)' + Size(k)' <= Dist(r, w')
    BY <1>3, <1>5, <1>8, <1>9, <2>3
  <2>5. \A k \in 1 .. n : Off(k + 1)' = Off(k)' + Size(k)'
    <3> SUFFICES ASSUME NEW k \in 1 .. n PROVE Off(k + 1)' = Off(k)' + Size(k)'
      OBVIOUS
    <3>1. CASE k = n
      BY <1>2, <1>8, <1>9, <1>11, <3>1
    <3>2. CASE k # n
      <4>1. k \in 1 .. n - 1 /\ k + 1 \in 1 .. n
        BY <1>2, <3>2
      <4> QED
        BY <1>8, <1>11, <4>1
    <3> QED
      BY <3>1, <3>2
  <2>6. \A j, k \in 1 .. n + 1 : j < k => Off(j)' + Size(j)' <= Off(k)'
    <3> SUFFICES ASSUME NEW j \in 1 .. n + 1, NEW k \in 1 .. n + 1, j < k
                 PROVE  Off(j)' + Size(j)' <= Off(k)'
      OBVIOUS
    <3>1. j \in 1 .. n
      BY <1>2
    <3>2. CASE k = n + 1
      BY <1>8, <1>9, <3>1, <3>2
    <3>3. CASE k \in 1 .. n
      BY <1>8, <1>11, <3>1, <3>3
    <3> QED
      BY <2>3, <3>2, <3>3
  <2>7. n + 1 - 1 = n
    BY <1>2
  <2> QED
    BY <1>1, <1>6, <1>7, <2>1, <2>2, <2>4, <2>5, <2>6, <2>7 DEF Layout
<1>13. Stored'
  <2> SUFFICES ASSUME NEW k \in 1 .. n + 1, NEW i \in 0 .. Size(k)' - 1
               PROVE  buf[Plus(starts'[k], i)] = Encoded(queue'[k])[i + 1]
    BY <1>1, <1>6 DEF Stored
  <2>1. CASE k = n + 1
    BY <1>4, <1>6, <1>7, <1>9, <2>1
  <2>2. CASE k \in 1 .. n
    BY <1>0, <1>6, <1>7, <1>8, <2>2 DEF RingInv, Stored
  <2> QED
    BY <1>2, <2>1, <2>2
<1>14. Popping'
  <2>1. queue # <<>> => 1 \in 1 .. n
    BY <1>2, <1>11
  <2> QED
    BY <1>1, <1>6, <1>8, <2>1 DEF RingInv, Popping
<1> QED
  BY <1>1, <1>10, <1>12, <1>13, <1>14 DEF RingInv, Pushing

\* pop() finding a record.
LEMMA PopStartRing == RingInv /\ PopStart => RingInv'
<1> SUFFICES ASSUME RingInv, PopStart PROVE RingInv'
  OBVIOUS
<1>1. /\ w # r /\ popping' = TRUE /\ got' = <<>> /\ rp' = r
      /\ UNCHANGED <<buf, w, pushing, put, wp, r, taken, queue, starts>>
  BY DEF PopStart, producerVars
<1>2. TypeOK'
  BY <1>1 DEF RingInv, TypeOK
<1>3. Layout' /\ Stored' /\ Pushing'
  BY <1>1 DEF RingInv, Layout, Stored, Pushing, Off, Size
<1>4. Popping'
  <2>1. queue # <<>> /\ r \in Index
    BY <1>1 DEF RingInv, Layout, TypeOK
  <2>2. 1 \in 1 .. Len(queue)
    BY <2>1 DEF RingInv, TypeOK
  <2>3. Size(1) \in Nat
    BY <2>2, Places DEF RingInv
  <2>4. Len(got') = 0 /\ Plus(r, 0) = r
    BY <1>1, <2>1, StepPlus, RingAssumption DEF HEADER
  <2> QED
    BY <1>1, <2>1, <2>3, <2>4 DEF Popping, Size
<1> QED
  BY <1>2, <1>3, <1>4 DEF RingInv

\* While pop() reads: the first record begins at r, and the bytes read are whole
\* exactly when they are all of it.
LEMMA FirstRecord ==
    ASSUME RingInv, popping
    PROVE  /\ 1 \in 1 .. Len(queue) /\ starts[1] = r /\ Len(got) \in Nat
           /\ Len(got) <= Size(1) /\ rp = Plus(r, Len(got))
           /\ \A i \in 1 .. Len(got) : got[i] = Encoded(queue[1])[i]
           /\ Size(1) \in Nat /\ Size(1) <= Dist(r, w)
           /\ Whole <=> Len(got) = Size(1)
<1>1. /\ queue # <<>> /\ Len(got) <= Size(1) /\ rp = Plus(r, Len(got))
      /\ \A i \in 1 .. Len(got) : got[i] = Encoded(queue[1])[i]
  BY DEF RingInv, Popping
<1>2. 1 \in 1 .. Len(queue) /\ Len(got) \in Nat
  BY <1>1 DEF RingInv, TypeOK
<1>3. /\ queue[1] \in Records /\ starts[1] \in Index /\ Len(queue[1]) \in Nat
      /\ Size(1) \in Nat /\ Size(1) > HEADER
  BY <1>2, Places DEF RingInv
<1>4. Off(1) = 0 /\ Off(1) + Size(1) <= Dist(r, w)
  BY <1>1, <1>2 DEF RingInv, Layout
<1>5. starts[1] = r
  BY <1>3, <1>4, OffsetsTyped, DistInjective, SMTT(30) DEF RingInv, TypeOK, Off
<1>6. Size(1) <= Dist(r, w)
  BY <1>3, <1>4
<1>7. Len(got) >= HEADER => got[1] + Base * got[2] = Len(queue[1])
  <2> SUFFICES ASSUME Len(got) >= HEADER PROVE got[1] + Base * got[2] = Len(queue[1])
    OBVIOUS
  <2>1. 1 \in 1 .. Len(got) /\ 2 \in 1 .. Len(got)
    BY <1>2 DEF HEADER
  <2>2. got[1] = Encoded(queue[1])[1] /\ got[2] = Encoded(queue[1])[2]
    BY <1>1, <2>1
  <2> QED
    BY <1>3, <2>2, EncodedShape
<1>8. Len(got) >= HEADER => HEADER + got[1] + Base * got[2] = Size(1)
  <2>1. Len(got) >= HEADER => got[1] \in Nat /\ Base * got[2] \in Nat
    BY <1>2, RingAssumption, SMTT(30) DEF RingInv, TypeOK, HEADER, Byte
  <2> QED
    BY <1>3, <1>7, <2>1 DEF Size, HEADER
<1>9. Whole <=> Len(got) = Size(1)
  BY <1>2, <1>3, <1>8 DEF Whole, HEADER
<1> QED
  BY <1>1, <1>2, <1>3, <1>5, <1>6, <1>9

\* get(): the next byte of the first record.
LEMMA GetByteRing == RingInv /\ GetByte => RingInv'
<1> SUFFICES ASSUME RingInv, GetByte PROVE RingInv'
  OBVIOUS
<1> DEFINE g == Len(got)
<1>1. /\ popping /\ ~Whole /\ got' = Append(got, buf[rp]) /\ rp' = Step(rp)
      /\ UNCHANGED <<buf, w, pushing, put, wp, r, popping, taken, queue, starts>>
  BY DEF GetByte, producerVars
<1>2. /\ 1 \in 1 .. Len(queue) /\ starts[1] = r /\ g \in Nat /\ Size(1) \in Nat
      /\ g < Size(1) /\ rp = Plus(r, g) /\ Size(1) <= Dist(r, w)
      /\ \A i \in 1 .. g : got[i] = Encoded(queue[1])[i]
  BY <1>1, FirstRecord
<1>3. w \in Index /\ r \in Index /\ rp \in Index /\ got \in Seq(Byte) /\ buf[rp] \in Byte
  BY DEF RingInv, TypeOK
<1>4. Dist(r, w) \in Nat /\ Dist(r, w) < Capacity
  BY <1>3, OffsetsTyped
<1>5. rp' = Plus(r, g + 1) /\ rp' \in Index
  <2>1. rp' = Plus(r, g + 1)
    BY <1>1, <1>2, <1>3, <1>4, StepPlus, RingAssumption
  <2>2. rp' \in Index
    BY <1>1, <1>3, RingAssumption DEF Step, Index, HEADER
  <2> QED
    BY <2>1, <2>2
<1>6. buf[rp] = Encoded(queue[1])[g + 1]
  <2>1. g \in 0 .. Size(1) - 1
    BY <1>2
  <2> QED
    BY <1>2, <2>1 DEF RingInv, Stored
<1>7. /\ got' \in Seq(Byte) /\ Len(got') = g + 1 /\ got'[g + 1] = buf[rp]
      /\ \A i \in 1 .. g : got'[i] = got[i]
  BY <1>1, <1>3, Pushed
<1>8. TypeOK'
  BY <1>1, <1>5, <1>7 DEF RingInv, TypeOK
<1>9. Layout' /\ Stored' /\ Pushing'
  BY <1>1 DEF RingInv, Layout, Stored, Pushing, Off, Size
<1>10. Popping'
  <2>1. \A i \in 1 .. g + 1 : i = g + 1 \/ i \in 1 .. g
    BY <1>2
  <2>2. \A i \in 1 .. Len(got') : got'[i] = Encoded(queue[1])[i]
    BY <1>2, <1>6, <1>7, <2>1
  <2>3. queue # <<>> /\ g + 1 <= Size(1)
    BY <1>1, <1>2 DEF RingInv, Popping
  <2> QED
    BY <1>1, <1>5, <1>7, <2>2, <2>3 DEF Popping, Size
<1> QED
  BY <1>8, <1>9, <1>10 DEF RingInv

\* pop() returns the first record of the ring, whole.
LEMMA TakesFirst ==
    ASSUME RingInv, PopPublish
    PROVE  queue # <<>> /\ taken' = Head(queue) /\ queue' = Tail(queue)
<1> DEFINE e == Encoded(queue[1])
           m == Len(queue[1])
<1>1. popping /\ Whole
  BY DEF PopPublish
<1>2. /\ 1 \in 1 .. Len(queue) /\ Len(got) = Size(1)
      /\ \A i \in 1 .. Len(got) : got[i] = e[i]
  BY <1>1, FirstRecord
<1>3. queue # <<>> /\ queue[1] \in Records /\ Head(queue) = queue[1]
  BY <1>2 DEF RingInv, TypeOK
<1>4. /\ m \in Nat /\ m > 0 /\ m <= OutCap /\ queue[1] \in Seq(Byte)
      /\ \A i \in 1 .. m : e[HEADER + i] = queue[1][i]
  BY <1>3, EncodedShape, RecordsAssumption
<1>5. Len(got) = 2 + m
  BY <1>2 DEF Size, HEADER
<1> HIDE DEF e, m
<1>6. taken' = SubSeq(got, 3, m + 2)
  <2>1. HEADER + 1 = 3 /\ Len(got) - HEADER <= OutCap /\ Len(got) = m + 2
    BY <1>4, <1>5, OutCapAssumption DEF HEADER
  <2> QED
    BY <2>1 DEF PopPublish
<1>7. \A i \in 3 .. m + 2 : got[i] \in Byte
  BY <1>4, <1>5 DEF RingInv, TypeOK
<1>8. /\ taken' \in Seq(Byte) /\ Len(taken') = m
      /\ \A i \in 1 .. m : taken'[i] = got[i + 2]
  <2>1. /\ SubSeq(got, 3, m + 2) \in Seq(Byte)
        /\ Len(SubSeq(got, 3, m + 2)) = IF 3 <= m + 2 THEN (m + 2) - 3 + 1 ELSE 0
        /\ \A i \in 1 .. (m + 2) - 3 + 1 : SubSeq(got, 3, m + 2)[i] = got[3 + i - 1]
    <3>1. 3 \in Int /\ m + 2 \in Int
      BY <1>4
    <3> QED
      BY <1>7, <3>1, SubSeqProperties
  <2>2. 3 <= m + 2 /\ (m + 2) - 3 + 1 = m /\ \A i \in 1 .. m : 3 + i - 1 = i + 2
    BY <1>4
  <2> QED
    BY <1>6, <2>1, <2>2
<1>9. \A i \in 1 .. m : taken'[i] = queue[1][i]
  <2> SUFFICES ASSUME NEW i \in 1 .. m PROVE taken'[i] = queue[1][i]
    OBVIOUS
  <2>1. i + 2 \in 1 .. Len(got) /\ HEADER + i = i + 2
    BY <1>4, <1>5 DEF HEADER
  <2> QED
    BY <1>2, <1>4, <1>8, <2>1
<1>10. taken' = queue[1]
  BY <1>4, <1>8, <1>9, SeqEqual DEF m
<1> QED
  BY <1>3, <1>10 DEF PopPublish

\* pop() releasing: the second record becomes the first, and everything is nearer
\* to r by the size of the one released.
LEMMA PopPublishRing == RingInv /\ PopPublish => RingInv'
<1> SUFFICES ASSUME RingInv, PopPublish PROVE RingInv'
  OBVIOUS
<1>1. popping /\ Whole
  BY DEF PopPublish
<1>2. PICK n \in Nat, z \in Nat, u \in Nat : n = Len(queue) /\ z = Size(1) /\ u = Dist(r, w)
  <2>1. Len(queue) \in Nat /\ r \in Index /\ w \in Index
    BY DEF RingInv, TypeOK
  <2>2. Size(1) \in Nat
    BY <1>1, FirstRecord
  <2>3. Dist(r, w) \in Nat
    BY <2>1, OffsetsTyped
  <2> QED
    BY <2>1, <2>2, <2>3
<1>3. /\ r' = rp /\ popping' = FALSE /\ got' = <<>> /\ taken' = Head(queue)
      /\ queue # <<>> /\ queue' = Tail(queue) /\ starts' = Tail(starts)
      /\ UNCHANGED <<buf, w, pushing, put, wp, rp>>
  <2>1. queue # <<>> /\ taken' = Head(queue) /\ queue' = Tail(queue)
    BY TakesFirst
  <2>2. starts # <<>>
    BY <2>1 DEF RingInv, TypeOK, Layout
  <2> QED
    BY <2>1, <2>2 DEF PopPublish, producerVars
<1>4. /\ w \in Index /\ r \in Index /\ queue \in Seq(Records) /\ starts \in Seq(Index)
      /\ Len(starts) = n /\ starts # <<>>
  BY <1>2, <1>3 DEF RingInv, TypeOK, Layout
<1>5. z <= u /\ r' = Plus(r, z) /\ u < Capacity
  BY <1>1, <1>2, <1>3, <1>4, FirstRecord, OffsetsTyped
<1>6. r' \in Index /\ Dist(r', w) = u - z
  BY <1>2, <1>4, <1>5, DistShift
<1>7. /\ queue' \in Seq(Records) /\ Len(queue') = n - 1 /\ n >= 1 /\ queue[1] \in Records
      /\ \A k \in 1 .. n - 1 : queue'[k] = queue[k + 1]
  BY <1>2, <1>3, <1>4, Shifted
<1>8. /\ starts' \in Seq(Index) /\ Len(starts') = n - 1
      /\ \A k \in 1 .. n - 1 : starts'[k] = starts[k + 1]
  BY <1>2, <1>3, <1>4, Shifted
<1>9. /\ Off(1) = 0 /\ Off(n) + Size(n) = u
      /\ \A k \in 1 .. n : Off(k) + Size(k) <= u /\ Off(k) \in Nat /\ Size(k) \in Nat
                            /\ starts[k] \in Index
      /\ \A k \in 1 .. n - 1 : Off(k + 1) = Off(k) + Size(k)
      /\ \A j, k \in 1 .. n : j < k => Off(j) + Size(j) <= Off(k)
  BY <1>2, <1>3, Places DEF RingInv, Layout
<1>10. \A k \in 1 .. n - 1 : Off(k)' = Off(k + 1) - z /\ Size(k)' = Size(k + 1)
  <2> SUFFICES ASSUME NEW k \in 1 .. n - 1
               PROVE  Off(k)' = Off(k + 1) - z /\ Size(k)' = Size(k + 1)
    OBVIOUS
  <2>1. k + 1 \in 1 .. n /\ 1 \in 1 .. n /\ 1 < k + 1
    BY <1>2
  <2>2. z <= Off(k + 1)
    BY <1>2, <1>9, <2>1
  <2>3. Dist(Plus(r, z), starts[k + 1]) = Dist(r, starts[k + 1]) - z
    BY <1>2, <1>4, <1>9, <2>1, <2>2, DistShift DEF Off
  <2> QED
    BY <1>5, <1>7, <1>8, <2>3 DEF Off, Size
<1>11. TypeOK'
  <2>1. taken' \in Seq(Byte)
    BY <1>3, <1>4, <1>7, Shifted, RecordsAssumption
  <2>2. got' \in Seq(Byte) /\ popping' \in BOOLEAN
    <3>1. got' \in Seq(Byte)
      BY <1>3, EmptySeq
    <3>2. popping' \in BOOLEAN
      BY <1>3
    <3> QED
      BY <3>1, <3>2
  <2>3. /\ buf' \in [Index -> Byte] /\ w' \in Index /\ wp' \in Index /\ rp' \in Index
        /\ pushing' \in Records \cup {<<>>} /\ put' \in 0 .. Capacity
    BY <1>3 DEF RingInv, TypeOK
  <2> QED
    BY <1>6, <1>7, <1>8, <2>1, <2>2, <2>3 DEF TypeOK
<1>12. \A k \in 1 .. n - 1 : k \in 1 .. n /\ k + 1 \in 1 .. n
  BY <1>2
<1>13. Layout'
  <2>1. queue' = <<>> => w = r'
    <3> SUFFICES ASSUME queue' = <<>> PROVE w = r'
      OBVIOUS
    <3>1. n = 1
      <4>1. Len(queue') = 0
        OBVIOUS
      <4>2. n - 1 = 0
        BY <1>7, <4>1
      <4> QED
        BY <4>2
    <3>2. Dist(r', w) = 0
      BY <1>2, <1>6, <1>9, <3>1
    <3> QED
      BY <1>4, <1>6, <3>2, OffsetsTyped, DistInjective
  <2>2. queue' # <<>> => Off(1)' = 0 /\ Off(n - 1)' + Size(n - 1)' = Dist(r', w)
    <3> SUFFICES ASSUME queue' # <<>>
                 PROVE  Off(1)' = 0 /\ Off(n - 1)' + Size(n - 1)' = Dist(r', w)
      OBVIOUS
    <3>1. 1 \in 1 .. n - 1 /\ n - 1 \in 1 .. n - 1 /\ n \in 1 .. n /\ n - 1 + 1 = n
      BY <1>2, <1>7
    <3>2. Off(1)' = Off(2) - z /\ Off(2) = Off(1) + z
      BY <1>2, <1>9, <1>10, <3>1
    <3>3. Off(n - 1)' = Off(n) - z /\ Size(n - 1)' = Size(n)
      BY <1>10, <3>1
    <3>4. Off(n) \in Nat /\ Size(n) \in Nat /\ Off(n) + Size(n) = u
      BY <1>9, <3>1
    <3>5. Off(n) - z + Size(n) = u - z /\ 0 + z - z = 0
      BY <1>2, <3>4
    <3> QED
      BY <1>6, <1>9, <3>2, <3>3, <3>5
  <2>3. \A k \in 1 .. n - 1 : Off(k)' + Size(k)' <= Dist(r', w)
    BY <1>2, <1>6, <1>9, <1>10, <1>12, SMTT(30)
  <2>4. \A k \in 1 .. n - 1 - 1 : Off(k + 1)' = Off(k)' + Size(k)'
    <3> SUFFICES ASSUME NEW k \in 1 .. n - 1 - 1 PROVE Off(k + 1)' = Off(k)' + Size(k)'
      OBVIOUS
    <3>1. k \in 1 .. n - 1 /\ k + 1 \in 1 .. n - 1
      BY <1>2
    <3>2. Off(k + 1)' = Off(k + 1 + 1) - z /\ Off(k)' = Off(k + 1) - z /\ Size(k)' = Size(k + 1)
      BY <1>10, <3>1
    <3>3. Off(k + 1 + 1) = Off(k + 1) + Size(k + 1)
      BY <1>9, <3>1
    <3> QED
      BY <1>2, <1>9, <1>12, <3>1, <3>2, <3>3
  <2>5. \A j, k \in 1 .. n - 1 : j < k => Off(j)' + Size(j)' <= Off(k)'
    <3> SUFFICES ASSUME NEW j \in 1 .. n - 1, NEW k \in 1 .. n - 1, j < k
                 PROVE  Off(j)' + Size(j)' <= Off(k)'
      OBVIOUS
    <3>1. j + 1 \in 1 .. n /\ k + 1 \in 1 .. n /\ j + 1 < k + 1
      BY <1>2
    <3>2. Off(j + 1) + Size(j + 1) <= Off(k + 1)
      BY <1>9, <3>1
    <3> QED
      BY <1>2, <1>9, <1>10, <3>1, <3>2
  <2> QED
    BY <1>3, <1>7, <1>8, <2>1, <2>2, <2>3, <2>4, <2>5 DEF Layout
<1>14. Stored'
  <2> SUFFICES ASSUME NEW k \in 1 .. n - 1, NEW i \in 0 .. Size(k)' - 1
               PROVE  buf[Plus(starts'[k], i)] = Encoded(queue'[k])[i + 1]
    BY <1>3, <1>7 DEF Stored
  <2>1. k + 1 \in 1 .. Len(queue) /\ i \in 0 .. Size(k + 1) - 1
    BY <1>2, <1>10, <1>12
  <2> QED
    BY <1>7, <1>8, <2>1 DEF RingInv, Stored
<1>15. Pushing'
  <2> SUFFICES ASSUME pushing # <<>> PROVE Dist(r', w) + HEADER + Len(pushing) <= Capacity - 1
    BY <1>3 DEF RingInv, Pushing
  <2>1. u + HEADER + Len(pushing) <= Capacity - 1
    BY <1>2 DEF RingInv, Pushing
  <2>2. Len(pushing) \in Nat
    BY EncodedShape DEF RingInv, TypeOK
  <2> QED
    BY <1>2, <1>6, <2>1, <2>2, RingAssumption, SMTT(30) DEF HEADER
<1> QED
  BY <1>3, <1>11, <1>13, <1>14, <1>15 DEF RingInv, Popping

\* Every step of push() or pop() keeps the ring in order.
LEMMA RingStep == RingInv /\ [Next]_vars => RingInv'
<1>1. ASSUME RingInv, UNCHANGED vars PROVE RingInv'
  BY <1>1 DEF vars, producerVars, consumerVars, RingInv, TypeOK, Layout, Stored, Pushing,
              Popping, Off, Size
<1> QED
  BY <1>1, PushStartRing, PutByteRing, PushPublishRing, PopStartRing, GetByteRing,
     PopPublishRing DEF Next, Producer, Consumer

-----------------------------------------------------------------------------
(* What the ring promises.                                                  *)

\* The ring keeps to its types and its layout, however push() and pop() interleave.
THEOREM RingCorrect == Spec => []RingInv
  BY InitRing, RingStep, PTL DEF Spec

\* push() and pop(), cut at every byte, implement a queue of whole records.
THEOREM RingImplementsFifo == Spec => ImplementsFifo
<1>1. Init => Fifo!FifoInit
  BY DEF Init, Fifo!FifoInit
<1>2. RingInv /\ [Next]_vars => [Fifo!FifoNext]_<<queue, taken>>
  <2> SUFFICES ASSUME RingInv, [Next]_vars
               PROVE  Fifo!Put \/ Fifo!Take \/ UNCHANGED <<queue, taken>>
    BY DEF Fifo!FifoNext
  <2>1. CASE PushPublish
    <3>1. pushing \in Records /\ queue' = Append(queue, pushing) /\ UNCHANGED taken
      BY <2>1 DEF RingInv, TypeOK, PushPublish, consumerVars
    <3> QED
      BY <3>1 DEF Fifo!Put
  <2>2. CASE PopPublish
    BY <2>2, TakesFirst DEF Fifo!Take
  <2>3. CASE PushStart \/ PutByte \/ PopStart \/ GetByte \/ UNCHANGED vars
    BY <2>3 DEF PushStart, PutByte, PopStart, GetByte, vars, consumerVars
  <2> QED
    BY <2>1, <2>2, <2>3 DEF Next, Producer, Consumer
<1> QED
  BY <1>1, <1>2, RingCorrect, PTL DEF Spec, ImplementsFifo, Fifo!FifoSpec

\* push() writes only into the free region, whatever pop() is reading meanwhile.
THEOREM RingWritesFree == Spec => WritesOnlyFreeBytes
<1>1. RingInv /\ [Next]_vars => [buf' # buf => Dist(r, wp) >= Dist(r, w)]_vars
  <2> SUFFICES ASSUME RingInv, Next, buf' # buf PROVE Dist(r, wp) >= Dist(r, w)
    BY DEF vars
  <2>1. PutByte
    BY DEF Next, Producer, Consumer, PushStart, PushPublish, PopStart, GetByte, PopPublish
  <2>2. pushing \in Records /\ put \in Nat /\ w \in Index /\ r \in Index
    BY <2>1 DEF PutByte, RingInv, TypeOK
  <2>3. Dist(r, w) \in Nat /\ Len(pushing) \in Nat
    BY <2>2, OffsetsTyped, EncodedShape
  <2>4. Dist(r, w) + put < Capacity /\ wp = Plus(w, put)
    BY <2>1, <2>2, <2>3, RingAssumption DEF PutByte, RingInv, Pushing, HEADER
  <2> QED
    BY <2>2, <2>3, <2>4, DistPlus
<1> QED
  BY <1>1, RingCorrect, PTL DEF Spec, WritesOnlyFreeBytes

=============================================================================
