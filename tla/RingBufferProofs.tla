-------------------------- MODULE RingBufferProofs --------------------------
(***************************************************************************)
(* Proofs about libringbuffer, for every capacity, every set of bytes and  *)
(* every length of request.                                                *)
(***************************************************************************)
EXTENDS RingBuffer, SequenceTheorems, TLAPS

\* Reducing an index already below the length.
LEMMA ModSmall == ASSUME NEW L \in Nat \ {0}, NEW x \in Nat, x < L
                  PROVE  x % L = x
  BY SMT

\* Reducing an index that passed the end once.
LEMMA ModOnce == ASSUME NEW L \in Nat \ {0}, NEW x \in Nat, L <= x, x < L + L
                 PROVE  x % L = x - L
  BY SMT

\* An index that reaches the end wraps to 0.
LEMMA ModSelf == ASSUME NEW L \in Nat \ {0} PROVE L % L = 0
  BY SMT

\* The cell of the i-th byte from index s on, without the modulus.
Cell(s, i) == IF s + i - 1 < length THEN s + i - 1 ELSE s + i - 1 - length

\* The allocation has at least one cell, and Index is its cells.
LEMMA Lengths == length \in Nat \ {0} /\ Index = 0 .. length - 1
  BY RingAssumption DEF length, Index

\* Used and free space add up to the capacity: one cell stays unused.
LEMMA UsedFree ==
  ASSUME TypeOK
  PROVE  /\ rb_get_space_used \in 0 .. Cap
         /\ rb_get_space_free = Cap - rb_get_space_used
  BY RingAssumption DEF TypeOK, Index, rb_get_space_used, rb_get_space_free, length

\* The modulus that finds the i-th byte stays inside the allocation.
LEMMA CellIsMod ==
  ASSUME NEW s \in Index, NEW i \in 1 .. length
  PROVE  /\ (s + i - 1) % length = Cell(s, i)
         /\ Cell(s, i) \in Index
  <1>1. s \in 0 .. length - 1 /\ length \in Nat \ {0}
    BY Lengths
  <1>2. s + i - 1 \in Nat /\ s + i - 1 < length + length
    BY <1>1
  <1>3. CASE s + i - 1 < length
    <2>1. (s + i - 1) % length = s + i - 1
      BY <1>1, <1>2, <1>3, ModSmall
    <2>2. QED  BY <1>1, <1>2, <1>3, <2>1, Lengths DEF Cell
  <1>4. CASE length <= s + i - 1
    <2> DEFINE x == s + i - 1
    <2>0. x \in Nat /\ length <= x /\ x < length + length  BY <1>2, <1>4
    <2> HIDE DEF x
    <2>a. x % length = x - length  BY <1>1, <2>0, ModOnce
    <2>1. (s + i - 1) % length = (s + i - 1) - length  BY <2>a DEF x
    <2>2. QED  BY <1>1, <1>2, <1>4, <2>1, Lengths DEF Cell
  <1>5. QED  BY <1>1, <1>2, <1>3, <1>4

\* The u bytes a ring b holds from index s on.
HeldOf(b, s, u) == [i \in 1 .. u |-> b[(s + i - 1) % length]]

\* The held bytes are a sequence of the right length.
LEMMA HeldOfFacts ==
  ASSUME NEW b \in [Index -> Byte], NEW s \in Index, NEW u \in 0 .. Cap
  PROVE  /\ HeldOf(b, s, u) \in Seq(Byte)
         /\ Len(HeldOf(b, s, u)) = u
         /\ \A i \in 1 .. u : HeldOf(b, s, u)[i] = b[Cell(s, i)]
  <1>1. u \in Nat /\ \A i \in 1 .. u : i \in 1 .. length
    BY RingAssumption DEF length
  <1>2. \A i \in 1 .. u : /\ (s + i - 1) % length = Cell(s, i)
                          /\ Cell(s, i) \in Index
    BY <1>1, CellIsMod
  <1>3. \A i \in 1 .. u : HeldOf(b, s, u)[i] = b[Cell(s, i)]
    BY <1>2 DEF HeldOf
  <1>4. HeldOf(b, s, u) \in [1 .. u -> Byte]
    BY <1>2 DEF HeldOf
  <1> HIDE DEF HeldOf
  <1>5. QED  BY <1>1, <1>3, <1>4

\* A request is a sequence no longer than the bound.
LEMMA RequestIsSeq ==
  ASSUME NEW data \in Requests
  PROVE  /\ data \in Seq(Byte)
         /\ Len(data) \in 0 .. MaxReq
         /\ data \in [1 .. Len(data) -> Byte]
  <1>1. PICK n \in 0 .. MaxReq : data \in [1 .. n -> Byte]
    BY DEF Requests
  <1>2. n \in Nat  BY RingAssumption
  <1>3. QED  BY <1>1, <1>2

\* memcpy out of the buffer gives the bytes of consecutive cells.
LEMMA CopyOutIsSeq ==
  ASSUME NEW n \in Nat, NEW at \in Nat, TypeOK, at + n <= length
  PROVE  /\ CopyOut(buffer, at, n) \in Seq(Byte)
         /\ Len(CopyOut(buffer, at, n)) = n
         /\ \A i \in 1 .. n : CopyOut(buffer, at, n)[i] = buffer[at + i - 1]
  <1>1. CopyOut(buffer, at, n) \in [1 .. n -> Byte]
    BY Lengths DEF CopyOut, TypeOK
  <1>2. \A i \in 1 .. n : CopyOut(buffer, at, n)[i] = buffer[at + i - 1]
    BY DEF CopyOut
  <1> HIDE DEF CopyOut
  <1>3. QED  BY <1>1, <1>2

\* What rb_read and rb_dump copy out is the held bytes in order.
LEMMA GatherIsHeld ==
  ASSUME TypeOK, NEW n \in 0 .. rb_get_space_used
  PROVE  /\ Gather(n) \in Seq(Byte)
         /\ Len(Gather(n)) = n
         /\ \A i \in 1 .. n : Gather(n)[i] = buffer[Cell(start, i)]
  <1>0. /\ start \in 0 .. length - 1 /\ length \in Nat \ {0}
        /\ n \in Nat /\ n < length
    BY Lengths, UsedFree, RingAssumption DEF TypeOK, length
  <1>1. CASE length - start < n
    <2> DEFINE h == length - start
    <2>1. h \in Nat /\ n - h \in Nat /\ start + h <= length /\ 0 + (n - h) <= length
      BY <1>0, <1>1
    <2>2. Gather(n) = CopyOut(buffer, start, h) \o CopyOut(buffer, 0, n - h)
      BY <1>1 DEF Gather
    <2> DEFINE a == CopyOut(buffer, start, h)
               b == CopyOut(buffer, 0, n - h)
    <2>3. a \in Seq(Byte) /\ Len(a) = h /\ \A i \in 1 .. h : a[i] = buffer[start + i - 1]
      BY <2>1, <1>0, CopyOutIsSeq
    <2>4. b \in Seq(Byte) /\ Len(b) = n - h /\ \A i \in 1 .. n - h : b[i] = buffer[0 + i - 1]
      BY <2>1, <1>0, CopyOutIsSeq
    <2> HIDE DEF a, b
    <2>5. Gather(n) = a \o b  BY <2>2 DEF a, b
    <2>6. Gather(n) \in Seq(Byte) /\ Len(Gather(n)) = n
      <3>1. a \in Seq(Byte) /\ b \in Seq(Byte)  BY <2>3, <2>4
      <3>a. a \o b \in Seq(Byte) /\ Len(a \o b) = Len(a) + Len(b)  BY <3>1
      <3>2. h + (n - h) = n  BY <1>0
      <3>3. QED  BY <3>a, <3>2, <2>3, <2>4, <2>5
    <2>7. ASSUME NEW i \in 1 .. n PROVE Gather(n)[i] = buffer[Cell(start, i)]
      <3>1. CASE i <= h
        <4>1. (a \o b)[i] = a[i]  BY <3>1, <2>3, <2>4
        <4>2. Cell(start, i) = start + i - 1  BY <3>1, <1>0 DEF Cell
        <4>3. QED  BY <4>1, <4>2, <2>3, <2>5, <3>1, <1>0
      <3>2. CASE i > h
        <4>1. (a \o b)[i] = b[i - h]  BY <3>2, <2>3, <2>4, <1>0
        <4>2. Cell(start, i) = 0 + (i - h) - 1  BY <3>2, <1>0 DEF Cell
        <4>3. i - h \in 1 .. n - h  BY <3>2, <1>0
        <4>4. QED  BY <4>1, <4>2, <4>3, <2>4, <2>5
      <3>3. QED  BY <3>1, <3>2, <1>0
    <2>8. QED  BY <2>6, <2>7
  <1>2. CASE ~(length - start < n)
    <2>1. start + n <= length  BY <1>0, <1>2
    <2>2. Gather(n) = CopyOut(buffer, start, n)  BY <1>2 DEF Gather
    <2>3. \A i \in 1 .. n : Cell(start, i) = start + i - 1  BY <1>0, <2>1 DEF Cell
    <2>4. /\ Gather(n) \in Seq(Byte) /\ Len(Gather(n)) = n
          /\ \A i \in 1 .. n : Gather(n)[i] = buffer[start + i - 1]
      BY <1>0, <2>1, <2>2, CopyOutIsSeq
    <2>5. QED  BY <2>3, <2>4
  <1>3. QED  BY <1>1, <1>2

\* Where a read leaves the read index.
LEMMA AdvancedIsCell ==
  ASSUME TypeOK, NEW n \in 0 .. rb_get_space_used
  PROVE  Advanced(n) = Cell(start, n + 1) /\ Advanced(n) \in Index
  <1>0. /\ start \in 0 .. length - 1 /\ length \in Nat \ {0}
        /\ n \in Nat /\ n < length
    BY Lengths, UsedFree, RingAssumption DEF TypeOK, length
  <1>1. CASE length - start < n
    <2>1. (start + (length - start)) % length = 0
      BY <1>0, ModOnce
    <2>2. (0 + (n - (length - start))) % length = n - (length - start)
      BY <1>0, <1>1, ModSmall
    <2>3. Advanced(n) = n - (length - start)
      BY <1>1, <2>1, <2>2 DEF Advanced
    <2>4. QED  BY <2>3, <1>0, <1>1, Lengths DEF Cell
  <1>2. CASE ~(length - start < n)
    <2>1. Advanced(n) = (start + n) % length  BY <1>2 DEF Advanced
    <2>2. CASE start + n < length
      <3>1. (start + n) % length = start + n  BY <1>0, <2>2, ModSmall
      <3>2. QED  BY <2>1, <2>2, <3>1, <1>0, Lengths DEF Cell
    <2>3. CASE start + n = length
      <3>1. (start + n) % length = 0  BY <1>0, <2>3, ModSelf
      <3>2. QED  BY <2>1, <2>3, <3>1, <1>0, Lengths DEF Cell
    <2>4. QED  BY <2>2, <2>3, <1>0, <1>2
  <1>3. QED  BY <1>1, <1>2

-----------------------------------------------------------------------------
\* The effect of a write that is taken, wrapped or not: the write index moves
\* by the length of the data, the cells behind it hold the data in order, and
\* no cell that held a byte changes.
Stored(data) ==
    /\ buffer' \in [Index -> Byte]
    /\ end' = Cell(end, Len(data) + 1)
    /\ \A j \in 1 .. Len(data) : buffer'[Cell(end, j)] = data[j]
    /\ \A c \in Index : (\A j \in 1 .. Len(data) : c # Cell(end, j))
                        => buffer'[c] = buffer[c]

\* A write that fits before the last cell stores its bytes, in one copy.
LEMMA StraightStores ==
  ASSUME TypeOK, NEW data \in Requests, WriteStraight(data)
  PROVE  Stored(data)
  <1>0. /\ data \in [1 .. Len(data) -> Byte] /\ Len(data) \in Nat
        /\ length \in Nat \ {0} /\ Index = 0 .. length - 1
        /\ end \in 0 .. length - 1
        /\ buffer \in [Index -> Byte]
        /\ end + Len(data) <= length
    BY RequestIsSeq, Lengths, RingAssumption DEF TypeOK, WriteStraight
  <1>1. buffer' = [i \in Index |-> IF end <= i /\ i < end + Len(data)
                                  THEN data[0 + (i - end) + 1] ELSE buffer[i]]
    BY <1>0 DEF WriteStraight, CopyIn
  <1>2. buffer' \in [Index -> Byte]
    BY <1>0, <1>1
  <1>3. end' = Cell(end, Len(data) + 1)
    <2>1. end' = (end + Len(data)) % length  BY DEF WriteStraight
    <2>2. CASE end + Len(data) < length
      <3>1. end + Len(data) \in Nat  BY <1>0
      <3>2. (end + Len(data)) % length = end + Len(data)
        BY <1>0, <2>2, <3>1, ModSmall
      <3>3. QED  BY <1>0, <2>1, <2>2, <3>2 DEF Cell
    <2>3. CASE end + Len(data) = length
      <3>1. (end + Len(data)) % length = 0  BY <1>0, <2>3, ModSelf
      <3>2. QED  BY <1>0, <2>1, <2>3, <3>1 DEF Cell
    <2>4. QED  BY <2>2, <2>3, <1>0
  <1>4. ASSUME NEW j \in 1 .. Len(data)
        PROVE  buffer'[Cell(end, j)] = data[j]
    <2>1. /\ Cell(end, j) = end + j - 1 /\ end + j - 1 \in Index
          /\ end <= end + j - 1 /\ end + j - 1 < end + Len(data)
          /\ 0 + ((end + j - 1) - end) + 1 = j
      BY <1>0 DEF Cell
    <2>2. buffer'[end + j - 1] = data[0 + ((end + j - 1) - end) + 1]
      BY <1>1, <2>1
    <2>3. QED  BY <2>1, <2>2
  <1>5. ASSUME NEW c \in Index,
               \A j \in 1 .. Len(data)  : c # Cell(end, j)
        PROVE  buffer'[c] = buffer[c]
    <2>1. SUFFICES ASSUME end <= c, c < end + Len(data) PROVE FALSE
      BY <1>0, <1>1
    <2>2. c - end + 1 \in 1 .. Len(data)  BY <1>0, <2>1
    <2>3. Cell(end, c - end + 1) = c  BY <1>0 DEF Cell
    <2>4. QED  BY <1>5, <2>2, <2>3
  <1>6. QED  BY <1>2, <1>3, <1>4, <1>5 DEF Stored

\* A write that does not fit stores its bytes too, in two copies.
LEMMA WrappedStores ==
  ASSUME TypeOK, NEW data \in Requests, WriteWrapped(data)
  PROVE  Stored(data)
  <1> DEFINE h == length - end
             m == Len(data)
  <1>0. /\ data \in [1 .. m -> Byte] /\ m \in Nat
        /\ length \in Nat \ {0} /\ Index = 0 .. length - 1
        /\ end \in 0 .. length - 1
        /\ buffer \in [Index -> Byte]
        /\ h \in Nat /\ h < m /\ m < length
    <2>1. data \in [1 .. m -> Byte] /\ m \in Nat  BY RequestIsSeq, RingAssumption
    <2>2. length \in Nat \ {0} /\ Index = 0 .. length - 1 /\ length = Cap + 1
      BY Lengths DEF length
    <2>3. end \in Index /\ buffer \in [Index -> Byte]  BY DEF TypeOK
    <2>4. m <= rb_get_space_free /\ length - end < m  BY DEF WriteWrapped
    <2>5. rb_get_space_free \in 0 .. Cap  BY UsedFree, RingAssumption
    <2>6. QED  BY <2>1, <2>2, <2>3, <2>4, <2>5, RingAssumption
  <1>1. (end + h) % length = 0
    BY <1>0, ModOnce
  <1>2. buffer' = CopyIn(CopyIn(buffer, end, data, 0, h), 0, data, h, m - h)
    BY <1>1 DEF WriteWrapped
  <1>3. end' = m - h
    <2>1. (0 + (m - h)) % length = m - h  BY <1>0, ModSmall
    <2>2. end' = (0 + (m - h)) % length  BY <1>1 DEF WriteWrapped
    <2>3. QED  BY <2>1, <2>2
  <1>4. buffer' = [i \in Index |-> IF i < m - h THEN data[h + i + 1]
                                  ELSE IF end <= i THEN data[i - end + 1]
                                  ELSE buffer[i]]
    <2> DEFINE mid == CopyIn(buffer, end, data, 0, h)
    <2>1. mid = [i \in Index |-> IF end <= i /\ i < end + h
                                THEN data[0 + (i - end) + 1] ELSE buffer[i]]
      BY <1>0 DEF CopyIn
    <2>2. \A i \in Index : mid[i] = IF end <= i THEN data[i - end + 1] ELSE buffer[i]
      <3> SUFFICES ASSUME NEW i \in Index
                   PROVE  mid[i] = IF end <= i THEN data[i - end + 1] ELSE buffer[i]
        OBVIOUS
      <3>1. mid[i] = IF end <= i /\ i < end + h
                     THEN data[0 + (i - end) + 1] ELSE buffer[i]
        BY <2>1
      <3>2. i < end + h /\ 0 + (i - end) + 1 = i - end + 1  BY <1>0
      <3>3. QED  BY <3>1, <3>2
    <2>3. DOMAIN mid = Index  BY <2>1
    <2> HIDE DEF mid
    <2>4. buffer' = CopyIn(mid, 0, data, h, m - h)  BY <1>2 DEF mid
    <2>5. buffer' = [i \in Index |-> IF 0 <= i /\ i < 0 + (m - h)
                                    THEN data[h + (i - 0) + 1] ELSE mid[i]]
      BY <2>3, <2>4 DEF CopyIn
    <2>6. QED  BY <1>0, <2>2, <2>5
  <1>5. buffer' \in [Index -> Byte]
    <2>1. ASSUME NEW i \in Index, i < m - h PROVE data[h + i + 1] \in Byte
      <3>1. h + i + 1 \in 1 .. m  BY <1>0, <2>1
      <3>2. QED  BY <1>0, <3>1
    <2>2. ASSUME NEW i \in Index, end <= i PROVE data[i - end + 1] \in Byte
      <3>1. i - end + 1 \in 1 .. m  BY <1>0, <2>2
      <3>2. QED  BY <1>0, <3>1
    <2> HIDE DEF h, m
    <2>3. QED  BY <1>0, <1>4, <2>1, <2>2
  <1>6. ASSUME NEW j \in 1 .. m
        PROVE  buffer'[Cell(end, j)] = data[j]
    <2>1. CASE end + j - 1 < length
      <3>1. /\ Cell(end, j) = end + j - 1 /\ end + j - 1 \in Index
            /\ ~(end + j - 1 < m - h) /\ end <= end + j - 1
            /\ (end + j - 1) - end + 1 = j
        BY <1>0, <2>1 DEF Cell
      <3>2. QED  BY <1>4, <3>1
    <2>2. CASE end + j - 1 >= length
      <3>1. /\ Cell(end, j) = end + j - 1 - length
            /\ end + j - 1 - length < m - h /\ end + j - 1 - length \in Index
            /\ h + (end + j - 1 - length) + 1 = j
        BY <1>0, <2>2 DEF Cell
      <3>2. QED  BY <1>4, <3>1
    <2>3. QED  BY <2>1, <2>2, <1>0
  <1>7. ASSUME NEW c \in Index,
               \A j \in 1 .. m  : c # Cell(end, j)
        PROVE  buffer'[c] = buffer[c]
    <2>1. ~(c < m - h)
      <3>1. SUFFICES ASSUME c < m - h PROVE FALSE  OBVIOUS
      <3>2. h + c + 1 \in 1 .. m /\ Cell(end, h + c + 1) = c
        BY <1>0, <3>1 DEF Cell
      <3>3. QED  BY <1>7, <3>2
    <2>2. ~(end <= c)
      <3>1. SUFFICES ASSUME end <= c PROVE FALSE  OBVIOUS
      <3>2. c - end + 1 \in 1 .. m /\ Cell(end, c - end + 1) = c
        BY <1>0, <3>1 DEF Cell
      <3>3. QED  BY <1>7, <3>2
    <2>3. QED  BY <1>0, <1>4, <2>1, <2>2
  <1>8. end' = Cell(end, m + 1)  BY <1>0, <1>3 DEF Cell
  <1>9. QED  BY <1>5, <1>6, <1>7, <1>8 DEF Stored

-----------------------------------------------------------------------------
\* A write that is taken appends its bytes to the held ones.
LEMMA StoredAppends ==
  ASSUME TypeOK, NEW data \in Requests, Stored(data), start' = start,
         Len(data) <= rb_get_space_free
  PROVE  /\ end' \in Index
         /\ rb_get_space_used' = rb_get_space_used + Len(data)
         /\ Held' = Held \o data
  <1> DEFINE m == Len(data)
             u == rb_get_space_used
             v == rb_get_space_used'
  <1>1. /\ length \in Nat \ {0} /\ Index = 0 .. length - 1 /\ Cap = length - 1
        /\ start \in 0 .. length - 1 /\ end \in 0 .. length - 1
        /\ m \in Nat /\ u \in 0 .. Cap /\ u + m <= Cap
        /\ data \in Seq(Byte)
    BY Lengths, UsedFree, RequestIsSeq, RingAssumption DEF TypeOK, length
  <1>2. end' = Cell(end, m + 1)  BY DEF Stored
  <1>3. end' \in Index  BY <1>1, <1>2 DEF Cell
  <1>4. v = u + m
    BY <1>1, <1>2 DEF Cell, rb_get_space_used
  <1>5. ASSUME NEW i \in 1 .. u
        PROVE  buffer'[Cell(start, i)] = buffer[Cell(start, i)]
    <2>1. Cell(start, i) \in Index  BY <1>1 DEF Cell
    <2>2. \A j \in 1 .. m : Cell(start, i) # Cell(end, j)
      BY <1>1 DEF Cell, rb_get_space_used
    <2>3. QED  BY <2>1, <2>2 DEF Stored
  <1>6. ASSUME NEW i \in u + 1 .. u + m
        PROVE  buffer'[Cell(start, i)] = data[i - u]
    <2>1. i - u \in 1 .. m  BY <1>1
    <2>2. Cell(start, i) = Cell(end, i - u)
      BY <1>1 DEF Cell, rb_get_space_used
    <2>3. QED  BY <2>1, <2>2 DEF Stored
  <1>7. /\ Held = HeldOf(buffer, start, u)
        /\ Held' = HeldOf(buffer', start, v)
    BY DEF Held, HeldOf
  <1> HIDE DEF m, u, v
  <1>8. /\ Held \in Seq(Byte) /\ Len(Held) = u
        /\ \A i \in 1 .. u : Held[i] = buffer[Cell(start, i)]
    <2>1. buffer \in [Index -> Byte] /\ u \in 0 .. Cap /\ start \in Index
      BY <1>1 DEF TypeOK
    <2>2. QED  BY <2>1, <1>7, HeldOfFacts
  <1>9. /\ Held' \in Seq(Byte) /\ Len(Held') = u + m
        /\ \A i \in 1 .. u + m : Held'[i] = buffer'[Cell(start, i)]
    <2>1. buffer' \in [Index -> Byte] /\ u + m \in 0 .. Cap /\ start \in Index
      BY <1>1 DEF Stored
    <2>2. QED  BY <2>1, <1>4, <1>7, HeldOfFacts
  <1>10. /\ Held \o data \in Seq(Byte) /\ Len(Held \o data) = u + m
         /\ \A i \in 1 .. u + m :
              (Held \o data)[i] = IF i <= u THEN Held[i] ELSE data[i - u]
    BY <1>1, <1>8, ConcatProperties DEF m
  <1>11. \A i \in 1 .. u + m : Held'[i] = (Held \o data)[i]
    <2> TAKE i \in 1 .. u + m
    <2>1. CASE i <= u
      <3>1. i \in 1 .. u  BY <1>1, <2>1
      <3>2. QED  BY <2>1, <3>1, <1>5, <1>8, <1>9, <1>10
    <2>2. CASE ~(i <= u)
      <3>1. i \in u + 1 .. u + m  BY <1>1, <2>2
      <3>2. QED  BY <2>2, <3>1, <1>6, <1>9, <1>10
    <2>3. QED  BY <2>1, <2>2
  <1>12. Held' = Held \o data
    BY <1>9, <1>10, <1>11, SeqEqual
  <1>13. QED  BY <1>3, <1>4, <1>12 DEF m, u, v

\* A read removes the bytes it returns from the front of the held ones, and
\* an emptied ring has its indices back at 0.
LEMMA ReadDrops ==
  ASSUME TypeOK, NEW k \in 0 .. rb_get_space_used, UNCHANGED buffer,
         \/ Advanced(k) = end /\ start' = 0 /\ end' = 0
         \/ Advanced(k) # end /\ start' = Advanced(k) /\ end' = end
  PROVE  /\ start' \in Index /\ end' \in Index
         /\ start' = end' => start' = 0
         /\ Held' = SubSeq(Held, k + 1, Len(Held))
         /\ Gather(k) = SubSeq(Held, 1, k)
         /\ Len(Held) = rb_get_space_used
  <1> DEFINE u == rb_get_space_used
             v == rb_get_space_used'
  <1>1. /\ length \in Nat \ {0} /\ Index = 0 .. length - 1 /\ Cap = length - 1
        /\ start \in 0 .. length - 1 /\ end \in 0 .. length - 1
        /\ u \in 0 .. Cap /\ k \in 0 .. u
        /\ buffer \in [Index -> Byte] /\ buffer' = buffer
    BY Lengths, UsedFree, RingAssumption DEF TypeOK, length
  <1>2. Advanced(k) = Cell(start, k + 1) /\ Advanced(k) \in Index
    BY AdvancedIsCell
  <1>3. start' \in Index /\ end' \in Index
    BY <1>1, <1>2
  <1>4. v = u - k
    BY <1>1, <1>2 DEF Cell, rb_get_space_used
  <1>5. \A i \in 1 .. u - k : Cell(start', i) = Cell(start, k + i)
    BY <1>1, <1>2 DEF Cell, rb_get_space_used
  <1>6. /\ Held = HeldOf(buffer, start, u)
        /\ Held' = HeldOf(buffer', start', v)
    BY DEF Held, HeldOf
  <1>7. start' = end' => start' = 0
    OBVIOUS
  <1> HIDE DEF u, v
  <1>8. /\ Held \in Seq(Byte) /\ Len(Held) = u
        /\ \A i \in 1 .. u : Held[i] = buffer[Cell(start, i)]
    <2>1. buffer \in [Index -> Byte] /\ u \in 0 .. Cap /\ start \in Index
      BY <1>1
    <2>2. QED  BY <2>1, <1>6, HeldOfFacts
  <1>9. /\ Held' \in Seq(Byte) /\ Len(Held') = u - k
        /\ \A i \in 1 .. u - k : Held'[i] = buffer[Cell(start', i)]
    <2>1. buffer' \in [Index -> Byte] /\ v \in 0 .. Cap /\ start' \in Index
      BY <1>1, <1>3, <1>4
    <2>2. /\ Held' \in Seq(Byte) /\ Len(Held') = v
          /\ \A i \in 1 .. v : Held'[i] = buffer'[Cell(start', i)]
      BY <2>1, <1>6, HeldOfFacts
    <2>3. QED  BY <2>2, <1>1, <1>4
  <1>10. Held' = SubSeq(Held, k + 1, Len(Held))
    <2> DEFINE t == SubSeq(Held, k + 1, u)
    <2>1. \A i \in k + 1 .. u : Held[i] \in Byte
      BY <1>1, <1>8, ElementOfSeq
    <2>2. /\ t \in Seq(Byte) /\ Len(t) = u - k
          /\ \A i \in 1 .. u - k : t[i] = Held[k + i]
      <3>1. /\ t \in Seq(Byte)
            /\ Len(t) = IF k + 1 <= u THEN u - (k + 1) + 1 ELSE 0
            /\ \A i \in 1 .. u - (k + 1) + 1 : t[i] = Held[(k + 1) + i - 1]
        BY <1>1, <2>1, SubSeqProperties
      <3> HIDE DEF t
      <3>3. Len(t) = u - k  BY <1>1, <3>1
      <3>4. ASSUME NEW i \in 1 .. u - k PROVE t[i] = Held[k + i]
        <4>1. i \in 1 .. u - (k + 1) + 1  BY <1>1
        <4>2. t[i] = Held[(k + 1) + i - 1]  BY <3>1, <4>1
        <4>3. (k + 1) + i - 1 = k + i  BY <1>1
        <4>4. QED  BY <4>2, <4>3
      <3>5. QED  BY <3>1, <3>3, <3>4
    <2> HIDE DEF t
    <2>3. \A i \in 1 .. u - k : Held'[i] = t[i]
      <3> TAKE i \in 1 .. u - k
      <3>1. k + i \in 1 .. u  BY <1>1
      <3>2. QED  BY <3>1, <2>2, <1>5, <1>8, <1>9
    <2>4. Held' = t  BY <2>2, <2>3, <1>9, SeqEqual
    <2>5. QED  BY <2>4, <1>8 DEF t
  <1>11. Gather(k) = SubSeq(Held, 1, k)
    <2> DEFINE t == SubSeq(Held, 1, k)
    <2>1. \A i \in 1 .. k : Held[i] \in Byte
      BY <1>1, <1>8, ElementOfSeq
    <2>2. /\ t \in Seq(Byte) /\ Len(t) = k
          /\ \A i \in 1 .. k : t[i] = Held[i]
      <3>1. /\ t \in Seq(Byte)
            /\ Len(t) = IF 1 <= k THEN k - 1 + 1 ELSE 0
            /\ \A i \in 1 .. k - 1 + 1 : t[i] = Held[1 + i - 1]
        BY <1>1, <2>1, SubSeqProperties
      <3> HIDE DEF t
      <3>2. QED  BY <1>1, <3>1
    <2> HIDE DEF t
    <2>3. /\ Gather(k) \in Seq(Byte) /\ Len(Gather(k)) = k
          /\ \A i \in 1 .. k : Gather(k)[i] = buffer[Cell(start, i)]
      BY GatherIsHeld
    <2>4. \A i \in 1 .. k : Gather(k)[i] = t[i]
      <3> TAKE i \in 1 .. k
      <3>1. i \in 1 .. u  BY <1>1
      <3>2. QED  BY <3>1, <1>8, <2>2, <2>3
    <2>5. Gather(k) = t  BY <2>2, <2>3, <2>4, SeqEqual
    <2>6. QED  BY <2>5 DEF t
  <1>12. QED  BY <1>3, <1>7, <1>8, <1>10, <1>11 DEF u

-----------------------------------------------------------------------------
\* The indices stay inside the allocation, every cell holds a byte and no
\* result is out of range, whatever calls rb_write, rb_read, rb_dump and
\* rb_cleanup are made in.
THEOREM RingTypeCorrect == Spec => []TypeOK
  <1>1. Init => TypeOK
    <2>1. Zero \in Byte  BY RingAssumption DEF Zero
    <2>2. QED  BY <2>1, RingAssumption DEF Init, rb_create, TypeOK, Index
  <1>2. TypeOK /\ [Next]_vars => TypeOK'
    <2> SUFFICES ASSUME TypeOK, [Next]_vars PROVE TypeOK'
      OBVIOUS
    <2> DEFINE u == rb_get_space_used
    <2>0. u \in 0 .. Cap /\ 0 \in Index /\ Cap \in Nat /\ MaxReq \in Nat
      BY UsedFree, RingAssumption DEF Index
    <2>1. ASSUME NEW data \in Requests, rb_write(data) PROVE TypeOK'
      <3>1. Len(data) \in 0 .. MaxReq  BY RequestIsSeq
      <3>2. CASE WriteRefused(data)
        BY <2>1, <3>2, <2>0 DEF rb_write, WriteRefused, TypeOK
      <3>3. CASE WriteWrapped(data) \/ WriteStraight(data)
        <4>1. Stored(data) /\ ret' = Len(data) /\ Len(data) <= rb_get_space_free
          BY <3>3, StraightStores, WrappedStores DEF WriteWrapped, WriteStraight
        <4>2. end' \in Index /\ buffer' \in [Index -> Byte] /\ start' = start
          BY <4>1, <2>1, StoredAppends DEF rb_write, Stored
        <4>3. QED  BY <2>1, <2>0, <3>1, <4>1, <4>2 DEF rb_write, TypeOK
      <3>4. QED  BY <2>1, <3>2, <3>3 DEF rb_write
    <2>2. ASSUME NEW n \in 0 .. MaxReq, rb_read(n) PROVE TypeOK'
      <3>1. PICK k \in 0 .. u : k <= n /\ out' = Gather(k) /\ ret' = k /\ UNCHANGED buffer
               /\ \/ Advanced(k) = end /\ start' = 0 /\ end' = 0
                  \/ Advanced(k) # end /\ start' = Advanced(k) /\ end' = end
        BY <2>2, <2>0 DEF rb_read
      <3>2. start' \in Index /\ end' \in Index  BY <3>1, ReadDrops
      <3>3. out' \in Seq(Byte)  BY <3>1, GatherIsHeld
      <3>4. QED  BY <2>0, <3>1, <3>2, <3>3 DEF TypeOK
    <2>3. CASE rb_dump
      <3>1. out' \in Seq(Byte)  BY <2>3, <2>0, GatherIsHeld DEF rb_dump
      <3>2. QED  BY <2>3, <2>0, <3>1 DEF rb_dump, TypeOK
    <2>4. CASE rb_cleanup
      BY <2>4, <2>0 DEF rb_cleanup, TypeOK
    <2>5. CASE UNCHANGED vars
      BY <2>5 DEF vars, TypeOK
    <2>6. QED  BY <2>1, <2>2, <2>3, <2>4, <2>5 DEF Next
  <1>3. QED  BY <1>1, <1>2, PTL DEF Spec

\* An emptied ring starts again at cell 0: the reset rb_read makes.
THEOREM RingEmptyIsReset == Spec => []EmptyIsReset
  <1>1. Init => EmptyIsReset
    BY DEF Init, rb_create, EmptyIsReset
  <1>2. TypeOK /\ EmptyIsReset /\ [Next]_vars => EmptyIsReset'
    <2> SUFFICES ASSUME TypeOK, EmptyIsReset, [Next]_vars PROVE EmptyIsReset'
      OBVIOUS
    <2>1. ASSUME NEW data \in Requests, rb_write(data) PROVE EmptyIsReset'
      <3>1. CASE WriteRefused(data)
        BY <2>1, <3>1 DEF rb_write, WriteRefused, EmptyIsReset
      <3>2. CASE WriteWrapped(data) \/ WriteStraight(data)
        <4>1. Stored(data) /\ Len(data) <= rb_get_space_free /\ start' = start
          BY <2>1, <3>2, StraightStores, WrappedStores
          DEF rb_write, WriteWrapped, WriteStraight
        <4>2. /\ end' \in Index
              /\ rb_get_space_used' = rb_get_space_used + Len(data)
          BY <4>1, StoredAppends
        <4>3. Len(data) \in Nat  BY RequestIsSeq, RingAssumption
        <4>4. SUFFICES ASSUME start' = end' PROVE start = end
          BY <4>1 DEF EmptyIsReset
        <4>5. rb_get_space_used' = 0
          BY <4>1, <4>2, <4>4, Lengths DEF rb_get_space_used, TypeOK
        <4>6. rb_get_space_used = 0
          BY <4>2, <4>3, <4>5, UsedFree, RingAssumption
        <4>7. QED  BY <4>6, Lengths DEF rb_get_space_used, TypeOK
      <3>3. QED  BY <2>1, <3>1, <3>2 DEF rb_write
    <2>2. ASSUME NEW n \in 0 .. MaxReq, rb_read(n) PROVE EmptyIsReset'
      BY <2>2 DEF rb_read, EmptyIsReset
    <2>3. CASE rb_dump
      BY <2>3 DEF rb_dump, EmptyIsReset
    <2>4. CASE rb_cleanup
      BY <2>4 DEF rb_cleanup, EmptyIsReset
    <2>5. CASE UNCHANGED vars
      BY <2>5 DEF vars, EmptyIsReset
    <2>6. QED  BY <2>1, <2>2, <2>3, <2>4, <2>5 DEF Next
  <1>3. QED  BY <1>1, <1>2, RingTypeCorrect, PTL DEF Spec

\* libringbuffer is a byte queue: every call of it, wrapped or not, is the
\* call of ByteFifo on the bytes the ring holds.
THEOREM RingImplementsFifo == Spec => ImplementsFifo
  <1>1. Init => Fifo!Init
    <2>1. ASSUME Init PROVE Held = <<>> /\ call = <<"create">> /\ ret = 0 /\ out = <<>>
      <3>1. rb_get_space_used = 0
        BY <2>1 DEF Init, rb_create, rb_get_space_used
      <3>2. QED  BY <2>1, <3>1 DEF Init, rb_create, Held
    <2>2. QED  BY <2>1 DEF Fifo!Init
  <1>2. TypeOK /\ [Next]_vars => [Fifo!Next]_(Fifo!vars)
    <2> SUFFICES ASSUME TypeOK, [Next]_vars PROVE [Fifo!Next]_(Fifo!vars)
      OBVIOUS
    <2> DEFINE u == rb_get_space_used
    <2>0. /\ u \in 0 .. Cap /\ rb_get_space_free = Cap - u
          /\ Cap \in Nat /\ MaxReq \in Nat
      BY UsedFree, RingAssumption
    <2>a. Held \in Seq(Byte) /\ Len(Held) = u
      <3>1. Held = HeldOf(buffer, start, u)  BY DEF Held, HeldOf
      <3>2. buffer \in [Index -> Byte] /\ start \in Index  BY DEF TypeOK
      <3> HIDE DEF u
      <3>3. QED  BY <3>1, <3>2, <2>0, HeldOfFacts
    <2>1. ASSUME NEW data \in Requests, rb_write(data) PROVE Fifo!Next
      <3>1. Len(data) \in Nat  BY RequestIsSeq, RingAssumption
      <3>2. CASE WriteRefused(data)
        <4>1. Held' = Held
          BY <2>1, <3>2 DEF rb_write, WriteRefused, Held, rb_get_space_used
        <4>2. Len(Held) + Len(data) > Cap
          BY <3>2, <3>1, <2>0, <2>a DEF WriteRefused
        <4>3. Fifo!Write(data)
          BY <2>1, <3>2, <4>1, <4>2 DEF rb_write, WriteRefused, Fifo!Write
        <4>4. QED  BY <4>3 DEF Fifo!Next, Fifo!Requests, Requests
      <3>3. CASE WriteWrapped(data) \/ WriteStraight(data)
        <4>1. /\ Stored(data) /\ ret' = Len(data) /\ start' = start
              /\ Len(data) <= rb_get_space_free /\ out' = <<>>
          BY <2>1, <3>3, StraightStores, WrappedStores
          DEF rb_write, WriteWrapped, WriteStraight
        <4>2. Held' = Held \o data  BY <4>1, StoredAppends
        <4>3. Len(Held) + Len(data) <= Cap  BY <4>1, <3>1, <2>0, <2>a
        <4>4. Fifo!Write(data)  BY <2>1, <4>1, <4>2, <4>3 DEF rb_write, Fifo!Write
        <4>5. QED  BY <4>4 DEF Fifo!Next, Fifo!Requests, Requests
      <3>4. QED  BY <2>1, <3>2, <3>3 DEF rb_write
    <2>2. ASSUME NEW n \in 0 .. MaxReq, rb_read(n) PROVE Fifo!Next
      <3> DEFINE k == IF n > u THEN u ELSE n
      <3>1. /\ k \in 0 .. u /\ out' = Gather(k) /\ ret' = k /\ UNCHANGED buffer
            /\ call' = <<"read", n>>
            /\ \/ Advanced(k) = end /\ start' = 0 /\ end' = 0
               \/ Advanced(k) # end /\ start' = Advanced(k) /\ end' = end
        BY <2>2, <2>0 DEF rb_read
      <3>2. k = Fifo!Taken(n)  BY <2>0, <2>a DEF Fifo!Taken
      <3> HIDE DEF k
      <3>3. /\ Held' = SubSeq(Held, k + 1, Len(Held))
            /\ Gather(k) = SubSeq(Held, 1, k)
        BY <3>1, ReadDrops
      <3>4. Fifo!Read(n)  BY <3>1, <3>2, <3>3 DEF Fifo!Read
      <3>5. QED  BY <3>4 DEF Fifo!Next
    <2>3. ASSUME rb_dump PROVE Fifo!Next
      <3>1. Held' = Held
        BY <2>3 DEF rb_dump, Held, rb_get_space_used
      <3>2. out' = Held
        <4>1. /\ Gather(u) \in Seq(Byte) /\ Len(Gather(u)) = u
              /\ \A i \in 1 .. u : Gather(u)[i] = buffer[Cell(start, i)]
          BY <2>0, GatherIsHeld
        <4>2. \A i \in 1 .. u : Held[i] = buffer[Cell(start, i)]
          <5>1. Held = HeldOf(buffer, start, u)  BY DEF Held, HeldOf
          <5>2. buffer \in [Index -> Byte] /\ start \in Index  BY DEF TypeOK
          <5> HIDE DEF u
          <5>3. QED  BY <5>1, <5>2, <2>0, HeldOfFacts
        <4>3. out' = Gather(u)  BY <2>3 DEF rb_dump
        <4> HIDE DEF u
        <4>4. QED  BY <4>1, <4>2, <4>3, <2>a, SeqEqual
      <3>3. Fifo!Dump  BY <2>3, <2>a, <3>1, <3>2 DEF rb_dump, Fifo!Dump
      <3>4. QED  BY <3>3 DEF Fifo!Next
    <2>4. ASSUME rb_cleanup PROVE Fifo!Next
      <3>1. Held' = <<>>
        BY <2>4 DEF rb_cleanup, Held, rb_get_space_used
      <3>2. QED  BY <2>4, <3>1 DEF rb_cleanup, Fifo!Cleanup, Fifo!Next
    <2>5. ASSUME UNCHANGED vars PROVE UNCHANGED Fifo!vars
      BY <2>5 DEF vars, Fifo!vars, Held, rb_get_space_used
    <2>6. QED  BY <2>1, <2>2, <2>3, <2>4, <2>5 DEF Next
  <1>3. QED  BY <1>1, <1>2, RingTypeCorrect, PTL DEF Spec, ImplementsFifo, Fifo!Spec
=============================================================================
