---------------------------- MODULE BufferProofs ----------------------------
(***************************************************************************)
(* For every size and every set of bytes, the buffer of buffer.c keeps its *)
(* pointers ordered and implements the queue of ByteQueue.                 *)
(***************************************************************************)
EXTENDS Buffer, SequenceTheorems, TLAPS

\* The inductive invariant: the array has its type and the pointers are ordered.
IInv == TypeOK /\ PointersOrdered

------------------------------------------------------------------------------
(* Windows: what the bytes between two offsets are, and how the operations   *)
(* of buffer.c change them.                                                  *)

\* The bytes between two offsets of the array are a sequence of bytes.
LEMMA WindowType ==
  ASSUME NEW d \in Array, NEW r \in Nat, NEW w \in Nat, r <= w, w <= Size
  PROVE  /\ Window(d, r, w) \in Seq(Octets)
         /\ Len(Window(d, r, w)) = w - r
         /\ \A i \in 1..(w - r) : Window(d, r, w)[i] = d[r + i - 1]
<1>1. \A i \in 1..(w - r) : r + i - 1 \in 0..(Size - 1)
  BY SizeAssumption
<1>2. \A i \in 1..(w - r) : d[r + i - 1] \in Octets
  BY <1>1 DEF Array
<1>3. w - r \in Nat
  OBVIOUS
<1>4. Window(d, r, w) \in [1..(w - r) -> Octets]
  BY <1>2 DEF Window
<1>5. Window(d, r, w) \in Seq(Octets)
  BY <1>3, <1>4
<1>6. Len(Window(d, r, w)) = w - r
  BY <1>3, <1>4, <1>5, LenProperties
<1> QED
  BY <1>5, <1>6 DEF Window

\* Octets stored at the write pointer are appended to the queue (recv into
\* buffer_write_ptr, buffer_write_adv).
LEMMA WindowAppend ==
  ASSUME NEW d \in Array, NEW e \in Array, NEW r \in Nat, NEW w \in Nat,
         NEW s \in Seq(Octets), r <= w, w + Len(s) <= Size,
         \A i \in 0..(Size - 1) : i < w => e[i] = d[i],
         \A i \in 1..Len(s) : e[w + i - 1] = s[i]
  PROVE  Window(e, r, w + Len(s)) = Window(d, r, w) \o s
<1> DEFINE n == Len(s)
           q == Window(d, r, w)
           t == Window(e, r, w + n)
<1>1. n \in Nat
  BY LenProperties
<1> HIDE DEF n
<1>2. /\ q \in Seq(Octets) /\ Len(q) = w - r
      /\ \A i \in 1..(w - r) : q[i] = d[r + i - 1]
  <2>1. w <= Size
    BY <1>1, SizeAssumption DEF n
  <2> QED
    BY <2>1, WindowType
<1>3. /\ t \in Seq(Octets) /\ Len(t) = (w + n) - r
      /\ \A i \in 1..((w + n) - r) : t[i] = e[r + i - 1]
  <2>1. w + n \in Nat /\ r <= w + n /\ w + n <= Size
    BY <1>1 DEF n
  <2> QED
    BY <2>1, WindowType
<1> HIDE DEF q, t
<1>4. /\ q \o s \in Seq(Octets)
      /\ Len(q \o s) = (w + n) - r
      /\ \A i \in 1..((w + n) - r) : (q \o s)[i] = IF i <= w - r THEN q[i] ELSE s[i - (w - r)]
  <2>1. Len(q) + Len(s) = (w + n) - r
    BY <1>1, <1>2 DEF n
  <2>2. /\ q \o s \in Seq(Octets)
        /\ Len(q \o s) = Len(q) + Len(s)
        /\ \A i \in 1..(Len(q) + Len(s)) :
             (q \o s)[i] = IF i <= Len(q) THEN q[i] ELSE s[i - Len(q)]
    BY <1>2, ConcatProperties
  <2> QED
    BY <1>2, <2>1, <2>2
<1>5. ASSUME NEW i \in 1..((w + n) - r)
      PROVE  t[i] = (q \o s)[i]
  <2>1. CASE i <= w - r
    <3>1. r + i - 1 \in 0..(Size - 1) /\ r + i - 1 < w /\ i \in 1..(w - r)
      BY <1>1, <2>1, SizeAssumption DEF n
    <3>2. e[r + i - 1] = d[r + i - 1]
      BY <3>1
    <3> QED
      BY <1>2, <1>3, <1>4, <2>1, <3>1, <3>2
  <2>2. CASE ~(i <= w - r)
    <3>1. i - (w - r) \in 1..n /\ w + (i - (w - r)) - 1 = r + i - 1
      BY <1>1, <2>2
    <3>2. e[r + i - 1] = s[i - (w - r)]
      BY <3>1 DEF n
    <3> QED
      BY <1>3, <1>4, <2>2, <3>2
  <2> QED
    BY <2>1, <2>2
<1>6. t = q \o s
  BY <1>3, <1>4, <1>5, SeqEqual
<1> QED
  BY <1>6 DEF q, t, n

\* Advancing the read pointer takes bytes from the front of the queue
\* (buffer_read_adv, and command_swrite's own addition).
LEMMA WindowDrop ==
  ASSUME NEW d \in Array, NEW r \in Nat, NEW w \in Nat, NEW n \in Nat,
         r + n <= w, w <= Size
  PROVE  Window(d, r + n, w) = SubSeq(Window(d, r, w), n + 1, Len(Window(d, r, w)))
<1> DEFINE q == Window(d, r, w)
           t == Window(d, r + n, w)
<1>1. /\ q \in Seq(Octets) /\ Len(q) = w - r
      /\ \A i \in 1..(w - r) : q[i] = d[r + i - 1]
  <2>1. r <= w
    OBVIOUS
  <2> QED
    BY <2>1, WindowType
<1>2. /\ t \in Seq(Octets) /\ Len(t) = w - (r + n)
      /\ \A i \in 1..(w - (r + n)) : t[i] = d[r + n + i - 1]
  <2>1. r + n \in Nat
    OBVIOUS
  <2> QED
    BY <2>1, WindowType
<1>3. /\ SubSeq(q, n + 1, w - r) \in Seq(Octets)
      /\ Len(SubSeq(q, n + 1, w - r)) = w - (r + n)
      /\ \A i \in 1..(w - r - (n + 1) + 1) : SubSeq(q, n + 1, w - r)[i] = q[(n + 1) + i - 1]
  <2>1. \A i \in (n + 1)..(w - r) : q[i] \in Octets
    <3>1. \A i \in (n + 1)..(w - r) : i \in 1..(w - r)
      OBVIOUS
    <3> QED
      BY <1>1, <3>1, ElementOfSeq
  <2>2. n + 1 \in Int /\ w - r \in Int
    OBVIOUS
  <2> HIDE DEF q
  <2>3. /\ SubSeq(q, n + 1, w - r) \in Seq(Octets)
        /\ Len(SubSeq(q, n + 1, w - r)) = IF n + 1 <= w - r THEN (w - r) - (n + 1) + 1 ELSE 0
        /\ \A i \in 1..(w - r - (n + 1) + 1) : SubSeq(q, n + 1, w - r)[i] = q[(n + 1) + i - 1]
    BY <2>1, <2>2, SubSeqProperties
  <2> QED
    BY <2>3
<1>4. ASSUME NEW i \in 1..(w - (r + n))
      PROVE  t[i] = SubSeq(q, n + 1, w - r)[i]
  <2>1. i \in 1..(w - r - (n + 1) + 1) /\ (n + 1) + i - 1 \in 1..(w - r)
        /\ r + ((n + 1) + i - 1) - 1 = r + n + i - 1
    OBVIOUS
  <2> HIDE DEF q, t
  <2> QED
    BY <1>1, <1>2, <1>3, <2>1
<1> HIDE DEF q, t
<1>5. t = SubSeq(q, n + 1, w - r)
  BY <1>2, <1>3, <1>4, SeqEqual
<1> QED
  BY <1>1, <1>5 DEF q, t

\* Moving the bytes to the start of the array leaves the queue as it is
\* (buffer_compact).
LEMMA WindowMove ==
  ASSUME NEW d \in Array, NEW e \in Array, NEW r \in Nat, NEW w \in Nat,
         r <= w, w <= Size,
         \A i \in 0..(Size - 1) : i < w - r => e[i] = d[r + i]
  PROVE  Window(e, 0, w - r) = Window(d, r, w)
<1>1. \A i \in 1..(w - r) : e[0 + i - 1] = d[r + i - 1]
  <2>1. \A i \in 1..(w - r) : /\ i - 1 \in 0..(Size - 1) /\ i - 1 < w - r
                              /\ 0 + i - 1 = i - 1 /\ r + (i - 1) = r + i - 1
    BY SizeAssumption
  <2> QED
    BY <2>1
<1>2. (w - r) - 0 = w - r
  OBVIOUS
<1> QED
  BY <1>1, <1>2 DEF Window
------------------------------------------------------------------------------
(* Safety: the pointers stay ordered.                                        *)

\* A chunk is a non-empty sequence of at most Size bytes.
LEMMA ChunkType ==
  ASSUME NEW s \in Chunks
  PROVE  s \in Seq(Octets) /\ Len(s) \in 1..Size /\ s \in [1..Len(s) -> Octets]
<1>1. PICK n \in 1..Size : s \in [1..n -> Octets]
  BY DEF Chunks
<1>2. n \in Nat
  BY SizeAssumption
<1>3. s \in Seq(Octets)
  BY <1>1, <1>2
<1>4. Len(s) = n
  BY <1>1, <1>2, <1>3, LenProperties
<1> QED
  BY <1>1, <1>3, <1>4

\* The array stays an array when a chunk is stored in it.
LEMMA ReceivedType ==
  ASSUME TypeOK, NEW s \in Chunks
  PROVE  /\ received(s) \in Array
         /\ \A i \in 0..(Size - 1) : i < write => received(s)[i] = data[i]
         /\ write + Len(s) <= Size =>
              \A i \in 1..Len(s) : received(s)[write + i - 1] = s[i]
<1>1. s \in Seq(Octets) /\ Len(s) \in 1..Size /\ s \in [1..Len(s) -> Octets]
  BY ChunkType
<1>2. write \in Nat /\ write <= Size /\ data \in [0..(Size - 1) -> Octets] /\ Len(s) \in Nat
  BY <1>1, SizeAssumption DEF TypeOK, Array
<1>3. ASSUME NEW i \in 0..(Size - 1)
      PROVE  (IF i >= write /\ i < write + Len(s) THEN s[i - write + 1] ELSE data[i]) \in Octets
  <2>1. CASE i >= write /\ i < write + Len(s)
    <3>1. i - write + 1 \in 1..Len(s)
      BY <1>2, <2>1
    <3> QED
      BY <1>1, <2>1, <3>1
  <2>2. CASE ~(i >= write /\ i < write + Len(s))
    BY <1>2, <2>2
  <2> QED
    BY <2>1, <2>2
<1>4. received(s) \in Array
  BY <1>3 DEF received, Array
<1>5. \A i \in 0..(Size - 1) : i < write => received(s)[i] = data[i]
  BY <1>2, SizeAssumption DEF received
<1>6. ASSUME write + Len(s) <= Size, NEW i \in 1..Len(s)
      PROVE  received(s)[write + i - 1] = s[i]
  <2>1. /\ write + i - 1 \in 0..(Size - 1)
        /\ write + i - 1 >= write /\ write + i - 1 < write + Len(s)
        /\ (write + i - 1) - write + 1 = i
    BY <1>2, <1>6, SizeAssumption
  <2> QED
    BY <2>1 DEF received
<1> QED
  BY <1>4, <1>5, <1>6

\* What buffer_compact leaves when the read pointer is r.
LEMMA CompactAt ==
  ASSUME TypeOK, NEW r \in Nat, r <= write, compact_at(r)
  PROVE  /\ data' \in Array /\ read' = 0 /\ write' = write - r
         /\ Window(data', read', write') = Window(data, r, write)
<1>1. write \in Nat /\ write <= Size /\ data \in Array
  BY SizeAssumption DEF TypeOK
<1>2. CASE r = 0
  BY <1>1, <1>2 DEF compact_at
<1>3. CASE r # 0 /\ r = write
  <2>1. data' = data /\ read' = 0 /\ write' = 0 /\ write - r = 0
    BY <1>1, <1>3 DEF compact_at
  <2>2. 0 - 0 = write - r
    BY <1>1, <1>3
  <2>3. \A i \in 1..(write - r) : data[0 + i - 1] = data[r + i - 1]
    BY <1>1, <1>3
  <2>4. Window(data, 0, 0) = Window(data, r, write)
    BY <2>2, <2>3 DEF Window
  <2> QED
    BY <1>1, <2>1, <2>4
<1>4. CASE r # 0 /\ r # write
  <2>1. data' = compacted(r) /\ read' = 0 /\ write' = write - r
    BY <1>4 DEF compact_at
  <2>2. \A i \in 0..(Size - 1) : i < write - r => r + i \in 0..(Size - 1)
    BY <1>1, SizeAssumption
  <2>3. compacted(r) \in Array
    BY <1>1, <2>2 DEF compacted, Array
  <2>4. \A i \in 0..(Size - 1) : i < write - r => compacted(r)[i] = data[r + i]
    BY DEF compacted
  <2>5. Window(compacted(r), 0, write - r) = Window(data, r, write)
    BY <1>1, <2>3, <2>4, WindowMove
  <2> QED
    BY <2>1, <2>3, <2>5
<1> QED
  BY <1>2, <1>3, <1>4

\* Every operation keeps the invariant and is a step of the queue, or none.
QueueStep == IInv' /\ (Abstract!Next \/ Content' = Content)

\* The types and bounds of IInv, in the form the steps below use.
LEMMA Bounds ==
  ASSUME IInv
  PROVE  /\ data \in Array /\ read \in Nat /\ write \in Nat
         /\ read <= write /\ write <= Size
         /\ Content \in Seq(Octets) /\ Len(Content) = write - read
<1>1. /\ data \in Array /\ read \in Nat /\ write \in Nat
      /\ read <= write /\ write <= Size
  BY SizeAssumption DEF IInv, TypeOK, PointersOrdered
<1> QED
  BY <1>1, WindowType DEF Content

\* IInv holds again after a step with such an outcome.
LEMMA Rebound ==
  ASSUME data' \in Array, read' \in Nat, write' \in Nat, read' <= write', write' <= Size
  PROVE  IInv'
BY SizeAssumption DEF IInv, TypeOK, PointersOrdered

\* Advancing the read pointer by n, with or without compaction, takes n bytes
\* from the front.
LEMMA Advance ==
  ASSUME IInv, NEW n \in Nat, n <= write - read,
         Content' = Window(data, read + n, write)
  PROVE  Abstract!Next \/ Content' = Content
<1>1. /\ data \in Array /\ read \in Nat /\ write \in Nat
      /\ read <= write /\ write <= Size
      /\ Content \in Seq(Octets) /\ Len(Content) = write - read
  BY Bounds
<1>2. CASE n = 0
  BY <1>1, <1>2 DEF Content
<1>3. CASE n # 0
  <2>1. n \in 1..Len(Content) /\ read + n <= write
    BY <1>1, <1>3
  <2>2. Content' = SubSeq(Content, n + 1, Len(Content))
    BY <1>1, <2>1, WindowDrop DEF Content
  <2>3. Abstract!Get
    BY <2>1, <2>2 DEF Abstract!Get
  <2> QED
    BY <2>3 DEF Abstract!Next
<1> QED
  BY <1>2, <1>3

\* Storing a chunk and keeping its first k bytes appends them.
LEMMA Store ==
  ASSUME IInv, NEW s \in Chunks, NEW k \in 1..Len(s), Len(s) <= room,
         data' = received(s), write' = write + k, read' = read
  PROVE  QueueStep
<1>1. /\ data \in Array /\ read \in Nat /\ write \in Nat
      /\ read <= write /\ write <= Size
      /\ Content \in Seq(Octets) /\ Len(Content) = write - read
  BY Bounds
<1>2. s \in Seq(Octets) /\ Len(s) \in 1..Size /\ s \in [1..Len(s) -> Octets]
  BY ChunkType
<1>3. /\ k \in Nat /\ k <= Len(s) /\ write + Len(s) <= Size /\ write + k <= Size
      /\ k \in 1..Size /\ read <= write + k
  BY <1>1, <1>2, SizeAssumption DEF room
<1>4. /\ data' \in Array
      /\ \A i \in 0..(Size - 1) : i < write => data'[i] = data[i]
      /\ \A i \in 1..Len(s) : data'[write + i - 1] = s[i]
  BY <1>3, ReceivedType DEF IInv
<1>5. IInv'
  BY <1>1, <1>3, <1>4, Rebound
<1> DEFINE kept == [i \in 1..k |-> s[i]]
<1>6. kept \in [1..k -> Octets] /\ kept \in Seq(Octets) /\ Len(kept) = k
  <2>1. kept \in [1..k -> Octets]
    BY <1>2, <1>3
  <2>2. kept \in Seq(Octets)
    BY <1>3, <2>1
  <2> QED
    BY <1>3, <2>1, <2>2, LenProperties
<1>7. \A i \in 1..Len(kept) : data'[write + i - 1] = kept[i]
  BY <1>3, <1>4, <1>6
<1> HIDE DEF kept
<1>8. Window(data', read, write + Len(kept)) = Window(data, read, write) \o kept
  <2> DEFINE e == data'
  <2>1. /\ data \in Array /\ e \in Array /\ read \in Nat /\ write \in Nat
        /\ kept \in Seq(Octets) /\ read <= write /\ write + Len(kept) <= Size
    BY <1>1, <1>3, <1>4, <1>6
  <2>2. /\ \A i \in 0..(Size - 1) : i < write => e[i] = data[i]
        /\ \A i \in 1..Len(kept) : e[write + i - 1] = kept[i]
    BY <1>4, <1>7
  <2> HIDE DEF e
  <2>3. Window(e, read, write + Len(kept)) = Window(data, read, write) \o kept
    BY ONLY <2>1, <2>2, WindowAppend
  <2> QED
    BY <2>3 DEF e
<1>9. Content' = Content \o kept
  BY <1>6, <1>8 DEF Content
<1>10. Len(Content) + k <= Size
  BY <1>1, <1>3, SizeAssumption
<1>11. Abstract!Put
  BY <1>3, <1>6, <1>9, <1>10 DEF Abstract!Put
<1> QED
  BY <1>5, <1>11 DEF QueueStep, Abstract!Next

\* buffer_read_adv(n).
LEMMA ReadAdv ==
  ASSUME IInv, NEW n \in Nat, buffer_read_adv(n)
  PROVE  QueueStep
<1>1. /\ data \in Array /\ read \in Nat /\ write \in Nat
      /\ read <= write /\ write <= Size
  BY Bounds
<1>2. n <= write - read /\ read + n \in Nat /\ read + n <= write
  BY <1>1 DEF buffer_read_adv, read_limit, pending
<1>3. CASE read + n = write
  <2>1. compact_at(read + n)
    BY <1>3 DEF buffer_read_adv
  <2>2. /\ data' \in Array /\ read' = 0 /\ write' = write - (read + n)
        /\ Window(data', read', write') = Window(data, read + n, write)
    BY <1>2, <2>1, CompactAt DEF IInv
  <2>3. IInv'
    BY <1>1, <1>2, <2>2, SizeAssumption, Rebound
  <2>4. Content' = Window(data, read + n, write)
    BY <2>2 DEF Content
  <2> QED
    BY <1>2, <2>3, <2>4, Advance DEF QueueStep
<1>4. CASE read + n # write
  <2>1. read' = read + n /\ data' = data /\ write' = write
    BY <1>4 DEF buffer_read_adv
  <2>2. IInv'
    BY <1>1, <1>2, <2>1, Rebound
  <2>3. Content' = Window(data, read + n, write)
    BY <2>1 DEF Content
  <2> QED
    BY <1>2, <2>2, <2>3, Advance DEF QueueStep
<1> QED
  BY <1>3, <1>4

\* Every step of the buffer is a step of the queue, and keeps IInv.
LEMMA StepIsQueueStep ==
  ASSUME IInv, [BufferNext]_bufferVars
  PROVE  QueueStep
<1>1. /\ data \in Array /\ read \in Nat /\ write \in Nat
      /\ read <= write /\ write <= Size
      /\ Content \in Seq(Octets) /\ Len(Content) = write - read
  BY Bounds
<1>2. CASE buffer_reset
  <2>1. IInv'
    BY <1>1, <1>2, SizeAssumption, Rebound DEF buffer_reset
  <2>2. Content' = <<>>
    BY <1>2 DEF buffer_reset, Content, Window
  <2> QED
    BY <2>1, <2>2 DEF QueueStep, Abstract!Next, Abstract!Clear
<1>3. CASE buffer_compact
  <2>1. /\ data' \in Array /\ read' = 0 /\ write' = write - read
        /\ Window(data', read', write') = Window(data, read, write)
    BY <1>1, <1>3, CompactAt DEF IInv, buffer_compact
  <2>2. IInv'
    BY <1>1, <2>1, SizeAssumption, Rebound
  <2> QED
    BY <2>1, <2>2 DEF QueueStep, Content
<1>4. ASSUME NEW s \in Chunks, fill(s)
      PROVE  QueueStep
  <2>1. Len(s) \in 1..Len(s)
    BY ChunkType
  <2> QED
    BY <1>4, <2>1, Store DEF fill
<1>5. ASSUME NEW s \in Chunks, NEW kept \in 1..Len(s), fill_and_rewind(s, kept)
      PROVE  QueueStep
  BY <1>5, Store DEF fill_and_rewind
<1>6. ASSUME NEW n \in 0..Size, buffer_read_adv(n)
      PROVE  QueueStep
  BY <1>6, ReadAdv, SizeAssumption
<1>7. ASSUME NEW n \in 0..Size, raw_read_adv(n)
      PROVE  QueueStep
  <2>1. n \in Nat /\ n <= write - read /\ read' = read + n /\ data' = data /\ write' = write
    BY <1>7, SizeAssumption DEF raw_read_adv, read_limit, pending
  <2>2. IInv'
    BY <1>1, <2>1, Rebound
  <2>3. Content' = Window(data, read + n, write)
    BY <2>1 DEF Content
  <2> QED
    BY <2>1, <2>2, <2>3, Advance DEF QueueStep
<1>8. CASE buffer_read
  BY <1>8, ReadAdv DEF buffer_read
<1>9. ASSUME NEW c \in Octets, buffer_write(c)
      PROVE  QueueStep
  <2>1. <<c>> \in [1..1 -> Octets] /\ Len(<<c>>) = 1
    OBVIOUS
  <2>2. <<c>> \in Chunks
    BY <2>1, SizeAssumption DEF Chunks
  <2>3. fill(<<c>>)
    BY <1>9 DEF buffer_write
  <2> QED
    BY <1>4, <2>2, <2>3
<1>10. CASE UNCHANGED bufferVars
  BY <1>10 DEF bufferVars, QueueStep, IInv, TypeOK, PointersOrdered, Content, Window
<1> QED
  BY <1>2, <1>3, <1>4, <1>5, <1>6, <1>7, <1>8, <1>9, <1>10 DEF BufferNext

\* The initial buffer satisfies IInv and is the empty queue.
LEMMA InitIsEmpty == buffer_init => IInv /\ Abstract!Init
<1> SUFFICES ASSUME buffer_init PROVE IInv /\ Abstract!Init
  OBVIOUS
<1>1. IInv
  BY SizeAssumption DEF buffer_init, IInv, TypeOK, PointersOrdered
<1>2. Content = <<>>
  BY DEF buffer_init, Content, Window
<1> QED
  BY <1>1, <1>2 DEF Abstract!Init

\* "R <= W <= limit" (buffer.h) after any sequence of the operations of buffer.c
\* and of the two pointer updates pop3_client_nio.c makes itself.
THEOREM PointersStayOrdered == BufferSpec => []PointersOrdered
<1>1. buffer_init => IInv
  BY InitIsEmpty
<1>2. IInv /\ [BufferNext]_bufferVars => IInv'
  BY StepIsQueueStep DEF QueueStep
<1>3. IInv => PointersOrdered
  BY DEF IInv
<1> QED
  BY <1>1, <1>2, <1>3, PTL DEF BufferSpec

\* The array keeps its size and the pointers stay inside it.
THEOREM BufferTyped == BufferSpec => []TypeOK
<1>1. buffer_init => IInv
  BY InitIsEmpty
<1>2. IInv /\ [BufferNext]_bufferVars => IInv'
  BY StepIsQueueStep DEF QueueStep
<1>3. IInv => TypeOK
  BY DEF IInv
<1> QED
  BY <1>1, <1>2, <1>3, PTL DEF BufferSpec

\* buffer.c implements a bounded first-in first-out queue.
THEOREM BufferImplementsQueue == BufferSpec => IsQueue
<1>1. buffer_init => IInv /\ Abstract!Init
  BY InitIsEmpty
<1>2. IInv /\ [BufferNext]_bufferVars => IInv' /\ [Abstract!Next]_Content
  BY StepIsQueueStep DEF QueueStep
<1> QED
  BY <1>1, <1>2, PTL DEF BufferSpec, IsQueue, Abstract!Spec
============================================================================
