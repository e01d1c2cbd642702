--------------------------- MODULE SamplesProofs ---------------------------
(***************************************************************************)
(* Proofs about Ring and Samples, for every ring size, queue capacity,     *)
(* batch limit and sets of machines and connections, and any number of     *)
(* samples.                                                                *)
(*                                                                         *)
(* The invariant has three parts: the ring against the samples it was      *)
(* given (RingsInv), the order in which samples pass through queue, batch  *)
(* and table (PathInOrder), and where every sample queued before Close is  *)
(* (DueIsAccounted).                                                       *)
(***************************************************************************)
EXTENDS Samples, SequenceTheorems, TLAPS
-----------------------------------------------------------------------------
(* The inductive invariant *)

RingType == [buf : [0..(RingSize - 1) -> Sample \cup {Zero}],
             next : 0..(RingSize - 1), n : 0..RingSize]

\* An index that may have run past the end of the buffer, once.
Wrap(x) == IF x < RingSize THEN x ELSE x - RingSize

\* The ring r after the samples h: counted back from next, the newest come
\* first.
Follows(r, h) ==
  /\ r.n = IF Len(h) < RingSize THEN Len(h) ELSE RingSize
  /\ \A j \in 0..(r.n - 1) : r.buf[Wrap(r.next + RingSize - 1 - j)] = h[Len(h) - j]

RingsInv ==
  /\ ring \in [Machine -> RingType]
  /\ seen \in [Machine -> Seq(Sample)]
  /\ \A m \in Machine : Follows(ring[m], seen[m])

PathTypes ==
  /\ live \subseteq Machine /\ servers \subseteq Machine
  /\ count \in 0..MaxSamples
  /\ pushed \in [Conn -> Sample \cup {Zero}]
  /\ queue \in Seq(Sample) /\ Len(queue) <= QueueCap
  /\ batch \in Seq(Sample) /\ Len(batch) < BatchMax
  /\ table \subseteq Row /\ rows \in Nat
  /\ dropped \subseteq Sample /\ due \subseteq Sample
  /\ closing \in BOOLEAN /\ wpc \in {"run", "drain", "exited"}

\* Of two samples of one connection, s arrived first.
Before(s, t) == s.conn = t.conn => s.id < t.id

\* s arrived before the samples p that are between Push and QueueSample.
Handed(s, p) == \A c \in Conn : p[c] # Zero => Before(s, p[c])

PushedInOrder ==
  \A c \in Conn : pushed[c] # Zero => pushed[c].conn = c /\ pushed[c].id <= count

\* With the batch b and the queue q: of two samples of one connection, the one
\* that is further on its way has the smaller number.
TableInOrder(b, q) ==
  \A x \in table :
    /\ x.row <= rows
    /\ x.sample.id <= count
    /\ \A y \in table : x.row < y.row => Before(x.sample, y.sample)
    /\ \A i \in 1..Len(b) : Before(x.sample, b[i])
    /\ \A i \in 1..Len(q) : Before(x.sample, q[i])
    /\ Handed(x.sample, pushed)

BatchInOrder(b, q) ==
  \A i \in 1..Len(b) :
    /\ b[i].id <= count
    /\ \A j \in 1..Len(b) : i < j => Before(b[i], b[j])
    /\ \A j \in 1..Len(q) : Before(b[i], q[j])
    /\ Handed(b[i], pushed)

QueueInOrder(q) ==
  \A i \in 1..Len(q) :
    /\ q[i].id <= count
    /\ \A j \in 1..Len(q) : i < j => Before(q[i], q[j])
    /\ Handed(q[i], pushed)

PathInOrder ==
  /\ PushedInOrder
  /\ TableInOrder(batch, queue) /\ BatchInOrder(batch, queue) /\ QueueInOrder(queue)

StoredIn(s, t, d) == s \in d \/ \E x \in t : x.sample = s
Stored(s) == StoredIn(s, table, dropped)

DueIsAccounted ==
  /\ wpc # "run" => closing
  /\ wpc = "exited" => Len(batch) = 0
  /\ \A s \in due :
       \/ s.machine \notin servers
       \/ Stored(s)
       \/ \E i \in 1..Len(batch) : batch[i] = s
       \/ wpc # "exited" /\ \E i \in 1..Len(queue) : queue[i] = s

PathInv == PathTypes /\ PathInOrder /\ DueIsAccounted /\ NoOrphanSamples

IInv == RingsInv /\ PathInv
-----------------------------------------------------------------------------
(* The ring *)

LEMMA Sizes ==
  /\ RingSize \in Nat /\ RingSize > 0 /\ QueueCap \in Nat /\ BatchMax \in Nat /\ BatchMax > 0
  /\ MaxSamples \in Nat
BY RingAssumption, SamplesAssumption

\* Taking an index modulo the size, when it is past the end at most once.
LEMMA ModIsWrap ==
  ASSUME NEW x \in Nat, x < 2 * RingSize
  PROVE  x % RingSize = Wrap(x) /\ Wrap(x) \in 0..(RingSize - 1)
<1>1. CASE x < RingSize
  BY <1>1, Sizes DEF Wrap
<1>2. CASE ~(x < RingSize)
  BY <1>2, Sizes DEF Wrap
<1> QED
  BY <1>1, <1>2

\* One step on and i + 1 back is i back.
LEMMA WrapStep ==
  ASSUME NEW x \in 0..(RingSize - 1), NEW i \in Nat, i < RingSize - 1
  PROVE  /\ Wrap(Wrap(x + 1) + RingSize - 1 - (i + 1)) = Wrap(x + RingSize - 1 - i)
         /\ Wrap(x + RingSize - 1 - i) # x
         /\ Wrap(x + RingSize - 1 - i) \in 0..(RingSize - 1)
<1>1. CASE x + 1 < RingSize
  <2>1. Wrap(x + 1) = x + 1
    BY <1>1 DEF Wrap
  <2> QED
    BY <2>1, Sizes DEF Wrap
<1>2. CASE x + 1 = RingSize
  <2>1. Wrap(x + 1) = 0
    BY <1>2, Sizes DEF Wrap
  <2> QED
    BY <1>2, <2>1, Sizes DEF Wrap
<1> QED
  BY <1>1, <1>2, Sizes

\* The i-th of the last n, found from the oldest and from the newest end.
LEMMA WrapSum ==
  ASSUME NEW x \in 0..(RingSize - 1), NEW n \in 0..RingSize, NEW i \in 1..n
  PROVE  Wrap(Wrap(x + RingSize - n) + i - 1) = Wrap(x + RingSize - 1 - (n - i))
<1>1. CASE x < n
  <2>1. Wrap(x + RingSize - n) = x + RingSize - n
    BY <1>1, Sizes DEF Wrap
  <2>2. x + RingSize - n + i - 1 = x + RingSize - 1 - (n - i)
    BY Sizes
  <2> QED
    BY <2>1, <2>2
<1>2. CASE n <= x
  <2>1. Wrap(x + RingSize - n) = x - n
    BY <1>2, Sizes DEF Wrap
  <2>2. x - n + i - 1 < RingSize /\ x + RingSize - 1 - (n - i) >= RingSize
    BY <1>2, Sizes
  <2> QED
    BY <2>1, <2>2, Sizes DEF Wrap
<1> QED
  BY <1>1, <1>2, Sizes

LEMMA SequenceFacts ==
  ASSUME NEW S, NEW s \in Seq(S)
  PROVE  /\ Len(s) \in Nat /\ DOMAIN s = 1..Len(s)
         /\ \A i \in 1..Len(s) : s[i] \in S
BY LenProperties, ElementOfSeq

LEMMA EmptyFollows == EmptyRing(Zero) \in RingType /\ Follows(EmptyRing(Zero), <<>>)
<1>1. EmptyRing(Zero) \in RingType /\ EmptyRing(Zero).n = 0
  BY Sizes DEF EmptyRing, RingType
<1> QED
  BY <1>1, EmptySeq, Sizes DEF Follows

\* ring.push: the new sample takes the place next to the newest, and pushes the
\* oldest out only when the ring is full.
LEMMA PushFollows ==
  ASSUME NEW r \in RingType, NEW h \in Seq(Sample), Follows(r, h), NEW s \in Sample
  PROVE  RingPush(r, s) \in RingType /\ Follows(RingPush(r, s), Append(h, s))
<1> DEFINE N == RingSize
           p == RingPush(r, s)
           g == Append(h, s)
           L == Len(h)
<1>1. /\ N \in Nat /\ N > 0 /\ L \in Nat /\ r.next \in 0..(N - 1) /\ r.n \in 0..N
      /\ r.buf \in [0..(N - 1) -> Sample \cup {Zero}]
  BY Sizes, SequenceFacts DEF RingType
<1>2. Len(g) = L + 1 /\ g[L + 1] = s /\ \A i \in 1..L : g[i] = h[i]
  BY AppendProperties
<1>3. (r.next + 1) % N = Wrap(r.next + 1) /\ Wrap(r.next + 1) \in 0..(N - 1)
  <2>1. r.next + 1 \in Nat /\ r.next + 1 < 2 * RingSize
    BY <1>1
  <2> QED
    BY <2>1, ModIsWrap
<1>4. /\ p.buf = [r.buf EXCEPT ![r.next] = s] /\ p.next = Wrap(r.next + 1)
      /\ p.n = IF r.n < N THEN r.n + 1 ELSE r.n
      /\ p = [buf |-> p.buf, next |-> p.next, n |-> p.n]
  BY <1>3 DEF RingPush
<1> HIDE DEF N, p, g, L
<1>5. p \in RingType
  <2>1. p.buf \in [0..(N - 1) -> Sample \cup {Zero}] /\ p.next \in 0..(N - 1) /\ p.n \in 0..N
    BY <1>1, <1>3, <1>4
  <2> QED
    BY <1>4, <2>1 DEF RingType, N
<1>6. r.n = IF L < N THEN L ELSE N
  BY DEF Follows, N, L
<1>7. p.n = IF L + 1 < N THEN L + 1 ELSE N
  BY <1>1, <1>4, <1>6
<1>8. ASSUME NEW j \in 0..(p.n - 1)
      PROVE  p.buf[Wrap(p.next + N - 1 - j)] = g[L + 1 - j]
  <2>1. j \in Nat /\ j < N /\ j <= r.n /\ j <= L
    BY <1>1, <1>4, <1>6, <1>7, <1>8
  <2>2. CASE j = 0
    <3>1. Wrap(p.next + N - 1 - j) = r.next
      BY <1>1, <1>4, <2>2 DEF Wrap, N
    <3> QED
      BY <1>1, <1>2, <1>4, <2>2, <3>1
  <2>3. CASE j > 0
    <3> DEFINE i == j - 1
    <3>1. i \in 0..(r.n - 1) /\ i < N - 1
      BY <1>1, <2>1, <2>3
    <3>2. /\ Wrap(p.next + N - 1 - j) = Wrap(r.next + N - 1 - i)
          /\ Wrap(r.next + N - 1 - i) # r.next
          /\ Wrap(r.next + N - 1 - i) \in 0..(N - 1)
      <4>1. i \in Nat /\ j = i + 1
        BY <2>1, <2>3
      <4> HIDE DEF i
      <4> QED
        BY <1>1, <1>4, <3>1, <4>1, WrapStep DEF N
    <3>3. r.buf[Wrap(r.next + N - 1 - i)] = h[L - i]
      BY <3>1 DEF Follows, N, L
    <3>4. L - i = L + 1 - j /\ L + 1 - j \in 1..L
      BY <1>1, <2>1, <2>3
    <3> HIDE DEF i
    <3> QED
      BY <1>1, <1>2, <1>4, <3>2, <3>3, <3>4
  <2> QED
    BY <2>1, <2>2, <2>3
<1>9. Follows(p, g)
  <2>1. p.n = IF Len(g) < RingSize THEN Len(g) ELSE RingSize
    BY <1>2, <1>7 DEF N
  <2>2. ASSUME NEW j \in 0..(p.n - 1)
        PROVE  p.buf[Wrap(p.next + RingSize - 1 - j)] = g[Len(g) - j]
    <3>1. p.buf[Wrap(p.next + N - 1 - j)] = g[L + 1 - j]
      BY <1>8, <2>2
    <3>2. Len(g) - j = L + 1 - j /\ p.next + RingSize - 1 - j = p.next + N - 1 - j
      BY <1>1, <1>2 DEF N
    <3> QED
      BY <3>1, <3>2
  <2> QED
    BY <2>1, <2>2 DEF Follows
<1> QED
  BY <1>5, <1>9 DEF p, g

\* ring.snapshot and ring.latest, from what the ring follows.
LEMMA SnapshotIsRight ==
  ASSUME NEW r \in RingType, NEW h \in Seq(Sample), Follows(r, h)
  PROVE  LET k == IF Len(h) < RingSize THEN Len(h) ELSE RingSize IN
         /\ RingSnapshot(r) = SubSeq(h, Len(h) - k + 1, Len(h))
         /\ h # <<>> => RingLatest(r) = h[Len(h)]
<1> DEFINE N == RingSize
           L == Len(h)
           k == IF L < N THEN L ELSE N
           start == (r.next + N - r.n) % N
           a == RingSnapshot(r)
           b == SubSeq(h, L - k + 1, L)
<1>1. /\ N \in Nat /\ N > 0 /\ L \in Nat /\ r.next \in 0..(N - 1) /\ r.n \in 0..N
      /\ r.n = k /\ \A i \in 1..L : h[i] \in Sample
  BY Sizes, SequenceFacts DEF RingType, Follows
<1>2. k \in Nat /\ k <= L /\ k <= N
  BY <1>1
<1>3. start = Wrap(r.next + N - r.n) /\ start \in 0..(N - 1)
  <2>1. r.next + RingSize - r.n \in Nat /\ r.next + RingSize - r.n < 2 * RingSize
    BY <1>1
  <2> QED
    BY <2>1, ModIsWrap
<1>4. a = [i \in 1..r.n |-> r.buf[(start + i - 1) % N]]
  BY DEF RingSnapshot
<1> HIDE DEF N, L, k, start, a, b
<1>5. \A j \in 0..(k - 1) : r.buf[Wrap(r.next + N - 1 - j)] = h[L - j]
  BY <1>1 DEF Follows, N, L
<1>6. ASSUME NEW i \in 1..k PROVE a[i] = h[L - k + i]
  <2>1. i \in Nat /\ start + i - 1 \in Nat /\ start + i - 1 < 2 * N
    BY <1>1, <1>2, <1>3, <1>6
  <2>2. (start + i - 1) % N = Wrap(start + i - 1)
    BY <2>1, ModIsWrap DEF N
  <2>3. Wrap(start + i - 1) = Wrap(r.next + N - 1 - (k - i))
    <3>1. Wrap(Wrap(r.next + RingSize - k) + i - 1) = Wrap(r.next + RingSize - 1 - (k - i))
      BY <1>1, <1>6, WrapSum DEF N
    <3> QED
      BY <1>1, <1>3, <3>1 DEF N
  <2>4. k - i \in 0..(k - 1) /\ L - (k - i) = L - k + i
    BY <1>1, <1>2, <1>6
  <2>5. a[i] = r.buf[(start + i - 1) % N]
    BY <1>1, <1>4
  <2> QED
    BY <1>5, <2>2, <2>3, <2>4, <2>5
<1>7. /\ b \in Seq(Sample) /\ Len(b) = k
      /\ \A i \in 1..k : b[i] = h[L - k + i]
  <2>1. L - k + 1 \in Int /\ L \in Int /\ \A i \in (L - k + 1)..L : h[i] \in Sample
    BY <1>1, <1>2
  <2>2. /\ b \in Seq(Sample)
        /\ Len(b) = IF L - k + 1 <= L THEN L - (L - k + 1) + 1 ELSE 0
        /\ \A i \in 1..(L - (L - k + 1) + 1) : b[i] = h[(L - k + 1) + i - 1]
    BY <2>1, SubSeqProperties DEF b
  <2>3. L - (L - k + 1) + 1 = k /\ \A i \in 1..k : (L - k + 1) + i - 1 = L - k + i
    BY <1>1, <1>2
  <2> QED
    BY <1>1, <1>2, <2>2, <2>3
<1>8. b = [i \in 1..k |-> b[i]]
  BY <1>7, LenProperties
<1>9. a = b
  BY <1>1, <1>4, <1>6, <1>7, <1>8
<1>10. ASSUME h # <<>> PROVE RingLatest(r) = h[L]
  <2>1. L > 0
    BY <1>10, EmptySeq DEF L
  <2>2. (r.next + N - 1) % N = Wrap(r.next + N - 1)
    BY <1>1, ModIsWrap DEF N
  <2>3. 0 \in 0..(k - 1) /\ r.next + N - 1 - 0 = r.next + N - 1 /\ L - 0 = L
    BY <1>1, <2>1 DEF k
  <2>4. RingLatest(r) = r.buf[(r.next + N - 1) % N]
    BY DEF RingLatest, N
  <2> QED
    BY <1>5, <2>2, <2>3, <2>4
<1> QED
  BY <1>9, <1>10 DEF a, b, k, L, N

LEMMA RingsNext == RingsInv /\ PathTypes /\ [Next]_vars => RingsInv'
<1> SUFFICES ASSUME RingsInv, PathTypes, [Next]_vars PROVE RingsInv'
  OBVIOUS
<1>1. CASE UNCHANGED <<ring, seen>>
  BY <1>1 DEF RingsInv
<1>2. ASSUME NEW c \in Conn, Push(c) PROVE RingsInv'
  <2> DEFINE m == MachineOf[c]
             s == [id |-> count + 1, conn |-> c, machine |-> m]
  <2>0. m \in Machine
    BY SamplesAssumption
  <2>1. /\ ring' = [ring EXCEPT ![m] = RingPush(@, s)]
        /\ seen' = [seen EXCEPT ![m] = Append(@, s)]
    BY <1>2 DEF Push
  <2>2. s \in Sample
    BY <1>2, <2>0, Sizes DEF Push, PathTypes, Sample
  <2> HIDE DEF s, m
  <2>3. ring[m] \in RingType /\ seen[m] \in Seq(Sample) /\ Follows(ring[m], seen[m])
    BY <2>0 DEF RingsInv
  <2>4. /\ RingPush(ring[m], s) \in RingType /\ Append(seen[m], s) \in Seq(Sample)
        /\ Follows(RingPush(ring[m], s), Append(seen[m], s))
    BY <2>2, <2>3, PushFollows, AppendProperties
  <2>5. ring' \in [Machine -> RingType] /\ seen' \in [Machine -> Seq(Sample)]
    BY <2>0, <2>1, <2>4 DEF RingsInv
  <2>6. \A q \in Machine : Follows(ring'[q], seen'[q])
    BY <2>0, <2>1, <2>4 DEF RingsInv
  <2> QED
    BY <2>5, <2>6 DEF RingsInv
<1> QED
  BY <1>1, <1>2
  DEF Next, vars, DeleteRow, RemoveLive, QueueSample, Writer, Take, FlushTimer, BeginDrain, Exit, Close
-----------------------------------------------------------------------------
(* The way of a sample *)

\* case q := <-writeC: the head of the queue becomes the end of the batch.
LEMMA TakeMoves ==
  ASSUME PathTypes, PathInOrder, queue # <<>>,
         NEW b, b = Append(batch, Head(queue)), NEW q, q = Tail(queue)
  PROVE  /\ b \in Seq(Sample) /\ Len(b) = Len(batch) + 1
         /\ q \in Seq(Sample) /\ Len(q) = Len(queue) - 1
         /\ b[Len(b)] = queue[1]
         /\ \A i \in 1..Len(batch) : b[i] = batch[i]
         /\ \A i \in 1..Len(q) : q[i] = queue[i + 1]
         /\ TableInOrder(b, q) /\ BatchInOrder(b, q) /\ QueueInOrder(q)
<1>1. /\ queue \in Seq(Sample) /\ batch \in Seq(Sample) /\ Len(batch) \in Nat
      /\ Len(queue) \in Nat /\ Len(queue) > 0
      /\ \A i \in 1..Len(batch) : batch[i] \in Sample
      /\ \A i \in 1..Len(queue) : queue[i] \in Sample
  BY SequenceFacts, EmptySeq DEF PathTypes
<1>2. /\ q \in Seq(Sample) /\ Len(q) = Len(queue) - 1
      /\ \A i \in 1..Len(q) : q[i] = queue[i + 1]
      /\ Head(queue) = queue[1] /\ Head(queue) \in Sample
  BY <1>1, HeadTailProperties
<1>3. /\ b \in Seq(Sample) /\ Len(b) = Len(batch) + 1 /\ b[Len(batch) + 1] = queue[1]
      /\ \A i \in 1..Len(batch) : b[i] = batch[i]
  BY <1>1, <1>2, AppendProperties
<1>4. \A i \in 1..Len(b) : i \in 1..Len(batch) \/ i = Len(batch) + 1
  BY <1>1, <1>3
<1>5. \A i \in 1..Len(q) : i + 1 \in 1..Len(queue) /\ 1 < i + 1
  BY <1>1, <1>2
<1>6. 1 \in 1..Len(queue)
  BY <1>1
<1>7. QueueInOrder(q)
  <2> SUFFICES ASSUME NEW i \in 1..Len(q)
               PROVE  /\ q[i].id <= count
                      /\ \A j \in 1..Len(q) : i < j => Before(q[i], q[j])
                      /\ Handed(q[i], pushed)
    BY DEF QueueInOrder
  <2>1. q[i] = queue[i + 1] /\ i + 1 \in 1..Len(queue)
    BY <1>2, <1>5
  <2>2. ASSUME NEW j \in 1..Len(q), i < j PROVE Before(q[i], q[j])
    <3>1. q[j] = queue[j + 1] /\ j + 1 \in 1..Len(queue) /\ i + 1 < j + 1
      BY <1>2, <1>5, <2>2
    <3> QED
      BY <2>1, <3>1 DEF PathInOrder, QueueInOrder
  <2> QED
    BY <2>1, <2>2 DEF PathInOrder, QueueInOrder
<1>8. BatchInOrder(b, q)
  <2> SUFFICES ASSUME NEW i \in 1..Len(b)
               PROVE  /\ b[i].id <= count
                      /\ \A j \in 1..Len(b) : i < j => Before(b[i], b[j])
                      /\ \A j \in 1..Len(q) : Before(b[i], q[j])
                      /\ Handed(b[i], pushed)
    BY DEF BatchInOrder
  <2>1. CASE i \in 1..Len(batch)
    <3>1. ASSUME NEW j \in 1..Len(b), i < j PROVE Before(b[i], b[j])
      <4>1. CASE j \in 1..Len(batch)
        BY <1>3, <2>1, <3>1, <4>1 DEF PathInOrder, BatchInOrder
      <4>2. CASE j = Len(batch) + 1
        BY <1>3, <1>6, <2>1, <4>2 DEF PathInOrder, BatchInOrder
      <4> QED
        BY <1>4, <3>1, <4>1, <4>2
    <3>2. ASSUME NEW j \in 1..Len(q) PROVE Before(b[i], q[j])
      BY <1>2, <1>3, <1>5, <2>1, <3>2 DEF PathInOrder, BatchInOrder
    <3> QED
      BY <1>3, <2>1, <3>1, <3>2 DEF PathInOrder, BatchInOrder
  <2>2. CASE i = Len(batch) + 1
    <3>1. b[i] = queue[1]
      BY <1>3, <2>2
    <3>2. \A j \in 1..Len(b) : ~(i < j)
      BY <1>1, <1>3, <2>2
    <3>3. ASSUME NEW j \in 1..Len(q) PROVE Before(b[i], q[j])
      BY <1>2, <1>5, <1>6, <3>1, <3>3 DEF PathInOrder, QueueInOrder
    <3> QED
      BY <1>6, <3>1, <3>2, <3>3 DEF PathInOrder, QueueInOrder
  <2> QED
    BY <1>4, <2>1, <2>2
<1>9. TableInOrder(b, q)
  <2> SUFFICES ASSUME NEW x \in table
               PROVE  /\ \A i \in 1..Len(b) : Before(x.sample, b[i])
                      /\ \A i \in 1..Len(q) : Before(x.sample, q[i])
    BY DEF PathInOrder, TableInOrder
  <2>1. ASSUME NEW i \in 1..Len(b) PROVE Before(x.sample, b[i])
    BY <1>3, <1>4, <1>6, <2>1 DEF PathInOrder, TableInOrder
  <2>2. ASSUME NEW i \in 1..Len(q) PROVE Before(x.sample, q[i])
    BY <1>2, <1>5, <2>2 DEF PathInOrder, TableInOrder
  <2> QED
    BY <2>1, <2>2
<1> QED
  BY <1>2, <1>3, <1>7, <1>8, <1>9

\* What a transaction does with the batch b, whether it commits or not.
LEMMA FlushKeeps ==
  ASSUME PathTypes, NoOrphanSamples,
         NEW b \in Seq(Sample), NEW q \in Seq(Sample), Len(q) <= QueueCap,
         PushedInOrder,
         TableInOrder(b, q), BatchInOrder(b, q), QueueInOrder(q),
         Flush(b), queue' = q,
         UNCHANGED <<live, servers, count, pushed, due, closing>>, wpc' \in {"run", "drain", "exited"}
  PROVE  /\ PathTypes' /\ PathInOrder' /\ NoOrphanSamples'
         /\ Len(batch') = 0
         /\ \A s : Stored(s) => Stored(s)'
         /\ \A i \in 1..Len(b) : b[i].machine \notin servers \/ StoredIn(b[i], table', dropped')
<1>1. /\ Len(b) \in Nat /\ DOMAIN b = 1..Len(b) /\ \A i \in 1..Len(b) : b[i] \in Sample
  BY SequenceFacts
<1>2. batch' \in Seq(Sample) /\ Len(batch') = 0
  BY EmptySeq DEF Flush, BatchAfterFlush
<1>3. BatchInOrder(batch, queue)'
  BY <1>2 DEF BatchInOrder
<1>4. QueueInOrder(queue)'
  BY DEF QueueInOrder
<1>5. CASE /\ table' = table \cup {[row |-> rows + i, sample |-> b[i]] : i \in Insertable(b)}
           /\ rows' = rows + Len(b) /\ UNCHANGED dropped
  <2>1. Insertable(b) = {i \in 1..Len(b) : b[i].machine \in servers}
    BY <1>1 DEF Insertable
  <2>2. ASSUME NEW x \in table'
        PROVE  \/ x \in table
               \/ \E i \in 1..Len(b) : /\ x = [row |-> rows + i, sample |-> b[i]]
                                       /\ b[i].machine \in servers
    BY <1>5, <2>1, <2>2
  <2>3. table' \subseteq Row /\ rows' \in Nat /\ rows <= rows' /\ rows \in Nat
    <3>1. rows \in Nat /\ rows' \in Nat /\ rows <= rows'
      BY <1>1, <1>5 DEF PathTypes
    <3>2. ASSUME NEW x \in table' PROVE x \in Row
      <4>1. CASE x \in table
        BY <4>1 DEF PathTypes
      <4>2. ASSUME NEW i \in 1..Len(b), x = [row |-> rows + i, sample |-> b[i]] PROVE x \in Row
        BY <1>1, <3>1, <4>2 DEF Row
      <4> QED
        BY <2>2, <3>2, <4>1, <4>2
    <3> QED
      BY <3>1, <3>2
  <2>4. \A s : Stored(s) => Stored(s)'
    BY <1>5 DEF Stored, StoredIn
  <2>5. \A i \in 1..Len(b) : b[i].machine \notin servers \/ StoredIn(b[i], table', dropped')
    <3> SUFFICES ASSUME NEW i \in 1..Len(b), b[i].machine \in servers PROVE StoredIn(b[i], table', dropped')
      OBVIOUS
    <3>1. [row |-> rows + i, sample |-> b[i]] \in table'
      BY <1>5, <2>1
    <3> QED
      BY <3>1 DEF Stored, StoredIn
  <2>6. NoOrphanSamples'
    BY <2>2 DEF NoOrphanSamples
  <2>7. TableInOrder(batch, queue)'
    <3> SUFFICES ASSUME NEW x \in table'
                 PROVE  /\ x.row <= rows'
                        /\ x.sample.id <= count
                        /\ \A y \in table' : x.row < y.row => Before(x.sample, y.sample)
                        /\ \A i \in 1..Len(q) : Before(x.sample, q[i])
                        /\ Handed(x.sample, pushed)
      BY <1>2 DEF TableInOrder
    <3>1. CASE x \in table
      <4>1. ASSUME NEW y \in table', x.row < y.row PROVE Before(x.sample, y.sample)
        <5>1. CASE y \in table
          BY <3>1, <4>1, <5>1 DEF TableInOrder
        <5>2. ASSUME NEW i \in 1..Len(b), y = [row |-> rows + i, sample |-> b[i]]
              PROVE  Before(x.sample, y.sample)
          BY <3>1, <5>2 DEF TableInOrder
        <5> QED
          BY <2>2, <4>1, <5>1, <5>2
      <4>2. x.row <= rows'
        <5>1. x.row \in Nat /\ x.row <= rows
          BY <3>1 DEF TableInOrder, PathTypes, Row
        <5> QED
          BY <2>3, <5>1
      <4> QED
        BY <3>1, <4>1, <4>2 DEF TableInOrder
    <3>2. ASSUME NEW i \in 1..Len(b), x = [row |-> rows + i, sample |-> b[i]]
          PROVE  /\ x.row <= rows'
                 /\ x.sample.id <= count
                 /\ \A y \in table' : x.row < y.row => Before(x.sample, y.sample)
                 /\ \A j \in 1..Len(q) : Before(x.sample, q[j])
                 /\ Handed(x.sample, pushed)
      <4>1. x.row = rows + i /\ x.sample = b[i] /\ x.row <= rows' /\ i \in Nat
        BY <1>1, <1>5, <2>3, <3>2
      <4>2. ASSUME NEW y \in table', x.row < y.row PROVE Before(x.sample, y.sample)
        <5>1. CASE y \in table
          <6>1. y.row \in Nat /\ y.row <= rows
            BY <5>1 DEF TableInOrder, PathTypes, Row
          <6> QED
            BY <2>3, <3>2, <4>1, <4>2, <6>1
        <5>2. ASSUME NEW j \in 1..Len(b), y = [row |-> rows + j, sample |-> b[j]]
              PROVE  Before(x.sample, y.sample)
          <6>1. y.row = rows + j /\ y.sample = b[j] /\ i < j
            BY <1>1, <2>3, <3>2, <4>1, <4>2, <5>2
          <6> QED
            BY <3>2, <4>1, <5>2, <6>1 DEF BatchInOrder
        <5> QED
          BY <2>2, <4>2, <5>1, <5>2
      <4> QED
        BY <3>2, <4>1, <4>2 DEF BatchInOrder
    <3> QED
      BY <2>2, <3>1, <3>2
  <2>8. PathTypes'
    BY <1>2, <1>5, <2>3, Sizes DEF PathTypes
  <2> QED
    BY <1>2, <1>3, <1>4, <2>4, <2>5, <2>6, <2>7, <2>8 DEF PathInOrder, PushedInOrder
<1>6. CASE dropped' = dropped \cup Range(b) /\ UNCHANGED history
  <2>1. table' = table /\ rows' = rows
    BY <1>6 DEF history
  <2>2. Range(b) = {b[i] : i \in 1..Len(b)}
    BY <1>1 DEF Range
  <2>3. PathTypes'
    <3>1. dropped' \subseteq Sample
      BY <1>1, <1>6, <2>2 DEF PathTypes
    <3> QED
      BY <1>2, <2>1, <3>1, Sizes DEF PathTypes
  <2>4. TableInOrder(batch, queue)'
    BY <1>2, <2>1 DEF TableInOrder
  <2>5. NoOrphanSamples'
    BY <2>1 DEF NoOrphanSamples
  <2>6. \A s : Stored(s) => Stored(s)'
    BY <1>6, <2>1 DEF Stored, StoredIn
  <2>7. \A i \in 1..Len(b) : StoredIn(b[i], table', dropped')
    BY <1>6, <2>2 DEF Stored, StoredIn
  <2> QED
    BY <1>2, <1>3, <1>4, <2>3, <2>4, <2>5, <2>6, <2>7 DEF PathInOrder, PushedInOrder
<1> QED
  BY <1>5, <1>6 DEF Flush

\* A sample that is already on its way arrived before one that arrives now.
LEMMA NewestIsLast ==
  ASSUME NEW t, t.id \in Nat, t.id <= count, count \in Nat,
         NEW c \in Conn, NEW s, s.id = count + 1, Handed(t, pushed),
         pushed \in [Conn -> Sample \cup {Zero}],
         pushed' = [pushed EXCEPT ![c] = s]
  PROVE  Handed(t, pushed')
<1>1. Before(t, s)
  BY DEF Before
<1>2. \A d \in Conn : pushed'[d] = IF d = c THEN s ELSE pushed[d]
  OBVIOUS
<1> QED
  BY <1>1, <1>2 DEF Handed

LEMMA PathPush ==
  ASSUME PathInv, NEW c \in Conn, Push(c)
  PROVE  PathInv'
<1> DEFINE s == [id |-> count + 1, conn |-> c, machine |-> MachineOf[c]]
<1>1. /\ count' = count + 1 /\ pushed' = [pushed EXCEPT ![c] = s] /\ count < MaxSamples
      /\ UNCHANGED <<live, servers, queue, batch, table, rows, dropped, due, closing, wpc>>
  BY DEF Push, history
<1>2. /\ count \in Nat /\ s \in Sample /\ s.id = count + 1 /\ s.conn = c
      /\ count + 1 \in 0..MaxSamples /\ pushed \in [Conn -> Sample \cup {Zero}]
  <2>1. MachineOf[c] \in Machine
    BY SamplesAssumption
  <2> QED
    BY <1>1, <2>1, Sizes DEF PathInv, PathTypes, Sample
<1> HIDE DEF s
<1>3. PathTypes'
  BY <1>1, <1>2 DEF PathInv, PathTypes
<1>4. \A x \in table : x.sample.id \in Nat /\ x.sample.id <= count
  BY Sizes DEF PathInv, PathTypes, Row, Sample, PathInOrder, TableInOrder
<1>5. \A i \in 1..Len(batch) : batch[i].id \in Nat /\ batch[i].id <= count
  <2>1. \A i \in 1..Len(batch) : batch[i] \in Sample
    BY SequenceFacts DEF PathInv, PathTypes
  <2> QED
    BY <2>1, Sizes DEF PathInv, Sample, PathInOrder, BatchInOrder
<1>6. \A i \in 1..Len(queue) : queue[i].id \in Nat /\ queue[i].id <= count
  <2>1. \A i \in 1..Len(queue) : queue[i] \in Sample
    BY SequenceFacts DEF PathInv, PathTypes
  <2> QED
    BY <2>1, Sizes DEF PathInv, Sample, PathInOrder, QueueInOrder
<1>7. TableInOrder(batch, queue)'
  <2>1. ASSUME NEW x \in table PROVE Handed(x.sample, pushed') /\ x.sample.id <= count + 1
    <3>1. Handed(x.sample, pushed)
      BY DEF PathInv, PathInOrder, TableInOrder
    <3>2. x.sample.id \in Nat /\ x.sample.id <= count
      BY <1>4
    <3>3. Handed(x.sample, pushed')
      BY <1>1, <1>2, <3>1, <3>2, NewestIsLast
    <3> QED
      BY <1>2, <3>2, <3>3
  <2> QED
    BY <1>1, <2>1 DEF PathInv, PathInOrder, TableInOrder
<1>8. BatchInOrder(batch, queue)'
  <2>1. ASSUME NEW i \in 1..Len(batch) PROVE Handed(batch[i], pushed') /\ batch[i].id <= count + 1
    <3>1. Handed(batch[i], pushed)
      BY DEF PathInv, PathInOrder, BatchInOrder
    <3>2. batch[i].id \in Nat /\ batch[i].id <= count
      BY <1>5
    <3>3. Handed(batch[i], pushed')
      BY <1>1, <1>2, <3>1, <3>2, NewestIsLast
    <3> QED
      BY <1>2, <3>2, <3>3
  <2> QED
    BY <1>1, <2>1 DEF PathInv, PathInOrder, BatchInOrder
<1>9. QueueInOrder(queue)'
  <2>1. ASSUME NEW i \in 1..Len(queue) PROVE Handed(queue[i], pushed') /\ queue[i].id <= count + 1
    <3>1. Handed(queue[i], pushed)
      BY DEF PathInv, PathInOrder, QueueInOrder
    <3>2. queue[i].id \in Nat /\ queue[i].id <= count
      BY <1>6
    <3>3. Handed(queue[i], pushed')
      BY <1>1, <1>2, <3>1, <3>2, NewestIsLast
    <3> QED
      BY <1>2, <3>2, <3>3
  <2> QED
    BY <1>1, <2>1 DEF PathInv, PathInOrder, QueueInOrder
<1>10. PushedInOrder'
  <2> SUFFICES ASSUME NEW d \in Conn, pushed'[d] # Zero
               PROVE  pushed'[d].conn = d /\ pushed'[d].id <= count'
    BY DEF PushedInOrder
  <2>1. CASE d = c
    BY <1>1, <1>2, <2>1
  <2>2. CASE d # c
    <3>1. pushed'[d] = pushed[d]
      BY <1>1, <1>2, <2>2
    <3>2. pushed[d].conn = d /\ pushed[d].id <= count /\ pushed[d] \in Sample
      BY <1>2, <3>1 DEF PathInv, PathInOrder, PushedInOrder
    <3> QED
      BY <1>1, <1>2, <3>1, <3>2, Sizes DEF Sample
  <2> QED
    BY <2>1, <2>2
<1>11. DueIsAccounted' /\ NoOrphanSamples'
  BY <1>1 DEF PathInv, DueIsAccounted, Stored, StoredIn, NoOrphanSamples
<1> QED
  BY <1>3, <1>7, <1>8, <1>9, <1>10, <1>11 DEF PathInv, PathInOrder

LEMMA PathQueueSample ==
  ASSUME PathInv, NEW c \in Conn, QueueSample(c)
  PROVE  PathInv'
<1> DEFINE s == pushed[c]
<1>1. /\ s \in Sample /\ s # Zero /\ pushed' = [pushed EXCEPT ![c] = Zero]
      /\ s.id <= count /\ s.conn = c
      /\ UNCHANGED <<live, servers, count, batch, table, rows, closing, wpc>>
      /\ pushed \in [Conn -> Sample \cup {Zero}]
  BY DEF QueueSample, PathInv, PathTypes, PathInOrder, PushedInOrder, history
<1>2. NoOrphanSamples'
  BY <1>1 DEF PathInv, NoOrphanSamples
<1>5. \A d \in Conn : pushed'[d] = IF d = c THEN Zero ELSE pushed[d]
  BY <1>1
<1>6. /\ PushedInOrder'
      /\ \A t : Handed(t, pushed) => Handed(t, pushed') /\ Before(t, s)
      /\ Handed(s, pushed')
  <2>1. PushedInOrder'
    BY <1>1, <1>5 DEF PathInv, PathInOrder, PushedInOrder
  <2>2. ASSUME NEW t, Handed(t, pushed) PROVE Handed(t, pushed') /\ Before(t, s)
    BY <1>1, <1>5, <2>2 DEF Handed
  <2>3. ASSUME NEW d \in Conn, pushed'[d] # Zero PROVE Before(s, pushed'[d])
    <3>1. d # c /\ pushed'[d] = pushed[d]
      BY <1>5, <2>3
    <3>2. pushed[d].conn = d
      BY <2>3, <3>1 DEF PathInv, PathInOrder, PushedInOrder
    <3> QED
      BY <1>1, <3>1, <3>2 DEF Before
  <2> QED
    BY <2>1, <2>2, <2>3 DEF Handed
<1>7. /\ queue' = Append(queue, s) \/ queue' = queue
      /\ Len(queue) < QueueCap =>
           /\ queue' = Append(queue, s) /\ dropped' = dropped
           /\ due' = IF closing THEN due ELSE due \cup {s}
      /\ ~(Len(queue) < QueueCap) => dropped' = dropped \cup {s} /\ UNCHANGED <<queue, due>>
  BY DEF QueueSample
<1> HIDE DEF s
<1>8. pushed' \in [Conn -> Sample \cup {Zero}]
  BY <1>1
<1>3. CASE Len(queue) < QueueCap
  <2>1. /\ queue' = Append(queue, s) /\ dropped' = dropped
        /\ due' = IF closing THEN due ELSE due \cup {s}
    BY <1>3, <1>7
  <2>2. /\ queue \in Seq(Sample) /\ Len(queue) \in Nat
    BY SequenceFacts DEF PathInv, PathTypes
  <2>3. /\ queue' \in Seq(Sample) /\ Len(queue') = Len(queue) + 1
        /\ queue'[Len(queue) + 1] = s
        /\ \A i \in 1..Len(queue) : queue'[i] = queue[i]
    BY <1>1, <2>1, <2>2, AppendProperties
  <2>4. \A i \in 1..Len(queue') : i \in 1..Len(queue) \/ i = Len(queue) + 1
    BY <2>2, <2>3
  <2>5. PathTypes'
    BY <1>1, <1>3, <1>8, <2>1, <2>2, <2>3, Sizes DEF PathInv, PathTypes
  <2>6. TableInOrder(batch, queue)'
    BY <1>1, <1>6, <2>3, <2>4 DEF PathInv, PathInOrder, TableInOrder
  <2>7. BatchInOrder(batch, queue)'
    BY <1>1, <1>6, <2>3, <2>4 DEF PathInv, PathInOrder, BatchInOrder
  <2>8. QueueInOrder(queue)'
    <3> SUFFICES ASSUME NEW i \in 1..Len(queue')
                 PROVE  /\ queue'[i].id <= count
                        /\ \A j \in 1..Len(queue') : i < j => Before(queue'[i], queue'[j])
                        /\ Handed(queue'[i], pushed')
      BY <1>1 DEF QueueInOrder
    <3>1. queue'[i].id <= count /\ Handed(queue'[i], pushed')
      BY <1>1, <1>6, <2>3, <2>4 DEF PathInv, PathInOrder, QueueInOrder
    <3>2. ASSUME NEW j \in 1..Len(queue'), i < j PROVE Before(queue'[i], queue'[j])
      <4>1. i \in 1..Len(queue)
        BY <2>2, <2>3, <3>2
      <4>2. CASE j \in 1..Len(queue)
        BY <2>3, <3>2, <4>1, <4>2 DEF PathInv, PathInOrder, QueueInOrder
      <4>3. CASE j = Len(queue) + 1
        BY <1>6, <2>3, <4>1, <4>3 DEF PathInv, PathInOrder, QueueInOrder
      <4> QED
        BY <2>4, <3>2, <4>2, <4>3
    <3> QED
      BY <3>1, <3>2
  <2>9. DueIsAccounted'
    <3>1. /\ wpc # "run" => closing
          /\ wpc = "exited" => Len(batch) = 0
      BY DEF PathInv, DueIsAccounted
    <3>2. ASSUME NEW z \in due'
          PROVE  \/ z.machine \notin servers
                 \/ Stored(z)'
                 \/ \E i \in 1..Len(batch) : batch[i] = z
                 \/ wpc # "exited" /\ \E i \in 1..Len(queue') : queue'[i] = z
      <4>1. Stored(z) => Stored(z)'
        BY <1>1, <2>1 DEF Stored, StoredIn
      <4>2. CASE z \in due
        <5>1. ASSUME NEW i \in 1..Len(queue), queue[i] = z
              PROVE  \E j \in 1..Len(queue') : queue'[j] = z
          <6>1. i \in 1..Len(queue') /\ queue'[i] = z
            BY <2>2, <2>3, <5>1
          <6> QED
            BY <6>1
        <5> QED
          BY <4>1, <4>2, <5>1 DEF PathInv, DueIsAccounted
      <4>3. CASE z \notin due
        <5>1. z = s /\ ~closing
          BY <2>1, <3>2, <4>3
        <5>2. Len(queue) + 1 \in 1..Len(queue') /\ queue'[Len(queue) + 1] = z
          BY <2>2, <2>3, <5>1
        <5> QED
          BY <3>1, <5>1, <5>2
      <4> QED
        BY <4>2, <4>3
    <3> QED
      BY <1>1, <3>1, <3>2 DEF DueIsAccounted
  <2> QED
    BY <1>2, <1>6, <2>5, <2>6, <2>7, <2>8, <2>9 DEF PathInv, PathInOrder
<1>4. CASE ~(Len(queue) < QueueCap)
  <2>1. dropped' = dropped \cup {s} /\ UNCHANGED <<queue, due>>
    BY <1>4, <1>7
  <2>2. PathTypes'
    BY <1>1, <1>8, <2>1 DEF PathInv, PathTypes
  <2>3. PathInOrder'
    BY <1>1, <1>6, <2>1 DEF PathInv, PathInOrder, TableInOrder, BatchInOrder, QueueInOrder
  <2>4. DueIsAccounted'
    BY <1>1, <2>1 DEF PathInv, DueIsAccounted, Stored, StoredIn
  <2> QED
    BY <1>2, <2>2, <2>3, <2>4 DEF PathInv
<1> QED
  BY <1>3, <1>4

LEMMA PathTake == PathInv /\ Take => PathInv'
<1> SUFFICES ASSUME PathInv, Take PROVE PathInv'
  OBVIOUS
<1> DEFINE b == Append(batch, Head(queue))
           q == Tail(queue)
<1>1. /\ queue # <<>> /\ queue' = q /\ wpc \in {"run", "drain"}
      /\ IF Len(b) >= BatchMax THEN Flush(b)
         ELSE batch' = b /\ UNCHANGED <<table, rows, dropped>>
      /\ UNCHANGED <<live, servers, count, pushed, due, closing, wpc>>
  BY DEF Take, history
<1>2. /\ b \in Seq(Sample) /\ Len(b) = Len(batch) + 1
      /\ q \in Seq(Sample) /\ Len(q) = Len(queue) - 1
      /\ b[Len(b)] = queue[1]
      /\ \A i \in 1..Len(batch) : b[i] = batch[i]
      /\ \A i \in 1..Len(q) : q[i] = queue[i + 1]
      /\ TableInOrder(b, q) /\ BatchInOrder(b, q) /\ QueueInOrder(q)
  BY <1>1, TakeMoves DEF PathInv
<1> HIDE DEF b, q
<1>3. /\ Len(queue) \in Nat /\ Len(batch) \in Nat /\ Len(queue) <= QueueCap
      /\ Len(b) \in Nat /\ Len(queue) > 0
  BY <1>1, SequenceFacts, EmptySeq, <1>2 DEF PathInv, PathTypes
<1>4. \* Whatever waited still does, or has come to the end of the batch.
      ASSUME NEW s
      PROVE  /\ (\E i \in 1..Len(batch) : batch[i] = s) => \E i \in 1..Len(b) : b[i] = s
             /\ (\E i \in 1..Len(queue) : queue[i] = s) =>
                  (\E i \in 1..Len(b) : b[i] = s) \/ (\E i \in 1..Len(q) : q[i] = s)
  <2>1. ASSUME NEW i \in 1..Len(batch), batch[i] = s PROVE \E j \in 1..Len(b) : b[j] = s
    <3>1. i \in 1..Len(b) /\ b[i] = s
      BY <1>2, <1>3, <2>1
    <3> QED
      BY <3>1
  <2>2. ASSUME NEW i \in 1..Len(queue), queue[i] = s
        PROVE  (\E j \in 1..Len(b) : b[j] = s) \/ (\E j \in 1..Len(q) : q[j] = s)
    <3>1. CASE i = 1
      <4>1. Len(b) \in 1..Len(b) /\ b[Len(b)] = s
        BY <1>2, <1>3, <2>2, <3>1
      <4> QED
        BY <4>1
    <3>2. CASE i # 1
      <4>1. i - 1 \in 1..Len(q) /\ (i - 1) + 1 = i
        BY <1>2, <1>3, <2>2, <3>2
      <4>2. q[i - 1] = s
        BY <1>2, <2>2, <4>1
      <4> QED
        BY <4>1, <4>2
    <3> QED
      BY <3>1, <3>2
  <2> QED
    BY <2>1, <2>2
<1>5. wpc # "exited" /\ (wpc # "run" => closing)
  BY <1>1 DEF PathInv, DueIsAccounted
<1>6. CASE Len(b) >= BatchMax
  <2>1. /\ PathTypes' /\ PathInOrder' /\ NoOrphanSamples' /\ Len(batch') = 0
        /\ \A s : Stored(s) => Stored(s)'
        /\ \A i \in 1..Len(b) : b[i].machine \notin servers \/ StoredIn(b[i], table', dropped')
    <3>1. Flush(b) /\ Len(q) <= QueueCap /\ wpc' \in {"run", "drain", "exited"}
      BY <1>1, <1>2, <1>3, <1>6, Sizes
    <3>2. PathTypes /\ NoOrphanSamples /\ PushedInOrder
      BY DEF PathInv, PathInOrder
    <3> QED
      BY <1>1, <1>2, <3>1, <3>2, FlushKeeps
  <2>2. ASSUME NEW s \in due
        PROVE  \/ s.machine \notin servers \/ Stored(s)'
               \/ \E i \in 1..Len(q) : q[i] = s
    BY <1>4, <2>1, <2>2 DEF PathInv, DueIsAccounted, Stored
  <2>3. DueIsAccounted'
    BY <1>1, <1>5, <2>2 DEF DueIsAccounted
  <2> QED
    BY <2>1, <2>3 DEF PathInv
<1>7. CASE ~(Len(b) >= BatchMax)
  <2>1. batch' = b /\ UNCHANGED <<table, rows, dropped>>
    BY <1>1, <1>7
  <2>2. PathTypes'
    <3>1. Len(q) <= QueueCap /\ Len(b) < BatchMax
      BY <1>2, <1>3, <1>7, Sizes
    <3> QED
      BY <1>1, <1>2, <2>1, <3>1 DEF PathInv, PathTypes
  <2>3. PathInOrder'
    BY <1>1, <1>2, <2>1 DEF PathInv, PathInOrder, PushedInOrder, TableInOrder, BatchInOrder, QueueInOrder
  <2>4. NoOrphanSamples'
    BY <1>1, <2>1 DEF PathInv, NoOrphanSamples
  <2>5. ASSUME NEW s \in due
        PROVE  \/ s.machine \notin servers \/ Stored(s)
               \/ \E i \in 1..Len(b) : b[i] = s
               \/ \E i \in 1..Len(q) : q[i] = s
    BY <1>4, <2>5 DEF PathInv, DueIsAccounted
  <2>6. DueIsAccounted'
    BY <1>1, <1>5, <2>1, <2>5 DEF DueIsAccounted, Stored, StoredIn
  <2> QED
    BY <2>2, <2>3, <2>4, <2>6 DEF PathInv
<1> QED
  BY <1>6, <1>7

\* The timer's flush, and the last one before the writer leaves.
LEMMA PathFlush ==
  ASSUME PathInv, Flush(batch), wpc # "exited",
         UNCHANGED <<live, servers, queue, count, pushed, due, closing>>,
         wpc' \in {"run", "drain", "exited"}, wpc' # "run" => wpc # "run",
         wpc' = "exited" => queue = <<>>
  PROVE  PathInv'
<1>1. /\ PathTypes' /\ PathInOrder' /\ NoOrphanSamples' /\ Len(batch') = 0
      /\ \A s : Stored(s) => Stored(s)'
      /\ \A i \in 1..Len(batch) : batch[i].machine \notin servers \/ StoredIn(batch[i], table', dropped')
  <2>1. /\ PathTypes /\ NoOrphanSamples /\ PushedInOrder
        /\ batch \in Seq(Sample) /\ queue \in Seq(Sample) /\ Len(queue) <= QueueCap
        /\ TableInOrder(batch, queue) /\ BatchInOrder(batch, queue) /\ QueueInOrder(queue)
    BY DEF PathInv, PathInOrder, PathTypes
  <2> QED
    BY <2>1, FlushKeeps
<1>2. wpc' = "exited" => Len(queue) = 0
  BY EmptySeq
<1>3. ASSUME NEW s \in due
      PROVE  \/ s.machine \notin servers \/ Stored(s)'
             \/ wpc' # "exited" /\ \E i \in 1..Len(queue) : queue[i] = s
  BY <1>1, <1>2, <1>3 DEF PathInv, DueIsAccounted, Stored
<1>4. DueIsAccounted'
  BY <1>1, <1>3 DEF PathInv, DueIsAccounted
<1> QED
  BY <1>1, <1>4 DEF PathInv

LEMMA PathDeleteRow ==
  ASSUME PathInv, NEW m \in Machine, DeleteRow(m)
  PROVE  PathInv'
<1>1. /\ servers' = servers \ {m} /\ table' = {x \in table : x.sample.machine # m}
      /\ UNCHANGED <<live, count, pushed, queue, batch, rows, dropped, due, closing, wpc>>
  BY DEF DeleteRow
<1>2. PathTypes'
  BY <1>1 DEF PathInv, PathTypes
<1>3. PathInOrder'
  BY <1>1 DEF PathInv, PathInOrder, PushedInOrder, TableInOrder, BatchInOrder, QueueInOrder
<1>4. NoOrphanSamples'
  BY <1>1 DEF PathInv, NoOrphanSamples
<1>5. \A s : Stored(s) /\ s.machine \in servers' => Stored(s)'
  BY <1>1 DEF Stored, StoredIn
<1>6. DueIsAccounted'
  BY <1>1, <1>5 DEF PathInv, DueIsAccounted
<1> QED
  BY <1>2, <1>3, <1>4, <1>6 DEF PathInv

\* Steps that only change who is live, or that the writer stops.
LEMMA PathStays ==
  ASSUME PathInv, live' \subseteq Machine, closing' \in BOOLEAN, closing => closing',
         wpc' \in {wpc, "drain"}, wpc' # wpc => wpc = "run" /\ closing,
         UNCHANGED <<servers, count, pushed, queue, batch, table, rows, dropped, due>>
  PROVE  PathInv'
<1>1. PathTypes'
  BY DEF PathInv, PathTypes
<1>2. PathInOrder' /\ NoOrphanSamples'
  BY DEF PathInv, PathInOrder, PushedInOrder, TableInOrder, BatchInOrder, QueueInOrder, NoOrphanSamples
<1>3. DueIsAccounted'
  BY DEF PathInv, DueIsAccounted, Stored, StoredIn
<1> QED
  BY <1>1, <1>2, <1>3 DEF PathInv

LEMMA PathNext == PathInv /\ [Next]_vars => PathInv'
<1> SUFFICES ASSUME PathInv, [Next]_vars PROVE PathInv'
  OBVIOUS
<1>1. live \subseteq Machine /\ closing \in BOOLEAN
  BY DEF PathInv, PathTypes
<1>2. CASE FlushTimer
  BY <1>2, PathFlush DEF FlushTimer
<1>3. CASE Exit
  BY <1>3, PathFlush DEF Exit, DrainEnds
<1>4. CASE BeginDrain
  BY <1>1, <1>4, PathStays DEF BeginDrain, history
<1>5. CASE Close
  BY <1>1, <1>5, PathStays DEF Close, history
<1>6. ASSUME NEW m \in Machine, RemoveLive(m) PROVE PathInv'
  BY <1>1, <1>6, PathStays DEF RemoveLive, history
<1>7. CASE UNCHANGED vars
  BY <1>1, <1>7, PathStays DEF vars
<1> QED
  BY <1>2, <1>3, <1>4, <1>5, <1>6, <1>7, PathPush, PathQueueSample, PathTake, PathDeleteRow
  DEF Next, Writer
-----------------------------------------------------------------------------
(* What ring and history keep *)

\* hub.go, store.go: the invariant the theorems below rest on holds through
\* pushes, full queues, flushes, failed transactions, removals and shutdown.
THEOREM IInvAlways == Spec => []IInv
<1>1. Init => IInv
  <2> SUFFICES ASSUME Init PROVE IInv
    OBVIOUS
  <2>1. <<>> \in Seq(Sample) /\ Len(<<>>) = 0
    BY EmptySeq
  <2>2. RingsInv
    BY <2>1, EmptyFollows DEF Init, RingsInv
  <2>3. PathTypes
    <3>1. Len(queue) = 0 /\ Len(batch) = 0 /\ queue \in Seq(Sample) /\ batch \in Seq(Sample)
      BY <2>1 DEF Init
    <3>2. Len(queue) <= QueueCap /\ Len(batch) < BatchMax /\ 0 \in 0..MaxSamples
      BY <3>1, Sizes
    <3> QED
      BY <3>1, <3>2 DEF Init, PathTypes
  <2>4. PathInOrder
    BY <2>1 DEF Init, PathInOrder, PushedInOrder, TableInOrder, BatchInOrder, QueueInOrder
  <2>5. DueIsAccounted /\ NoOrphanSamples
    BY DEF Init, DueIsAccounted, NoOrphanSamples
  <2> QED
    BY <2>2, <2>3, <2>4, <2>5 DEF IInv, PathInv
<1>2. IInv /\ [Next]_vars => IInv'
  BY RingsNext, PathNext DEF IInv, PathInv
<1> QED
  BY <1>1, <1>2, PTL DEF Spec

\* hub.go ring: for every ring size, the snapshot is the most recent samples of
\* the machine, oldest first, and latest is the newest.
THEOREM RingIsRight == Spec => []RingHoldsTheLastSamples
<1>1. IInv => RingHoldsTheLastSamples
  <2> SUFFICES ASSUME IInv PROVE RingHoldsTheLastSamples
    OBVIOUS
  <2>1. TypeOK
    <3>1. Len(batch) <= BatchMax
      BY SequenceFacts, Sizes DEF IInv, PathInv, PathTypes
    <3> QED
      BY <3>1 DEF IInv, RingsInv, RingType, PathInv, PathTypes, TypeOK
  <2>2. ASSUME NEW m \in Machine
        PROVE  LET h == seen[m]
                   k == IF Len(h) < RingSize THEN Len(h) ELSE RingSize
               IN /\ RingSnapshot(ring[m]) = SubSeq(h, Len(h) - k + 1, Len(h))
                  /\ h # <<>> => RingLatest(ring[m]) = h[Len(h)]
    <3>1. ring[m] \in RingType /\ seen[m] \in Seq(Sample) /\ Follows(ring[m], seen[m])
      BY <2>2 DEF IInv, RingsInv
    <3> QED
      BY <3>1, SnapshotIsRight
  <2> QED
    BY <2>1, <2>2 DEF RingHoldsTheLastSamples
<1> QED
  BY <1>1, IInvAlways, PTL

\* store.go insertBatch: no row of a removed machine survives or reappears.
THEOREM NoOrphans == Spec => []NoOrphanSamples
<1>1. IInv => NoOrphanSamples
  BY DEF IInv, PathInv
<1> QED
  BY <1>1, IInvAlways, PTL

\* store.go writer: the history of every connection is written in the order of
\* arrival, no sample twice, however the connections' goroutines interleave, and
\* what was queued before Close is in the table when the writer has left, for
\* every queue capacity and batch limit.
THEOREM HistoryIsWritten == Spec => []HistoryIsExact
<1>1. IInv => HistoryIsExact
  BY DEF IInv, PathInv, PathInOrder, TableInOrder, Before, DueIsAccounted, Stored, StoredIn, HistoryIsExact
<1> QED
  BY <1>1, IInvAlways, PTL
=============================================================================
