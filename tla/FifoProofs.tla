---------------------------- MODULE FifoProofs ----------------------------
(***************************************************************************)
(* For every element set, chunk bound and capacity: the FIFO of Fifo.tla   *)
(* keeps its live region inside its block and free of unwritten cells, and *)
(* implements the queue of PipeQueue.tla.  First what the block moves do   *)
(* to a section of cells, then one lemma per helper saying what it does to *)
(* Contents, then the actions.                                             *)
(***************************************************************************)
EXTENDS Fifo, SequenceTheorems, TLAPS

-----------------------------------------------------------------------------
(* Sections of a block.                                                    *)

\* A fully written section is a sequence of elements.
LEMMA SectionIsSeq ==
  ASSUME NEW b, NEW h \in Nat, NEW t \in Nat, h <= t,
         \A i \in h..(t - 1) : b[i] \in Val
  PROVE  Section(b, h, t) \in Seq(Val) /\ Len(Section(b, h, t)) = t - h
  BY DEF Section

\* The sequence q with the first k elements of src after it.
Extended(q, src, k) == q \o SubSeq(src, 1, k)

\* Block d is block b with the first k elements of src written from cell t.
AddedAt(d, b, h, t, src, k) ==
  /\ \A i \in h..(t - 1) : d[i] = b[i] /\ b[i] \in Val
  /\ \A i \in t..(t + k - 1) : d[i] = src[i - t + 1]

\* k elements of src written behind the section: they extend it.
LEMMA WrittenSection ==
  ASSUME NEW b, NEW h \in Nat, NEW t \in Nat, h <= t,
         NEW k \in Nat, NEW src \in Seq(Val), k <= Len(src),
         NEW u, u = t + k, NEW d, AddedAt(d, b, h, t, src, k)
  PROVE  Section(d, h, u) = Extended(Section(b, h, t), src, k)
<1>0. /\ \A i \in h..(t - 1) : d[i] = b[i] /\ b[i] \in Val
      /\ \A i \in t..(t + k - 1) : d[i] = src[i - t + 1]
  BY DEF AddedAt
<1> DEFINE l == Section(d, h, t + k)
           q == Section(b, h, t)
           s == SubSeq(src, 1, k)
<1>1. \A i \in h..(t + k - 1) : d[i] \in Val
  <2>1. \A i \in t..(t + k - 1) : i - t + 1 \in 1..Len(src)
    OBVIOUS
  <2> QED BY <1>0, <2>1
<1>2. s \in Seq(Val) /\ Len(s) = k /\ \A i \in 1..k : s[i] = src[i]
  OBVIOUS
<1>3. q \in Seq(Val) /\ Len(q) = t - h
  BY <1>0, SectionIsSeq
<1>4. l \in Seq(Val) /\ Len(l) = t + k - h
  <2>1. t + k \in Nat /\ h <= t + k
    OBVIOUS
  <2>2. \A i \in h..(u - 1) : d[i] \in Val
    BY <1>1
  <2>3. u \in Nat /\ h <= u
    BY <2>1
  <2>4. Section(d, h, u) \in Seq(Val) /\ Len(Section(d, h, u)) = u - h
    BY <2>2, <2>3, SectionIsSeq
  <2> QED BY <2>4
<1>5. /\ \A i \in 1..(t - h) : l[i] = b[h + i - 1] /\ q[i] = b[h + i - 1]
      /\ \A i \in (t - h + 1)..(t + k - h) : l[i] = src[i - (t - h)]
  <2>1. \A i \in 1..(t + k - h) : l[i] = d[h + i - 1]
    BY DEF Section
  <2>2. \A i \in 1..(t - h) : q[i] = b[h + i - 1]
    BY DEF Section
  <2>3. \A j \in h..(t - 1) : d[j] = b[j]
    BY <1>0
  <2>4. \A j \in t..(t + k - 1) : d[j] = src[j - t + 1]
    BY <1>0
  <2> HIDE DEF l, q, s
  <2>5. ASSUME NEW i \in 1..(t - h)
        PROVE  l[i] = b[h + i - 1]
    <3>1. i \in 1..(t + k - h) /\ h + i - 1 \in h..(t - 1)
      OBVIOUS
    <3> QED BY <2>1, <2>3, <3>1
  <2>6. ASSUME NEW i \in (t - h + 1)..(t + k - h)
        PROVE  l[i] = src[i - (t - h)]
    <3>1. /\ i \in 1..(t + k - h)
          /\ h + i - 1 \in t..(t + k - 1)
          /\ h + i - 1 - t + 1 = i - (t - h)
      OBVIOUS
    <3> QED BY <2>1, <2>4, <3>1
  <2> QED BY <2>2, <2>5, <2>6
<1> HIDE DEF l, q, s
<1>6. /\ q \o s \in Seq(Val) /\ Len(q \o s) = t + k - h
      /\ \A i \in 1..(t + k - h) :
           (q \o s)[i] = IF i <= t - h THEN q[i] ELSE s[i - (t - h)]
  <2>1. Len(q) + Len(s) = t + k - h
    BY <1>2, <1>3
  <2>2. q \in Seq(Val) /\ s \in Seq(Val)
    BY <1>2, <1>3
  <2>3. /\ q \o s \in Seq(Val) /\ Len(q \o s) = Len(q) + Len(s)
        /\ \A i \in 1..(Len(q) + Len(s)) :
             (q \o s)[i] = IF i <= Len(q) THEN q[i] ELSE s[i - Len(q)]
    BY <2>2, ConcatProperties
  <2> QED BY <1>3, <2>1, <2>3
<1>7. l = q \o s
  <2>1. ASSUME NEW i \in 1..Len(l)
        PROVE  l[i] = (q \o s)[i]
    <3>1. CASE i <= t - h
      BY <1>4, <1>5, <1>6, <3>1
    <3>2. CASE ~(i <= t - h)
      <4>1. i \in (t - h + 1)..(t + k - h) /\ i - (t - h) \in 1..k
        BY <1>4, <3>2
      <4>2. l[i] = src[i - (t - h)] /\ s[i - (t - h)] = src[i - (t - h)]
        BY <1>2, <1>5, <4>1
      <4>3. (q \o s)[i] = s[i - (t - h)]
        BY <1>4, <1>6, <3>2
      <4> QED BY <4>2, <4>3
    <3> QED BY <3>1, <3>2
  <2> QED BY <1>4, <1>6, <2>1, SeqEqual
<1> QED BY <1>7 DEF l, q, s, Extended

\* The first k cells of a section, and what is left of it without them.
LEMMA SplitSection ==
  ASSUME NEW b, NEW h \in Nat, NEW t \in Nat, NEW k \in Nat, h + k <= t,
         \A i \in h..(t - 1) : b[i] \in Val
  PROVE  /\ Section(b, h, h + k) = SubSeq(Section(b, h, t), 1, k)
         /\ Section(b, h + k, t) = SubSeq(Section(b, h, t), k + 1, t - h)
<1> DEFINE q == Section(b, h, t)
           x == Section(b, h, h + k)
           y == Section(b, h + k, t)
<1>1. /\ q \in Seq(Val) /\ Len(q) = t - h
      /\ x \in Seq(Val) /\ Len(x) = k
      /\ y \in Seq(Val) /\ Len(y) = t - h - k
  BY SectionIsSeq
<1>2. /\ \A i \in 1..(t - h) : q[i] = b[h + i - 1]
      /\ \A i \in 1..k : x[i] = b[h + i - 1]
      /\ \A i \in 1..(t - h - k) : y[i] = b[h + k + i - 1]
  BY DEF Section
<1> HIDE DEF q, x, y
<1>3. /\ SubSeq(q, 1, k) \in Seq(Val) /\ Len(SubSeq(q, 1, k)) = k
      /\ \A i \in 1..k : SubSeq(q, 1, k)[i] = q[i]
  BY <1>1
<1>4. /\ SubSeq(q, k + 1, t - h) \in Seq(Val)
      /\ Len(SubSeq(q, k + 1, t - h)) = t - h - k
      /\ \A i \in 1..(t - h - k) : SubSeq(q, k + 1, t - h)[i] = q[k + i]
  <2>1. \A i \in (k + 1)..(t - h) : q[i] \in Val
    BY <1>1
  <2>2. /\ k + 1 \in Int /\ t - h \in Int
        /\ (t - h) - (k + 1) + 1 = t - h - k
        /\ k + 1 <= t - h \/ t - h - k = 0
    OBVIOUS
  <2>3. \A i \in 1..(t - h - k) : (k + 1) + i - 1 = k + i
    OBVIOUS
  <2>4. /\ SubSeq(q, k + 1, t - h) \in Seq(Val)
        /\ Len(SubSeq(q, k + 1, t - h)) =
             IF k + 1 <= t - h THEN (t - h) - (k + 1) + 1 ELSE 0
        /\ \A i \in 1..((t - h) - (k + 1) + 1) :
             SubSeq(q, k + 1, t - h)[i] = q[(k + 1) + i - 1]
    BY <2>1, <2>2, SubSeqProperties
  <2> QED BY <2>2, <2>3, <2>4
<1>5. x = SubSeq(q, 1, k)
  <2>1. \A i \in 1..k : i \in 1..(t - h)
    OBVIOUS
  <2>2. \A i \in 1..k : x[i] = SubSeq(q, 1, k)[i]
    BY <1>2, <1>3, <2>1
  <2> QED BY <1>1, <1>3, <2>2, SeqEqual
<1>6. y = SubSeq(q, k + 1, t - h)
  BY <1>1, <1>2, <1>4, SeqEqual
<1> QED BY <1>5, <1>6 DEF q, x, y

-----------------------------------------------------------------------------
(* The helpers of Fifo.tla.                                                *)

\* The inductive invariant, of one FIFO record.
Sound(f) == WellFormed(f) /\ AllWritten(f) /\ (f.head = f.tail => f.head = 0)

\* The fields of a sound FIFO, and a sound FIFO from its fields.
LEMMA SoundFields ==
  ASSUME NEW f, Sound(f)
  PROVE  \E b, c, h, t :
           /\ f = [buf |-> b, cap |-> c, head |-> h, tail |-> t]
           /\ c \in 0..MaxCap /\ h \in Nat /\ t \in Nat /\ h <= t /\ t <= c
           /\ b \in [0..(c - 1) -> Val \cup {Junk}]
           /\ \A i \in h..(t - 1) : b[i] \in Val
           /\ h = t => h = 0
<1> USE FifoAssumption
<1>1. f = [buf |-> f.buf, cap |-> f.cap, head |-> f.head, tail |-> f.tail]
  BY DEF Sound, WellFormed
<1>2. /\ f.cap \in 0..MaxCap /\ f.head \in Nat /\ f.tail \in Nat
      /\ f.head <= f.tail /\ f.tail <= f.cap
      /\ f.buf \in [0..(f.cap - 1) -> Val \cup {Junk}]
  BY DEF Sound, WellFormed, Cells
<1>3. /\ \A i \in f.head..(f.tail - 1) : f.buf[i] \in Val
      /\ f.head = f.tail => f.head = 0
  BY DEF Sound, AllWritten
<1> QED BY <1>1, <1>2, <1>3

LEMMA FieldsSound ==
  ASSUME NEW c \in 0..MaxCap, NEW h \in Nat, NEW t \in Nat, h <= t, t <= c,
         NEW b \in [0..(c - 1) -> Val \cup {Junk}],
         \A i \in h..(t - 1) : b[i] \in Val,
         h = t => h = 0
  PROVE  Sound([buf |-> b, cap |-> c, head |-> h, tail |-> t])
<1> USE FifoAssumption
<1>1. WellFormed([buf |-> b, cap |-> c, head |-> h, tail |-> t])
  BY DEF WellFormed, Cells
<1>2. AllWritten([buf |-> b, cap |-> c, head |-> h, tail |-> t])
  BY DEF AllWritten
<1> QED BY <1>1, <1>2 DEF Sound

\* Compaction moves the live elements and changes none of them.
LEMMA CompactedKeeps ==
  ASSUME NEW f, Sound(f)
  PROVE  /\ Sound(Compacted(f))
         /\ Contents(Compacted(f)) = Contents(f)
         /\ Compacted(f).cap = f.cap
         /\ Compacted(f).tail = f.tail - f.head
<1> USE FifoAssumption
<1>1. PICK b, c, h, t :
        /\ f = [buf |-> b, cap |-> c, head |-> h, tail |-> t]
        /\ c \in 0..MaxCap /\ h \in Nat /\ t \in Nat /\ h <= t /\ t <= c
        /\ b \in [0..(c - 1) -> Val \cup {Junk}]
        /\ \A i \in h..(t - 1) : b[i] \in Val
        /\ h = t => h = 0
  BY SoundFields
<1> DEFINE d == [i \in 0..(c - 1) |-> IF i < t - h THEN b[h + i] ELSE b[i]]
<1>2. Compacted(f) = [buf |-> d, cap |-> c, head |-> 0, tail |-> t - h]
  BY <1>1 DEF Compacted
<1>3. /\ d \in [0..(c - 1) -> Val \cup {Junk}]
      /\ \A i \in 0..(t - h - 1) : d[i] = b[h + i]
  BY <1>1
<1> HIDE DEF d
<1>4. \A i \in 0..(t - h - 1) : d[i] \in Val
  BY <1>1, <1>3
<1>5. t - h \in Nat /\ t - h <= c 
  BY <1>1
<1>6. Sound(Compacted(f))
  BY <1>1, <1>2, <1>3, <1>4, <1>5, FieldsSound
<1>7. Section(d, 0, t - h) = Section(b, h, t)
  <2>1. ASSUME NEW i \in 1..(t - h)
        PROVE  d[0 + i - 1] = b[h + i - 1]
    <3>1. i - 1 \in 0..(t - h - 1) /\ 0 + i - 1 = i - 1 /\ h + (i - 1) = h + i - 1
      BY <1>1
    <3> QED BY <1>3, <3>1
  <2>2. (t - h) - 0 = t - h
    BY <1>1
  <2> QED BY <2>1, <2>2 DEF Section
<1> QED BY <1>1, <1>2, <1>6, <1>7 DEF Contents

\* Growth adds unwritten cells, all of them beyond the live region.
LEMMA GrownKeeps ==
  ASSUME NEW f, Sound(f), NEW n \in 0..MaxCap, f.cap <= n
  PROVE  /\ Sound(Grown(f, n))
         /\ Contents(Grown(f, n)) = Contents(f)
         /\ Grown(f, n).cap = n
         /\ Grown(f, n).tail = f.tail
<1> USE FifoAssumption
<1>1. PICK b, c, h, t :
        /\ f = [buf |-> b, cap |-> c, head |-> h, tail |-> t]
        /\ c \in 0..MaxCap /\ h \in Nat /\ t \in Nat /\ h <= t /\ t <= c
        /\ b \in [0..(c - 1) -> Val \cup {Junk}]
        /\ \A i \in h..(t - 1) : b[i] \in Val
        /\ h = t => h = 0
  BY SoundFields
<1> DEFINE d == [i \in 0..(n - 1) |-> IF i < c THEN b[i] ELSE Junk]
<1>2. Grown(f, n) = [buf |-> d, cap |-> n, head |-> h, tail |-> t]
  BY <1>1 DEF Grown
<1>3. /\ d \in [0..(n - 1) -> Val \cup {Junk}]
      /\ \A i \in h..(t - 1) : d[i] = b[i]
  BY <1>1
<1> HIDE DEF d
<1>4. \A i \in h..(t - 1) : d[i] \in Val
  BY <1>1, <1>3
<1>5. Sound(Grown(f, n))
  BY <1>1, <1>2, <1>3, <1>4, FieldsSound
<1>6. Section(d, h, t) = Section(b, h, t)
  <2>1. \A i \in 1..(t - h) : d[h + i - 1] = b[h + i - 1]
    BY <1>1, <1>3
  <2> QED BY <2>1 DEF Section
<1> QED BY <1>1, <1>2, <1>5, <1>6 DEF Contents

\* The doubling loop ends at or above both the need and the old capacity.
LEMMA NewCapsBounds ==
  ASSUME NEW f, f.cap \in Nat, f.tail \in Nat, NEW n \in Nat, NEW c \in NewCaps(f, n)
  PROVE  c \in Nat /\ c >= f.tail + n /\ c >= f.cap
<1>1. CASE f.cap = 0
  BY <1>1, FifoAssumption DEF NewCaps
<1>2. CASE f.cap # 0
  BY <1>2 DEF NewCaps
<1> QED BY <1>1, <1>2

\* A reserve that succeeds makes the room asked for, keeps the contents, and
\* enlarges the block only when live elements and request exceed it.
LEMMA ReservedKeeps ==
  ASSUME NEW f, Sound(f), NEW n \in Nat, NEW g \in Reserved(f, n)
  PROVE  /\ Sound(g) /\ Contents(g) = Contents(f)
         /\ g.tail + n <= g.cap
         /\ g.cap > f.cap => Live(f) + n > f.cap
<1> DEFINE m == Compacted(f)
<1>1. /\ Sound(m) /\ Contents(m) = Contents(f)
      /\ m.cap = f.cap /\ m.tail = f.tail - f.head
  BY CompactedKeeps
<1>2. f.cap \in Nat /\ f.head \in Nat /\ f.tail \in Nat
  BY FifoAssumption DEF Sound, WellFormed
<1>3. m.cap \in Nat /\ m.tail \in Nat
  BY <1>1, FifoAssumption DEF Sound, WellFormed
<1> HIDE DEF m
<1>4. CASE Fits(f, n)
  BY <1>2, <1>4 DEF Reserved, Fits
<1>5. CASE ~Fits(f, n) /\ Fits(m, n)
  BY <1>1, <1>2, <1>5 DEF Reserved, Fits, m
<1>6. CASE ~Fits(f, n) /\ ~Fits(m, n)
  <2>1. PICK c \in NewCaps(m, n) : c <= MaxCap /\ g = Grown(m, c)
    BY <1>6 DEF Reserved, m
  <2>2. c \in Nat /\ c >= m.tail + n /\ c >= m.cap
    BY <1>3, <2>1, NewCapsBounds
  <2>3. c \in 0..MaxCap /\ m.cap <= c
    BY <1>3, <2>1, <2>2, FifoAssumption
  <2>4. /\ Sound(g) /\ Contents(g) = Contents(m)
        /\ g.cap = c /\ g.tail = m.tail
    BY <1>1, <2>1, <2>3, GrownKeeps
  <2>5. m.tail + n > m.cap
    BY <1>3, <1>6 DEF Fits
  <2> QED BY <1>1, <1>2, <2>2, <2>4, <2>5 DEF Live
<1> QED BY <1>4, <1>5, <1>6 DEF m

\* A write into reserved room appends to the contents.
LEMMA WrittenKeeps ==
  ASSUME NEW f, Sound(f), NEW src \in Seq(Val), NEW k \in Nat, k <= Len(src),
         f.tail + k <= f.cap
  PROVE  /\ Sound(Written(f, src, k))
         /\ Contents(Written(f, src, k)) = Extended(Contents(f), src, k)
         /\ Written(f, src, k).cap = f.cap
<1>1. PICK b, c, h, t :
        /\ f = [buf |-> b, cap |-> c, head |-> h, tail |-> t]
        /\ c \in 0..MaxCap /\ h \in Nat /\ t \in Nat /\ h <= t /\ t <= c
        /\ b \in [0..(c - 1) -> Val \cup {Junk}]
        /\ \A i \in h..(t - 1) : b[i] \in Val
        /\ h = t => h = 0
  BY SoundFields
<1> DEFINE d == [i \in 0..(c - 1) |->
                   IF t <= i /\ i < t + k THEN src[i - t + 1] ELSE b[i]]
<1>2. Written(f, src, k) = [buf |-> d, cap |-> c, head |-> h, tail |-> t + k]
  BY <1>1 DEF Written
<1>3. c \in Nat /\ t + k <= c
  BY <1>1, FifoAssumption
<1>4. /\ d \in [0..(c - 1) -> Val \cup {Junk}]
      /\ \A i \in h..(t + k - 1) : d[i] \in Val
      /\ \A i \in h..(t - 1) : d[i] = b[i]
      /\ \A i \in t..(t + k - 1) : d[i] = src[i - t + 1]
  BY <1>1, <1>3
<1>5. /\ t + k \in Nat /\ h <= t + k /\ t + k <= c
      /\ h = t + k => h = 0
  BY <1>1, <1>3
<1> HIDE DEF d
<1> DEFINE u == t + k
<1>6. Sound(Written(f, src, k))
  <2>1. /\ u \in Nat /\ h <= u /\ u <= c /\ (h = u => h = 0)
        /\ \A i \in h..(u - 1) : d[i] \in Val
    BY <1>1, <1>4, <1>5
  <2>2. Written(f, src, k) = [buf |-> d, cap |-> c, head |-> h, tail |-> u]
    BY <1>2
  <2> HIDE DEF u
  <2> QED BY <1>1, <1>4, <2>1, <2>2, FieldsSound
<1>7. Section(d, h, u) = Extended(Section(b, h, t), src, k)
  <2>1. AddedAt(d, b, h, t, src, k)
    BY <1>1, <1>4 DEF AddedAt
  <2>2. u = t + k
    OBVIOUS
  <2> HIDE DEF u
  <2> QED BY <1>1, <2>1, <2>2, WrittenSection
<1>8. /\ Contents(f) = Section(b, h, t)
      /\ Contents(Written(f, src, k)) = Section(d, h, t + k)
      /\ Written(f, src, k).cap = f.cap
  BY <1>1, <1>2 DEF Contents
<1> QED BY <1>6, <1>7, <1>8

\* Draining k elements returns the first k and leaves the others.
LEMMA DroppedKeeps ==
  ASSUME NEW f, Sound(f), NEW k \in Nat, k <= Live(f)
  PROVE  /\ Sound(Dropped(f, k))
         /\ Contents(f) \in Seq(Val) /\ Len(Contents(f)) = Live(f)
         /\ Section(f.buf, f.head, f.head + k) = SubSeq(Contents(f), 1, k)
         /\ Contents(Dropped(f, k)) = SubSeq(Contents(f), k + 1, Live(f))
         /\ Dropped(f, k).cap = f.cap
<1>1. PICK b, c, h, t :
        /\ f = [buf |-> b, cap |-> c, head |-> h, tail |-> t]
        /\ c \in 0..MaxCap /\ h \in Nat /\ t \in Nat /\ h <= t /\ t <= c
        /\ b \in [0..(c - 1) -> Val \cup {Junk}]
        /\ \A i \in h..(t - 1) : b[i] \in Val
        /\ h = t => h = 0
  BY SoundFields
<1>2. h + k <= t
  BY <1>1 DEF Live
<1>3. /\ Section(b, h, t) \in Seq(Val) /\ Len(Section(b, h, t)) = t - h
      /\ Section(b, h, h + k) = SubSeq(Section(b, h, t), 1, k)
      /\ Section(b, h + k, t) = SubSeq(Section(b, h, t), k + 1, t - h)
  <2>1. Section(b, h, t) \in Seq(Val) /\ Len(Section(b, h, t)) = t - h
    BY <1>1, SectionIsSeq
  <2>2. /\ Section(b, h, h + k) = SubSeq(Section(b, h, t), 1, k)
        /\ Section(b, h + k, t) = SubSeq(Section(b, h, t), k + 1, t - h)
    BY <1>1, <1>2, SplitSection, ZenonT(40)
  <2> QED BY <2>1, <2>2
<1>4. CASE h + k = t
  <2>1. Dropped(f, k) = [buf |-> b, cap |-> c, head |-> 0, tail |-> 0]
    BY <1>1, <1>4 DEF Dropped
  <2>2. Sound(Dropped(f, k))
    BY <1>1, <2>1, FieldsSound
  <2>3. Section(b, 0, 0) = Section(b, h + k, t)
    BY <1>1, <1>4 DEF Section
  <2> QED BY <1>1, <1>3, <2>1, <2>2, <2>3 DEF Contents, Live
<1>5. CASE h + k # t
  <2>1. Dropped(f, k) = [buf |-> b, cap |-> c, head |-> h + k, tail |-> t]
    BY <1>1, <1>5 DEF Dropped
  <2>2. Sound(Dropped(f, k))
    BY <1>1, <1>2, <1>5, <2>1, FieldsSound
  <2> QED BY <1>1, <1>3, <2>1, <2>2 DEF Contents, Live
<1> QED BY <1>4, <1>5

-----------------------------------------------------------------------------
(* The actions.  Safe is inductive; Mapped says what a step does to the     *)
(* queue that Contents(fifo) and call stand for.                           *)

CallType == [need : Nat, src : Seq(Val), ret : Nat \cup {-1}, dst : Seq(Val)]

Safe == Sound(fifo) /\ call \in CallType

Frugal == fifo'.cap > fifo.cap => Live(fifo) + call'.need > fifo.cap

\* An offered chunk is a sequence of elements.
LEMMA ChunkIsSeq ==
  ASSUME NEW src \in Chunks
  PROVE  src \in Seq(Val) /\ Len(src) \in Nat
  BY DEF Chunks

\* A length clamped to what a call can report.
LEMMA AtMostBounds ==
  ASSUME NEW n \in Nat, NEW k \in Nat
  PROVE  AtMost(n, k) \in Nat /\ AtMost(n, k) <= n /\ AtMost(n, k) <= k
  BY DEF AtMost

\* append that succeeds: the queue takes the offer.
LEMMA StoreStep ==
  ASSUME Safe, NEW src \in Chunks, Store(src)
  PROVE  Safe' /\ Frugal /\ Queue!Push(src)
<1> DEFINE k == AtMost(Len(src), IntMax)
<1>1. /\ src \in Seq(Val) /\ Len(src) \in Nat
      /\ k \in Nat /\ k <= Len(src)
  BY ChunkIsSeq, AtMostBounds, FifoAssumption
<1>2. Queue!AtMost(Len(src), IntMax) = k
  BY DEF Queue!AtMost, AtMost
<1>3. PICK g \in Reserved(fifo, k) :
        /\ fifo' = Written(g, src, k)
        /\ call' = [need |-> k, src |-> src, ret |-> k, dst |-> <<>>]
  BY DEF Store
<1> HIDE DEF k
<1>4. /\ Sound(g) /\ Contents(g) = Contents(fifo)
      /\ g.tail + k <= g.cap
      /\ g.cap > fifo.cap => Live(fifo) + k > fifo.cap
  BY <1>1, <1>3, ReservedKeeps DEF Safe
<1>5. /\ Sound(fifo')
      /\ Contents(fifo') = Extended(Contents(fifo), src, k)
      /\ fifo'.cap = g.cap
  BY <1>1, <1>3, <1>4, WrittenKeeps
<1>6. Safe'
  BY <1>1, <1>3, <1>5 DEF Safe, CallType
<1>7. Frugal
  BY <1>3, <1>4, <1>5 DEF Frugal
<1>8. Queue!Push(src)
  BY <1>2, <1>3, <1>5 DEF Queue!Push, Extended
<1> QED BY <1>6, <1>7, <1>8

\* A codec writing into reserved room: the queue takes what it wrote.
LEMMA ProduceStep ==
  ASSUME Safe, NEW n \in Nat, NEW out \in Chunks, Produce(n, out)
  PROVE  Safe' /\ Frugal /\ Queue!Push(out)
<1> DEFINE k == Len(out)
<1>1. out \in Seq(Val) /\ k \in Nat
  BY ChunkIsSeq
<1>2. PICK g \in Reserved(fifo, n) :
        /\ k <= g.cap - g.tail
        /\ k <= IntMax
        /\ fifo' = Written(g, out, k)
        /\ call' = [need |-> n, src |-> out, ret |-> k, dst |-> <<>>]
  BY DEF Produce
<1>3. Queue!AtMost(Len(out), IntMax) = k
  BY <1>1, <1>2 DEF Queue!AtMost
<1> HIDE DEF k
<1>4. /\ Sound(g) /\ Contents(g) = Contents(fifo)
      /\ g.cap > fifo.cap => Live(fifo) + n > fifo.cap
  BY <1>2, ReservedKeeps DEF Safe
<1>5. g.cap \in Nat /\ g.tail \in Nat
  BY <1>4, FifoAssumption DEF Sound, WellFormed
<1>6. g.tail + k <= g.cap /\ k <= Len(out)
  BY <1>1, <1>2, <1>5 DEF k
<1>7. /\ Sound(fifo')
      /\ Contents(fifo') = Extended(Contents(fifo), out, k)
      /\ fifo'.cap = g.cap
  BY <1>1, <1>2, <1>4, <1>6, WrittenKeeps
<1>8. Safe'
  BY <1>1, <1>2, <1>7 DEF Safe, CallType
<1>9. Frugal
  BY <1>2, <1>4, <1>7 DEF Frugal
<1>10. Queue!Push(out)
  BY <1>2, <1>3, <1>7 DEF Queue!Push, Extended
<1> QED BY <1>8, <1>9, <1>10

\* A reserve that fails compacts the block and changes nothing else.
LEMMA RefuseStep ==
  ASSUME Safe, NEW src \in Seq(Val), NEW n \in Nat,
         fifo' = Compacted(fifo),
         call' = [need |-> n, src |-> src, ret |-> -1, dst |-> <<>>]
  PROVE  Safe' /\ Frugal /\ Queue!Refuse(src)
<1>1. /\ Sound(fifo') /\ Contents(fifo') = Contents(fifo)
      /\ fifo'.cap = fifo.cap
  BY CompactedKeeps DEF Safe
<1>2. fifo.cap \in Nat
  BY FifoAssumption DEF Safe, Sound, WellFormed
<1>3. Safe'
  BY <1>1 DEF Safe, CallType
<1>4. Frugal
  BY <1>1, <1>2 DEF Frugal
<1>5. Queue!Refuse(src)
  BY <1>1 DEF Queue!Refuse
<1> QED BY <1>3, <1>4, <1>5

\* drain: the oldest elements leave.
LEMMA DrainStep ==
  ASSUME Safe, NEW n \in Nat, Drain(n)
  PROVE  Safe' /\ Frugal /\ Queue!Pull(n)
<1> DEFINE k == AtMost(AtMost(n, Live(fifo)), IntMax)
<1>1. Live(fifo) \in Nat /\ fifo.cap \in Nat
  BY FifoAssumption DEF Safe, Sound, WellFormed, Live
<1>2. AtMost(n, Live(fifo)) \in Nat /\ AtMost(n, Live(fifo)) <= Live(fifo)
  BY <1>1, AtMostBounds
<1>3. k \in Nat /\ k <= Live(fifo)
  BY <1>1, <1>2, FifoAssumption DEF AtMost
<1>4. /\ fifo' = Dropped(fifo, k)
      /\ call' = [need |-> 0, src |-> <<>>, ret |-> k,
                  dst |-> Section(fifo.buf, fifo.head, fifo.head + k)]
  BY DEF Drain
<1>5. Queue!AtMost(Queue!AtMost(n, Live(fifo)), IntMax) = k
  BY DEF Queue!AtMost, AtMost
<1> HIDE DEF k
<1>6. /\ Sound(fifo')
      /\ Contents(fifo) \in Seq(Val) /\ Len(Contents(fifo)) = Live(fifo)
      /\ call'.dst = SubSeq(Contents(fifo), 1, k)
      /\ Contents(fifo') = SubSeq(Contents(fifo), k + 1, Live(fifo))
      /\ fifo'.cap = fifo.cap
  BY <1>3, <1>4, DroppedKeeps DEF Safe
<1>7. SubSeq(Contents(fifo), 1, k) \in Seq(Val)
  BY <1>1, <1>3, <1>6
<1>8. Safe'
  BY <1>3, <1>4, <1>6, <1>7, SMTT(40) DEF Safe, CallType
<1>9. Frugal
  BY <1>1, <1>6 DEF Frugal
<1>10. Queue!Pull(n)
  BY <1>4, <1>5, <1>6 DEF Queue!Pull, Queue!Taken, Queue!Left
<1> QED BY <1>8, <1>9, <1>10

-----------------------------------------------------------------------------
(* The specification.                                                      *)

LEMMA InitSafe ==
  ASSUME Init
  PROVE  Safe /\ Queue!QInit
<1>1. fifo = [buf |-> [i \in 0..-1 |-> Junk], cap |-> 0, head |-> 0, tail |-> 0]
  BY DEF Init
<1> DEFINE b == [i \in 0..-1 |-> Junk]
<1>2. b \in [0..(0 - 1) -> Val \cup {Junk}] /\ 0 \in 0..MaxCap
  BY FifoAssumption
<1> HIDE DEF b
<1>3. Sound([buf |-> b, cap |-> 0, head |-> 0, tail |-> 0])
  <2>1. \A z : z = 0 => Sound([buf |-> b, cap |-> z, head |-> z, tail |-> z])
    <3> SUFFICES ASSUME NEW z, z = 0
                 PROVE  Sound([buf |-> b, cap |-> z, head |-> z, tail |-> z])
      OBVIOUS
    <3>1. /\ z \in 0..MaxCap /\ z \in Nat /\ z <= z
          /\ b \in [0..(z - 1) -> Val \cup {Junk}]
          /\ \A i \in z..(z - 1) : b[i] \in Val
          /\ z = z => z = 0
      BY <1>2
    <3> QED BY <3>1, FieldsSound
  <2> QED BY <2>1
<1>4. Safe
  BY <1>1, <1>3 DEF Init, Safe, CallType, b
<1>5. Contents(fifo) = <<>>
  BY <1>1 DEF Contents, Section
<1> QED BY <1>4, <1>5 DEF Init, Queue!QInit

\* Every step keeps Safe, is frugal and is a step of the queue.
LEMMA NextSafe ==
  ASSUME Safe, Next
  PROVE  Safe' /\ Frugal /\ Queue!QNext
<1> USE FifoAssumption
<1>1. ASSUME NEW src \in Chunks, Store(src)
      PROVE  Safe' /\ Frugal /\ Queue!QNext
  BY <1>1, StoreStep DEF Queue!QNext
<1>2. ASSUME NEW src \in Chunks, StoreNoMemory(src)
      PROVE  Safe' /\ Frugal /\ Queue!QNext
  <2>1. src \in Seq(Val) /\ AtMost(Len(src), IntMax) \in Nat
    BY ChunkIsSeq, AtMostBounds
  <2> QED BY <1>2, <2>1, RefuseStep DEF StoreNoMemory, Queue!QNext
<1>3. ASSUME NEW n \in 0..MaxChunk, ProduceNoMemory(n)
      PROVE  Safe' /\ Frugal /\ Queue!QNext
  <2>1. <<>> \in Seq(Val) /\ <<>> \in Chunks /\ n \in Nat
    BY DEF Chunks
  <2> QED BY <1>3, <2>1, RefuseStep DEF ProduceNoMemory, Queue!QNext
<1>4. ASSUME NEW n \in 0..MaxChunk, Drain(n)
      PROVE  Safe' /\ Frugal /\ Queue!QNext
  BY <1>4, DrainStep DEF Queue!QNext
<1>5. ASSUME NEW n \in 0..MaxChunk, NEW out \in Chunks, Produce(n, out)
      PROVE  Safe' /\ Frugal /\ Queue!QNext
  BY <1>5, ProduceStep DEF Queue!QNext
<1> QED BY <1>1, <1>2, <1>3, <1>4, <1>5 DEF Next

\* Safe is inductive.
THEOREM SpecSafe == Spec => []Safe
<1>1. Init => Safe
  BY InitSafe
<1>2. Safe /\ [Next]_vars => Safe'
  <2>1. Safe /\ Next => Safe'
    BY NextSafe
  <2>2. Safe /\ UNCHANGED vars => Safe'
    BY DEF vars, Safe, Sound, WellFormed, AllWritten
  <2> QED BY <2>1, <2>2
<1> QED BY <1>1, <1>2, PTL DEF Spec

\* The live region stays inside the block through every compaction, doubling,
\* short codec write and drain of fifo.h, whatever its sizes.
THEOREM FifoTypeOK == Spec => []TypeOK
<1>1. Safe => TypeOK
  BY DEF Safe, Sound, CallType, TypeOK
<1> QED BY <1>1, SpecSafe, PTL

\* A drain never returns a cell that nothing wrote since it was allocated.
THEOREM FifoLiveIsWritten == Spec => []LiveIsWritten
<1>1. Safe => LiveIsWritten
  BY DEF Safe, Sound, LiveIsWritten
<1> QED BY <1>1, SpecSafe, PTL

\* An emptied FIFO restarts at the front of its block.
THEOREM FifoEmptyAtFront == Spec => []EmptyAtFront
<1>1. Safe => EmptyAtFront
  BY DEF Safe, Sound, EmptyAtFront
<1> QED BY <1>1, SpecSafe, PTL

\* Only live elements and the request at hand ever cost memory.
THEOREM FifoGrowthNeeded == Spec => GrowthNeeded
<1>1. Safe /\ [Next]_vars => [fifo'.cap > fifo.cap => Live(fifo) + call'.need > fifo.cap]_vars
  BY NextSafe DEF Frugal
<1> QED BY <1>1, SpecSafe, PTL DEF Spec, GrowthNeeded

\* fifo.h implements the queue: nothing accepted is lost, reordered or
\* duplicated, and a call refused for memory changes nothing.
THEOREM FifoImplementsQueue == Spec => ImplementsQueue
<1>1. Init => Queue!QInit
  BY InitSafe
<1>2. Safe /\ [Next]_vars => [Queue!QNext]_(Queue!qvars)
  <2>1. Safe /\ Next => Queue!QNext
    BY NextSafe
  <2>2. UNCHANGED vars => UNCHANGED Queue!qvars
    BY DEF vars, Queue!qvars, Contents
  <2> QED BY <2>1, <2>2
<1> QED BY <1>1, <1>2, SpecSafe, PTL DEF Spec, ImplementsQueue, Queue!QSpec
=============================================================================
