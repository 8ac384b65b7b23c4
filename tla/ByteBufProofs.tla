---------------------------- MODULE ByteBufProofs ----------------------------
(***************************************************************************)
(* For every set of buffers, blocks and inputs and every first capacity of *)
(* at least 2, a buffer's block has exactly capacity bytes and belongs to  *)
(* no other buffer, and each operation makes of the buffers' bytes the     *)
(* string that ByteStrings promises, whatever blocks they were in; so no   *)
(* byte is seen that was not pushed.  The loop that grows a capacity is a  *)
(* recursive function: the second group of lemmas shows that it is well    *)
(* defined.  Then come a block's bytes under memcpy, the helpers on a      *)
(* buffer's fields and the heap, the operations, and the theorems.         *)
(***************************************************************************)
EXTENDS ByteBuf, WellFoundedInduction, SequenceTheorems, TLAPS

-----------------------------------------------------------------------------
(* Numbers *)

(* A set of numbers has a smallest, a bounded one a largest. *)
LEMMA Smallest ==
  ASSUME NEW T \in SUBSET Nat, T # {}
  PROVE  \E m \in T : \A k \in T : m <= k
<1>1. PICK m \in T : \A k \in T : ~(<<k, m>> \in OpToRel(<, Nat))
  BY NatLessThanWellFounded, WFMin
<1>2. \A k \in T : ~(k < m)
  BY <1>1 DEF OpToRel
<1> QED BY <1>2

LEMMA Largest ==
  ASSUME NEW n \in Nat, NEW T \in SUBSET (0 .. n), T # {}
  PROVE  \E m \in T : \A k \in T : k <= m
<1> DEFINE D == {n - k : k \in T}
<1>1. \A k \in T : k \in 0 .. n
  OBVIOUS
<1>2. \A d \in D : d \in Nat
  BY <1>1
<1>3. D \in SUBSET Nat /\ D # {}
  BY <1>2
<1>4. PICK d \in D : \A e \in D : d <= e
  BY <1>3, Smallest
<1>5. PICK m \in T : d = n - m
  OBVIOUS
<1>6. \A k \in T : n - m <= n - k
  BY <1>4, <1>5
<1> QED BY <1>1, <1>6

(* Remainders, for the shifts. *)
LEMMA Remainder ==
  ASSUME NEW a \in Nat, NEW d \in Nat \ {0}
  PROVE  /\ a % d \in 0 .. a
         /\ a < d => a % d = a
         /\ d * (a \div d) \in 0 .. a
         /\ a < d => a \div d = 0
<1>1. /\ a \div d \in Nat /\ a % d \in Nat /\ a % d < d
      /\ a = d * (a \div d) + (a % d)
  OBVIOUS
<1>2. \A q \in Nat : d * q \in Nat /\ (q # 0 => d * q >= d)
  OBVIOUS
<1> QED BY <1>1, <1>2

-----------------------------------------------------------------------------
(* Capacities *)

(* The capacities of buffers: a capacity of 1 would never grow. *)
Capacities == Nat \ {1}

LEMMA NextGrows ==
  /\ \A k \in Nat : NextCapacity(k) \in Nat /\ NextCapacity(k) >= k
  /\ \A k \in Capacities : NextCapacity(k) \in Capacities /\ NextCapacity(k) > k
<1>1. \A k \in Nat : k \div 2 \in Nat /\ (k >= 2 => k \div 2 >= 1)
  OBVIOUS
<1> QED BY <1>1, CapacityAssumption DEF NextCapacity, Capacities

(* g does what the loop does from capacity k on. *)
Grows(g, n, k) == g[k] = IF k >= n THEN k ELSE g[NextCapacity(k)]

LEMMA GrowthExists ==
  ASSUME NEW n \in Nat
  PROVE  \E g : g = [k \in Nat |-> IF k >= n THEN k ELSE g[NextCapacity(k)]]
<1> DEFINE From(j) == \E g : \A k \in Nat : k >= j => Grows(g, n, k)
<1>1. From(n)
  <2> DEFINE g == [k \in Nat |-> k]
  <2>1. \A k \in Nat : k >= n => Grows(g, n, k)
    BY DEF Grows
  <2> QED BY <2>1
<1>2. ASSUME NEW j \in Nat, From(j + 1) PROVE From(j)
  <2>1. PICK g : \A k \in Nat : k >= j + 1 => Grows(g, n, k)
    BY <1>2
  <2> DEFINE f == [k \in Nat |-> IF k = j THEN IF j >= n THEN j ELSE g[NextCapacity(j)]
                                 ELSE g[k]]
  <2>2. ASSUME NEW k \in Nat, k >= j PROVE Grows(f, n, k)
    <3>1. NextCapacity(k) \in Nat /\ NextCapacity(k) >= k
      BY NextGrows
    <3>2. CASE k > j
      BY <2>1, <3>1, <3>2 DEF Grows
    <3>3. CASE k = j /\ NextCapacity(j) # j
      BY <3>1, <3>3 DEF Grows
    <3>4. CASE k = j /\ NextCapacity(j) = j
      BY <3>4 DEF Grows
    <3> QED BY <2>2, <3>2, <3>3, <3>4
  <2> QED BY <2>2
<1>3. From(0)
  <2> DEFINE T == {j \in 0 .. n : ~From(j)}
  <2> HIDE DEF From
  <2>1. SUFFICES ASSUME T # {} PROVE FALSE
    OBVIOUS
  <2>2. PICK m \in T : \A k \in T : k <= m
    BY <2>1, Largest
  <2>3. m # n /\ m + 1 \in 0 .. n
    BY <1>1, <2>2
  <2>4. From(m + 1)
    BY <2>2, <2>3
  <2> QED BY <1>2, <2>2, <2>4
<1>4. PICK g : \A k \in Nat : Grows(g, n, k)
  BY <1>3
<1> DEFINE f == [k \in Nat |-> g[k]]
<1>5. f = [k \in Nat |-> IF k >= n THEN k ELSE f[NextCapacity(k)]]
  BY <1>4, NextGrows DEF Grows
<1> QED BY <1>5

(* The loop ends with a capacity that is enough and no smaller. *)
LEMMA CapacityFits ==
  ASSUME NEW c \in Capacities, NEW n \in Nat
  PROVE  /\ CapacityFor(c, n) \in Capacities
         /\ CapacityFor(c, n) >= n /\ CapacityFor(c, n) >= c
<1> DEFINE g == CHOOSE f : f = [k \in Nat |-> IF k >= n THEN k ELSE f[NextCapacity(k)]]
           Fits(k) == g[k] \in Capacities /\ g[k] >= n /\ g[k] >= k
<1>1. g = [k \in Nat |-> IF k >= n THEN k ELSE g[NextCapacity(k)]]
  BY GrowthExists
<1>2. CapacityFor(c, n) = g[c]
  BY DEF CapacityFor
<1> HIDE DEF g
<1>3. \A k \in Nat : g[k] = IF k >= n THEN k ELSE g[NextCapacity(k)]
  BY <1>1
<1>4. \A k \in Capacities : k >= n => Fits(k)
  BY <1>3 DEF Capacities
<1>5. \A k \in Capacities : Fits(k)
  <2> DEFINE T == {k \in 0 .. n : k \in Capacities /\ ~Fits(k)}
  <2>1. SUFFICES T = {}
    BY <1>4 DEF Capacities
  <2>2. SUFFICES ASSUME T # {} PROVE FALSE
    OBVIOUS
  <2>3. PICK m \in T : \A k \in T : k <= m
    BY <2>2, Largest
  <2>4. m \in Capacities /\ m < n /\ ~Fits(m)
    BY <1>4 DEF Capacities
  <2>5. NextCapacity(m) \in Capacities /\ NextCapacity(m) > m /\ g[m] = g[NextCapacity(m)]
    BY <1>3, <2>4, NextGrows DEF Capacities
  <2>6. Fits(NextCapacity(m))
    BY <1>4, <2>3, <2>5 DEF Capacities
  <2> QED BY <2>4, <2>5, <2>6 DEF Capacities
<1> QED BY <1>2, <1>5

-----------------------------------------------------------------------------
(* Sequences of bytes *)

(* x is a sequence of n bytes. *)
IsBlock(x, n) == x = [i \in 1 .. n |-> x[i]]

(* Length and parts of sequences of bytes *)
LEMMA BlockLength ==
  ASSUME NEW x, NEW n \in Nat, IsBlock(x, n)
  PROVE  Len(x) = n /\ DOMAIN x = 1 .. n /\ x \in Seq(Range(x))
<1>1. x \in [1 .. n -> Range(x)]
  BY DEF IsBlock, Range
<1>2. x \in Seq(Range(x))
  BY <1>1, SeqDef
<1> QED BY <1>1, <1>2, LenProperties

LEMMA NoBytes == IsBlock(<<>>, 0)
BY EmptySeq, SeqEqual DEF IsBlock

LEMMA SequenceIsBlock ==
  ASSUME NEW S, NEW s \in Seq(S)
  PROVE  IsBlock(s, Len(s)) /\ Len(s) \in Nat
BY LenProperties DEF IsBlock

(* y is the l bytes of x after the first k. *)
IsPart(y, x, k, l) == IsBlock(y, l) /\ \A i \in 1 .. l : y[i] = x[k + i]

LEMMA LastPart ==
  ASSUME NEW x, NEW k \in Nat, NEW n \in Int,
         NEW l \in Nat, l = IF k <= n THEN n - k ELSE 0
  PROVE  IsPart(SubSeq(x, k + 1, n), x, k, l)
<1> DEFINE S == {x[i] : i \in k + 1 .. n}
<1>1. \A i \in k + 1 .. n : x[i] \in S
  OBVIOUS
<1>2. /\ SubSeq(x, k + 1, n) \in Seq(S)
      /\ Len(SubSeq(x, k + 1, n)) = IF k + 1 <= n THEN n - (k + 1) + 1 ELSE 0
      /\ \A i \in 1 .. n - (k + 1) + 1 : SubSeq(x, k + 1, n)[i] = x[k + 1 + i - 1]
  BY <1>1, SubSeqProperties
<1>3. /\ l = IF k + 1 <= n THEN n - (k + 1) + 1 ELSE 0
      /\ \A i \in 1 .. l : i \in 1 .. n - (k + 1) + 1 /\ k + 1 + i - 1 = k + i
  OBVIOUS
<1> QED BY <1>2, <1>3, SequenceIsBlock DEF IsPart

LEMMA FirstPart ==
  ASSUME NEW x, NEW n \in Int, NEW l \in Nat, l = IF 0 <= n THEN n ELSE 0
  PROVE  IsBlock(SubSeq(x, 1, n), l) /\ \A i \in 1 .. l : SubSeq(x, 1, n)[i] = x[i]
<1>1. 0 + 1 = 1 /\ n - 0 = n /\ \A i \in 1 .. l : 0 + i = i
  OBVIOUS
<1>2. IsPart(SubSeq(x, 0 + 1, n), x, 0, l)
  BY <1>1, LastPart
<1> QED BY <1>1, <1>2 DEF IsPart

(* z is the m bytes of x, then the n bytes of y. *)
Joins(z, x, m, y, n) ==
  /\ IsBlock(z, m + n)
  /\ \A i \in 1 .. m + n : z[i] = IF i <= m THEN x[i] ELSE y[i - m]

LEMMA Joined ==
  ASSUME NEW x, NEW m \in Nat, IsBlock(x, m), NEW y, NEW n \in Nat, IsBlock(y, n)
  PROVE  Joins(x \o y, x, m, y, n)
<1> DEFINE S == Range(x) \cup Range(y)
<1>1. x \in Seq(S) /\ y \in Seq(S) /\ Len(x) = m /\ Len(y) = n
  BY BlockLength, SeqMonotonic
<1>2. /\ x \o y \in Seq(S) /\ Len(x \o y) = m + n
      /\ \A i \in 1 .. m + n : (x \o y)[i] = IF i <= m THEN x[i] ELSE y[i - m]
  BY <1>1, ConcatProperties
<1> QED BY <1>2, SequenceIsBlock DEF Joins

-----------------------------------------------------------------------------
(* Blocks *)

(* The heap k is h with the bytes of block a rewritten. *)
Rewritten(a, h, k) ==
  /\ Live(k) = Live(h)
  /\ \A c \in Live(h) \ {a} : k[c] = h[c]
  /\ a \in Live(h) => \A n \in Nat : IsBlock(h[a], n) => IsBlock(k[a], n)

LEMMA RewrittenTwice ==
  ASSUME NEW a, NEW h, NEW k, NEW l, Rewritten(a, h, k), Rewritten(a, k, l)
  PROVE  Rewritten(a, h, l)
BY DEF Rewritten

LEMMA PutRewrites ==
  ASSUME NEW h, NEW a \in Live(h), NEW block,
         \A n \in Nat : IsBlock(h[a], n) => IsBlock(block, n)
  PROVE  Rewritten(a, h, Put(h, a, block)) /\ Put(h, a, block)[a] = block
BY DEF Put, Live, Rewritten

LEMMA WrittenBytes ==
  ASSUME NEW x, NEW n \in Nat, IsBlock(x, n), NEW k, NEW s
  PROVE  /\ IsBlock(Written(x, k, s), n)
         /\ \A i \in 1 .. n :
              Written(x, k, s)[i] = IF k < i /\ i <= k + Len(s) THEN s[i - k] ELSE x[i]
BY BlockLength DEF Written, IsBlock

(* y is x with s written after its first k bytes. *)
Overwritten(x, y, k, s) ==
  \A n \in Nat : IsBlock(x, n) =>
    \A i \in 1 .. n : y[i] = IF k < i /\ i <= k + Len(s) THEN s[i - k] ELSE x[i]

LEMMA WriteRewrites ==
  ASSUME NEW h, NEW a, NEW k \in Nat, NEW s, a \in Live(h) \/ s = <<>>
  PROVE  /\ Rewritten(a, h, Write(h, a, k, s))
         /\ Overwritten(h[a], Write(h, a, k, s)[a], k, s)
<1>1. CASE s = <<>>
  <2>1. Len(s) = 0
    BY <1>1, EmptySeq
  <2> QED BY <1>1, <2>1 DEF Write, Rewritten, Overwritten
<1>2. CASE s # <<>>
  BY <1>2, WrittenBytes, PutRewrites DEF Write, Overwritten
<1> QED BY <1>1, <1>2

(* The ranges do not overlap, or are the same. *)
Separate(to, from, n) ==
  to = from \/ (from > to /\ n <= from - to) \/ (to > from /\ n <= to - from)

(* Where copying upwards and downwards takes byte i of n from.             *)
Up(to, from, i) == 1 + (IF to > from THEN (i - 1) % (to - from) ELSE i - 1)
Down(to, from, n, i) ==
  i + (IF from > to THEN (from - to) * ((n - i) \div (from - to)) ELSE 0)

LEMMA UpAndDown ==
  ASSUME NEW to \in Nat, NEW from \in Nat, NEW n \in Nat, NEW i \in 1 .. n
  PROVE  /\ Up(to, from, i) \in 1 .. n /\ Down(to, from, n, i) \in 1 .. n
         /\ Separate(to, from, n) => Up(to, from, i) = i /\ Down(to, from, n, i) = i
<1>1. i - 1 \in Nat /\ n - i \in Nat
  OBVIOUS
<1>2. CASE to > from
  <2>1. to - from \in Nat \ {0}
    BY <1>2
  <2>2. /\ (i - 1) % (to - from) \in 0 .. i - 1
        /\ i - 1 < to - from => (i - 1) % (to - from) = i - 1
    BY <1>1, <2>1, Remainder
  <2> QED BY <1>2, <2>2 DEF Up, Down, Separate
<1>3. CASE from > to
  <2>1. from - to \in Nat \ {0}
    BY <1>3
  <2> DEFINE d == from - to
             m == d * ((n - i) \div d)
  <2>2. m \in 0 .. n - i /\ (n - i < d => (n - i) \div d = 0)
    BY <1>1, <2>1, Remainder
  <2>3. n - i < d => m = 0
    BY <2>1, <2>2
  <2>4. Down(to, from, n, i) = i + m /\ Up(to, from, i) = i
    BY <1>3 DEF Down, Up
  <2> HIDE DEF m
  <2> QED BY <1>3, <2>2, <2>3, <2>4 DEF Separate
<1>4. CASE to = from
  BY <1>4 DEF Up, Down
<1> QED BY <1>2, <1>3, <1>4

(* y is x after a memcpy of n bytes: if the ranges do not overlap, the     *)
(* bytes themselves have been copied, and bytes from among them otherwise. *)
Moved(x, y, to, from, n) ==
  /\ \A c \in Nat : IsBlock(x, c) =>
       IsBlock(y, c) /\ \A i \in 1 .. c : ~(to < i /\ i <= to + n) => y[i] = x[i]
  /\ \A i \in 1 .. n : \E j \in 1 .. n : y[to + i] = x[from + j]
  /\ Separate(to, from, n) => \A i \in 1 .. n : y[to + i] = x[from + i]

LEMMA CopiedBytes ==
  ASSUME NEW x, NEW c \in Nat, IsBlock(x, c), NEW to \in Nat, NEW from \in Nat,
         NEW n \in Nat, to + n <= c, from + n <= c,
         NEW y \in Copied(x, to, from, n)
  PROVE  Moved(x, y, to, from, n)
<1> DEFINE ups == [i \in 1 .. n |-> x[from + 1 + (IF to > from THEN (i - 1) % (to - from)
                                                 ELSE i - 1)]]
           downs == [i \in 1 .. n |-> x[from + i + (IF from > to
                      THEN (from - to) * ((n - i) \div (from - to)) ELSE 0)]]
<1>1. PICK s \in {ups, downs} : y = Written(x, to, s)
  BY DEF Copied
<1>2. IsBlock(s, n) /\ Len(s) = n
  <2>1. IsBlock(s, n)
    BY <1>1 DEF IsBlock
  <2> QED BY <2>1, BlockLength
<1>3. ASSUME NEW i \in 1 .. n
      PROVE  \E j \in 1 .. n : s[i] = x[from + j] /\ (Separate(to, from, n) => j = i)
  <2>1. ups[i] = x[from + Up(to, from, i)]
    <3> DEFINE m == (IF to > from THEN (i - 1) % (to - from) ELSE i - 1)
    <3>1. Up(to, from, i) = 1 + m /\ m \in Int
      BY DEF Up
    <3> HIDE DEF m
    <3>2. from + 1 + m = from + Up(to, from, i)
      BY <3>1
    <3> QED BY <3>2 DEF m
  <2>2. downs[i] = x[from + Down(to, from, n, i)]
    <3> DEFINE m == (IF from > to THEN (from - to) * ((n - i) \div (from - to)) ELSE 0)
    <3>1. Down(to, from, n, i) = i + m /\ m \in Int
      BY DEF Down
    <3> HIDE DEF m
    <3>2. from + i + m = from + Down(to, from, n, i)
      BY <3>1
    <3> QED BY <3>2 DEF m
  <2> HIDE DEF ups, downs
  <2> QED BY <1>1, <2>1, <2>2, UpAndDown
<1> HIDE DEF ups, downs
<1>4. /\ IsBlock(y, c)
      /\ \A i \in 1 .. c : y[i] = IF to < i /\ i <= to + n THEN s[i - to] ELSE x[i]
  BY <1>1, <1>2, WrittenBytes
<1>5. \A i \in 1 .. n : to + i \in 1 .. c /\ y[to + i] = s[i]
  BY <1>4
<1>6. \A d \in Nat : IsBlock(x, d) => d = c
  BY BlockLength
<1> QED BY <1>3, <1>4, <1>5, <1>6 DEF Moved

LEMMA MoveRewrites ==
  ASSUME NEW h, NEW a, NEW c \in Nat, NEW to \in Nat, NEW from \in Nat, NEW n \in Nat,
         n # 0 => a \in Live(h) /\ IsBlock(h[a], c) /\ to + n <= c /\ from + n <= c,
         NEW k \in MoveWithin(h, a, to, from, n)
  PROVE  Rewritten(a, h, k) /\ Moved(h[a], k[a], to, from, n)
<1>1. CASE n = 0
  BY <1>1 DEF MoveWithin, Rewritten, Moved
<1>2. CASE n # 0
  <2>1. PICK x : x = h[a]
    OBVIOUS
  <2>2. PICK y \in Copied(x, to, from, n) : k = Put(h, a, y)
    BY <1>2, <2>1 DEF MoveWithin
  <2>3. a \in Live(h) /\ IsBlock(x, c) /\ to + n <= c /\ from + n <= c
    BY <1>2, <2>1
  <2>4. Moved(x, y, to, from, n)
    BY <2>3, CopiedBytes
  <2>5. \A m \in Nat : IsBlock(h[a], m) => IsBlock(y, m)
    BY <2>1, <2>4 DEF Moved
  <2>6. Rewritten(a, h, k) /\ k[a] = y
    BY <2>2, <2>3, <2>5, PutRewrites
  <2> QED BY <2>1, <2>4, <2>6
<1> QED BY <1>1, <1>2

(* new, delete[] *)
LEMMA NewBlockIsFree ==
  ASSUME NEW h, Live(h) \subseteq Blocks, Live(h) # Blocks
  PROVE  NewBlock(h) \in Blocks \ Live(h)
<1>1. \E a \in Blocks \ Live(h) : \A c \in Blocks \ Live(h) : a <= c
  BY AddressAssumption, Smallest
<1> QED BY <1>1 DEF NewBlock

LEMMA NewAdds ==
  ASSUME NEW h, Live(h) \subseteq Blocks, Live(h) # Blocks, NEW n \in Nat
  PROVE  /\ Live(New(h, n)) = Live(h) \cup {NewBlock(h)}
         /\ IsBlock(New(h, n)[NewBlock(h)], n)
         /\ \A c \in Live(h) : New(h, n)[c] = h[c]
<1>1. IsBlock([i \in 1 .. n |-> Junk], n)
  BY DEF IsBlock
<1> QED BY <1>1, NewBlockIsFree DEF New, Put, Live

LEMMA DeleteRemoves ==
  ASSUME NEW h, NEW a
  PROVE  /\ Live(Delete(h, a)) = Live(h) \ {a}
         /\ \A c \in Live(h) \ {a} : Delete(h, a)[c] = h[c]
BY DEF Delete, Live

-----------------------------------------------------------------------------
(* The fields of a buffer and the heap *)

Fields == [data : Blocks \cup {Null}, size : Nat, capacity : Capacities]

Fits(o, h) ==
  /\ o \in Fields /\ o.size <= o.capacity
  /\ IF o.data = Null THEN o.capacity = 0
     ELSE o.data \in Live(h) /\ IsBlock(h[o.data], o.capacity)

(* What an operation may give to a buffer whose pointer was d. *)
Replaces(d, h, r) ==
  /\ Live(r.heap) \subseteq Blocks
  /\ Fits(r.obj, r.heap)
  /\ r.obj.data \in {Null, d} \cup (Blocks \ Live(h))
  /\ Live(r.heap) \subseteq Live(h) \cup {r.obj.data}
  /\ \A a \in Live(h) \ {d} : a \in Live(r.heap) /\ r.heap[a] = h[a]

(* The block at d is not lost: it is still the buffer's, or deleted. *)
Frees(d, r) == d \in Live(r.heap) => d = r.obj.data

(* One operation on a buffer after another *)
LEMMA ReplacesTwice ==
  ASSUME NEW h, Live(h) \subseteq Blocks, NEW d, NEW r, NEW q,
         Replaces(d, h, r), Replaces(r.obj.data, r.heap, q), Frees(r.obj.data, q)
  PROVE  Replaces(d, h, q) /\ (Frees(d, r) => Frees(d, q))
BY AddressAssumption DEF Replaces, Frees

LEMMA FieldsOf ==
  ASSUME NEW o \in Fields
  PROVE  /\ o.data \in Blocks \cup {Null} /\ o.size \in Nat /\ o.capacity \in Capacities
         /\ o.capacity \in Nat
         /\ o = [data |-> o.data, size |-> o.size, capacity |-> o.capacity]
BY DEF Fields, Capacities

(* A buffer with bytes has a block. *)
LEMMA FilledHasBlock ==
  ASSUME NEW o, NEW h, Fits(o, h), o.size # 0
  PROVE  o.data # Null /\ o.data \in Live(h) /\ IsBlock(h[o.data], o.capacity)
BY FieldsOf DEF Fits

(* What a buffer holds is the first size bytes of its block. *)
LEMMA ContentOf ==
  ASSUME NEW o, NEW h, Fits(o, h)
  PROVE  /\ IsBlock(Content(o, h), o.size) /\ Len(Content(o, h)) = o.size
         /\ \A i \in 1 .. o.size : Content(o, h)[i] = h[o.data][i]
<1>1. o.size \in Nat
  BY FieldsOf DEF Fits
<1>2. CASE o.size = 0
  BY <1>2, NoBytes, BlockLength DEF Content
<1>3. CASE o.size # 0
  <2>1. Content(o, h) = SubSeq(h[o.data], 1, o.size)
    BY <1>3 DEF Content
  <2>2. /\ IsBlock(Content(o, h), o.size)
        /\ \A i \in 1 .. o.size : Content(o, h)[i] = h[o.data][i]
    BY <1>1, <2>1, FirstPart
  <2> QED BY <1>1, <2>2, BlockLength
<1> QED BY <1>2, <1>3

LEMMA ContentIs ==
  ASSUME NEW o, NEW h, Fits(o, h), NEW s, IsBlock(s, o.size),
         \A i \in 1 .. o.size : h[o.data][i] = s[i]
  PROVE  Content(o, h) = s
BY ContentOf DEF IsBlock

(* _reset, and what a copy is given *)
LEMMA EmptyFits ==
  ASSUME NEW h
  PROVE  Fits(Empty, h) /\ Empty.data = Null /\ Empty.size = 0 /\ Content(Empty, h) = <<>>
BY DEF Fits, Empty, Fields, Capacities, Content

LEMMA ClearReplaces ==
  ASSUME NEW h, Live(h) \subseteq Blocks, NEW d
  PROVE  LET r == [obj |-> Empty, heap |-> Delete(h, d)]
         IN  Replaces(d, h, r) /\ Frees(d, r)
BY EmptyFits, DeleteRemoves DEF Replaces, Frees

(* The bytes of the block may be rewritten and the size may change. *)
LEMMA ResizeReplaces ==
  ASSUME NEW h, Live(h) \subseteq Blocks, NEW o, Fits(o, h), NEW n \in Nat,
         n <= o.capacity, NEW k, Rewritten(o.data, h, k)
  PROVE  LET r == [obj |-> [o EXCEPT !.size = n], heap |-> k]
         IN  Replaces(o.data, h, r) /\ Frees(o.data, r)
<1> DEFINE q == [o EXCEPT !.size = n]
<1>1. q.data = o.data /\ q.capacity = o.capacity /\ q.size = n /\ q \in Fields
  BY FieldsOf DEF Fits, Fields
<1> HIDE DEF q
<1>2. Fits(q, k)
  BY <1>1, FieldsOf DEF Fits, Rewritten
<1> QED BY <1>1, <1>2 DEF Replaces, Frees, Rewritten, q

LEMMA CopyReplaces ==
  ASSUME NEW h, Live(h) \subseteq Blocks, Live(h) # Blocks, NEW o, Fits(o, h)
  PROVE  LET r == CopyOf(o, h)
         IN  /\ Replaces(Null, h, r) /\ Null \notin Live(r.heap)
             /\ Content(r.obj, r.heap) = Content(o, h)
<1>0. o \in Fields /\ o.size \in Nat /\ o.capacity \in Nat /\ o.size <= o.capacity
  BY FieldsOf DEF Fits
<1>1. CASE o.capacity = 0
  <2>1. o.size = 0
    BY <1>0, <1>1
  <2> QED BY <1>1, <2>1, EmptyFits, AddressAssumption DEF CopyOf, Replaces, Content
<1>2. CASE o.capacity # 0
  <2> DEFINE a == NewBlock(h)
             new == New(h, o.capacity)
             s == Content(o, h)
             k == Write(new, a, 0, s)
             q == [o EXCEPT !.data = a]
  <2>1. a \in Blocks \ Live(h) /\ a # Null
    BY NewBlockIsFree, AddressAssumption
  <2>2. /\ Live(new) = Live(h) \cup {a} /\ IsBlock(new[a], o.capacity)
        /\ \A c \in Live(h) : new[c] = h[c]
    BY <1>0, NewAdds
  <2>3. /\ IsBlock(s, o.size) /\ Len(s) = o.size
        /\ Rewritten(a, new, k)
        /\ \A i \in 1 .. o.size : k[a][i] = s[i]
    <3>1. IsBlock(s, o.size) /\ Len(s) = o.size
      BY ContentOf
    <3> HIDE DEF a, new, s
    <3>2. Rewritten(a, new, k) /\ Overwritten(new[a], k[a], 0, s)
      BY <1>0, <2>2, WriteRewrites
    <3>3. \A i \in 1 .. o.size : i \in 1 .. o.capacity /\ 0 < i /\ i <= 0 + o.size /\ i - 0 = i
      BY <1>0
    <3> QED BY <1>0, <2>2, <3>1, <3>2, <3>3 DEF Overwritten
  <2>4. CopyOf(o, h) = [obj |-> q, heap |-> k]
    BY <1>2 DEF CopyOf
  <2>5. q \in Fields /\ q.data = a /\ q.size = o.size /\ q.capacity = o.capacity
    BY <1>0, <2>1, FieldsOf DEF Fields
  <2> HIDE DEF a, new, s, k, q
  <2>6. /\ Live(k) = Live(h) \cup {a} /\ IsBlock(k[a], o.capacity)
        /\ \A c \in Live(h) : k[c] = h[c]
    BY <1>0, <2>1, <2>2, <2>3 DEF Rewritten
  <2>7. Fits(q, k)
    BY <1>0, <2>1, <2>5, <2>6 DEF Fits
  <2>8. Content(q, k) = s
    BY <2>3, <2>5, <2>7, ContentIs
  <2> QED BY <2>1, <2>4, <2>5, <2>6, <2>7, <2>8, AddressAssumption DEF Replaces, s
<1> QED BY <1>1, <1>2

(* Once n bytes fit. *)
LEMMA ReservedReplaces ==
  ASSUME NEW h, Live(h) \subseteq Blocks, Live(h) # Blocks, NEW o, Fits(o, h), NEW n \in Nat
  PROVE  LET r == Reserved(o, h, n)
         IN  /\ Replaces(o.data, h, r) /\ (o.size # 0 => Frees(o.data, r))
             /\ r.obj.size = o.size /\ n <= r.obj.capacity
             /\ Content(r.obj, r.heap) = Content(o, h)
<1> DEFINE c == CapacityFor(o.capacity, n)
           a == NewBlock(h)
           new == New(h, c)
           s == Content(o, h)
           filled == Write(new, a, 0, s)
           k == Grown(o, h, c).heap
           q == [o EXCEPT !.data = a, !.capacity = c]
<1>0. o \in Fields /\ o.size \in Nat /\ o.capacity \in Nat /\ o.size <= o.capacity
  BY FieldsOf DEF Fits
<1>1. c \in Capacities /\ c \in Nat /\ n <= c /\ o.capacity <= c
  BY <1>0, FieldsOf, CapacityFits DEF Capacities
<1>2. CASE c = o.capacity
  <2>1. Reserved(o, h, n) = [obj |-> o, heap |-> h]
    BY <1>2 DEF Reserved
  <2> QED BY <1>0, <1>1, <1>2, <2>1 DEF Replaces, Frees, Fits
<1>3. CASE c # o.capacity
  <2>1. a \in Blocks \ Live(h) /\ a # Null /\ a # o.data
    BY NewBlockIsFree, AddressAssumption DEF Fits
  <2>2. /\ Live(new) = Live(h) \cup {a} /\ IsBlock(new[a], c)
        /\ \A b \in Live(h) : new[b] = h[b]
    BY <1>1, NewAdds
  <2>3. /\ IsBlock(s, o.size) /\ Len(s) = o.size
        /\ Rewritten(a, new, filled)
        /\ \A i \in 1 .. o.size : filled[a][i] = s[i]
    <3>1. IsBlock(s, o.size) /\ Len(s) = o.size
      BY ContentOf
    <3> HIDE DEF a, new, s, c
    <3>2. Rewritten(a, new, filled) /\ Overwritten(new[a], filled[a], 0, s)
      BY <1>1, <2>2, WriteRewrites
    <3>3. \A i \in 1 .. o.size : i \in 1 .. c /\ 0 < i /\ i <= 0 + o.size /\ i - 0 = i
      BY <1>0, <1>1
    <3> QED BY <1>1, <2>2, <3>1, <3>2, <3>3 DEF Overwritten
  <2>4. k = IF o.size = 0 THEN filled ELSE Delete(filled, o.data)
    BY DEF Grown
  <2>5. Reserved(o, h, n) = [obj |-> q, heap |-> k]
    BY <1>3 DEF Reserved, Grown
  <2>6. q \in Fields /\ q.data = a /\ q.size = o.size /\ q.capacity = c
    BY <1>0, <1>1, <2>1, FieldsOf DEF Fields
  <2> HIDE DEF c, a, new, s, filled, k, q
  <2>7. /\ Live(filled) = Live(h) \cup {a} /\ IsBlock(filled[a], c)
        /\ \A b \in Live(h) : filled[b] = h[b]
    BY <1>1, <2>1, <2>2, <2>3 DEF Rewritten
  <2>8. /\ Live(k) \subseteq Live(h) \cup {a} /\ a \in Live(k) /\ k[a] = filled[a]
        /\ \A b \in Live(h) \ {o.data} : b \in Live(k) /\ k[b] = h[b]
        /\ o.size # 0 => o.data \notin Live(k)
    BY <2>1, <2>4, <2>7, DeleteRemoves
  <2>9. Fits(q, k)
    BY <1>0, <1>1, <2>1, <2>6, <2>7, <2>8 DEF Fits
  <2>10. Content(q, k) = s
    BY <2>3, <2>6, <2>8, <2>9, ContentIs
  <2> QED BY <1>0, <1>1, <2>1, <2>5, <2>6, <2>8, <2>9, <2>10 DEF Replaces, Frees, s
<1> QED BY <1>2, <1>3

(* What is appended: an input, or the 0 of bytes and c_str. *)
Strs == Inputs \cup {<<Nul>>}

LEMMA StrFacts ==
  ASSUME NEW s \in Strs
  PROVE  IsBlock(s, Len(s)) /\ Len(s) \in Nat /\ (Len(s) = 0 => s = <<>>)
<1>1. s \in Seq(Range(s))
  <2>1. CASE s \in Inputs
    BY <2>1, InputAssumption
  <2>2. CASE s = <<Nul>>
    BY <2>2 DEF Range
  <2> QED BY <2>1, <2>2 DEF Strs
<1> QED BY <1>1, SequenceIsBlock, EmptySeq

LEMMA StrSeq ==
  ASSUME NEW s \in Strs
  PROVE  s \in Seq(Range(s))
BY StrFacts, BlockLength

(* push_back: the bytes come after those that were there. *)
LEMMA AppendedReplaces ==
  ASSUME NEW h, Live(h) \subseteq Blocks, Live(h) # Blocks, NEW o, Fits(o, h), NEW s \in Strs
  PROVE  LET r == Appended(o, h, s)
         IN  /\ Replaces(o.data, h, r) /\ (o.size # 0 => Frees(o.data, r))
             /\ r.obj.size = o.size + Len(s)
             /\ Content(r.obj, r.heap) = Content(o, h) \o s
<1> DEFINE r == Reserved(o, h, o.size + Len(s))
           t == Content(o, h)
           n == o.size + Len(s)
           obj == [r.obj EXCEPT !.size = n]
           k == Write(r.heap, r.obj.data, o.size, s)
           q == [obj |-> obj, heap |-> k]
<1>1. IsBlock(s, Len(s)) /\ Len(s) \in Nat /\ (Len(s) = 0 => s = <<>>) /\ o.size \in Nat
  BY StrFacts, FieldsOf DEF Fits
<1>2. /\ Replaces(o.data, h, r) /\ (o.size # 0 => Frees(o.data, r))
      /\ r.obj.size = o.size /\ n <= r.obj.capacity
      /\ Content(r.obj, r.heap) = t
  BY <1>1, ReservedReplaces
<1>3. /\ IsBlock(t \o s, n)
      /\ \A i \in 1 .. n : (t \o s)[i] = IF i <= o.size THEN t[i] ELSE s[i - o.size]
  <2>1. Joins(t \o s, t, o.size, s, Len(s))
    BY <1>1, ContentOf, Joined
  <2> QED BY <2>1 DEF Joins
<1>4. Appended(o, h, s) = q
  BY <1>2 DEF Appended
<1> HIDE DEF r, t
<1>5. Live(r.heap) \subseteq Blocks /\ Fits(r.obj, r.heap)
  BY <1>2 DEF Replaces
<1>6. /\ r.obj \in Fields /\ r.obj.capacity \in Nat /\ n \in Nat
      /\ r.obj.data \in Live(r.heap) \/ s = <<>>
  BY <1>1, <1>2, <1>5, FieldsOf DEF Fits
<1>7. /\ Rewritten(r.obj.data, r.heap, k)
      /\ Overwritten(r.heap[r.obj.data], k[r.obj.data], o.size, s)
  BY <1>1, <1>6, WriteRewrites
<1>8. Replaces(r.obj.data, r.heap, q) /\ Frees(r.obj.data, q)
  BY <1>2, <1>5, <1>6, <1>7, ResizeReplaces
<1>9. obj.data = r.obj.data /\ obj.size = n
  BY <1>6, FieldsOf DEF Fields
<1>10. Fits(obj, k)
  BY <1>8 DEF Replaces
<1>11. Content(obj, k) = t \o s
  <2> HIDE DEF obj, k, n
  <2>0. \A z : IsBlock(z, n) /\ (\A i \in 1 .. n : k[obj.data][i] = z[i]) => Content(obj, k) = z
    BY <1>9, <1>10, ContentIs
  <2> SUFFICES ASSUME NEW i \in 1 .. n PROVE k[obj.data][i] = (t \o s)[i]
    BY <1>3, <2>0
  <2>1. r.obj.data \in Live(r.heap) /\ IsBlock(r.heap[r.obj.data], r.obj.capacity)
    BY <1>2, <1>5, <1>6 DEF Fits
  <2>2. i \in 1 .. r.obj.capacity
    BY <1>2, <1>6
  <2>3. k[obj.data][i] = IF o.size < i /\ i <= o.size + Len(s) THEN s[i - o.size]
                         ELSE r.heap[r.obj.data][i]
    BY <1>6, <1>7, <1>9, <2>1, <2>2 DEF Overwritten
  <2>4. i <= o.size => r.heap[r.obj.data][i] = t[i]
    BY <1>1, <1>2, <1>5, ContentOf
  <2>5. (t \o s)[i] = IF i <= o.size THEN t[i] ELSE s[i - o.size]
    BY <1>3
  <2>6. i \in Nat /\ i <= o.size + Len(s)
    BY <1>1 DEF n
  <2>7. CASE i <= o.size
    BY <1>1, <2>3, <2>4, <2>5, <2>6, <2>7
  <2>8. CASE ~(i <= o.size)
    BY <1>1, <2>3, <2>5, <2>6, <2>8
  <2> QED BY <2>7, <2>8
<1> HIDE DEF obj, k, n
<1>12. Replaces(o.data, h, q) /\ (o.size # 0 => Frees(o.data, q))
  BY <1>2, <1>8, ReplacesTwice
<1> QED BY <1>4, <1>9, <1>11, <1>12 DEF t, n

(* What a shift over d bytes may make of t. *)
LEMMA ShiftedBytes ==
  ASSUME NEW n \in Nat, NEW t, IsBlock(t, n), NEW w, IsBlock(w, n), NEW d \in Nat,
         \A i \in 1 .. n : \E j \in 1 .. n : w[i] = t[j],
         d = 0 \/ n <= d => \A i \in 1 .. n : w[i] = t[i]
  PROVE  w \in Strings!Shifted(t, d)
<1>1. Len(t) = n /\ DOMAIN t = 1 .. n
  BY BlockLength
<1>2. CASE d = 0 \/ n <= d
  BY <1>1, <1>2 DEF Strings!Shifted, IsBlock
<1>3. CASE ~(d = 0 \/ n <= d)
  <2>1. w \in [1 .. n -> Range(t)]
    BY <1>1 DEF IsBlock, Range
  <2> QED BY <1>1, <1>3, <2>1 DEF Strings!Shifted, Strings!Range, Range
<1> QED BY <1>2, <1>3

(* push_front: they come before what a shift made of those. *)
LEMMA PrependedReplaces ==
  ASSUME NEW h, Live(h) \subseteq Blocks, Live(h) # Blocks, NEW o, Fits(o, h), NEW s \in Strs,
         NEW q \in Prepended(o, h, s)
  PROVE  /\ Replaces(o.data, h, q) /\ (o.size # 0 => Frees(o.data, q))
         /\ \E w \in Strings!Shifted(Content(o, h), Len(s)) : Content(q.obj, q.heap) = s \o w
<1> DEFINE r == Reserved(o, h, o.size + Len(s))
           a == r.obj.data
           t == Content(o, h)
           n == o.size + Len(s)
           l == Len(s)
           obj == [r.obj EXCEPT !.size = n]
<1>1. IsBlock(s, l) /\ l \in Nat /\ (l = 0 => s = <<>>) /\ o.size \in Nat
  BY StrFacts, FieldsOf DEF Fits
<1>2. /\ Replaces(o.data, h, r) /\ (o.size # 0 => Frees(o.data, r))
      /\ r.obj.size = o.size /\ n <= r.obj.capacity
      /\ Content(r.obj, r.heap) = t
  BY <1>1, ReservedReplaces
<1>3. PICK k \in MoveWithin(r.heap, a, l, 0, o.size) :
        q = [obj |-> obj, heap |-> Write(k, a, 0, s)]
  BY <1>2 DEF Prepended
<1>4. IsBlock(t, o.size)
  BY ContentOf
<1> DEFINE m == Write(k, a, 0, s)
<1> HIDE DEF r, t, l
<1>5. Live(r.heap) \subseteq Blocks /\ Fits(r.obj, r.heap)
  BY <1>2 DEF Replaces
<1>6. /\ r.obj \in Fields /\ r.obj.capacity \in Nat /\ n \in Nat
      /\ n # 0 => a \in Live(r.heap) /\ IsBlock(r.heap[a], r.obj.capacity)
  BY <1>1, <1>2, <1>5, FieldsOf DEF Fits, l
<1>7. Rewritten(a, r.heap, k) /\ Moved(r.heap[a], k[a], l, 0, o.size)
  <2>1. o.size # 0 => /\ a \in Live(r.heap) /\ IsBlock(r.heap[a], r.obj.capacity)
                      /\ l + o.size <= r.obj.capacity /\ 0 + o.size <= r.obj.capacity
    BY <1>1, <1>2, <1>6 DEF l
  <2> QED BY <1>1, <1>6, <2>1, MoveRewrites
<1>8. a \in Live(k) \/ s = <<>>
  BY <1>1, <1>6, <1>7 DEF Rewritten, l
<1>9. Rewritten(a, k, m) /\ Overwritten(k[a], m[a], 0, s)
  BY <1>8, WriteRewrites
<1>10. Rewritten(a, r.heap, m)
  BY <1>7, <1>9, RewrittenTwice
<1>11. obj.data = a /\ obj.size = n
  BY <1>6, FieldsOf DEF Fields
<1>12. Replaces(a, r.heap, q) /\ Frees(a, q)
  BY <1>2, <1>3, <1>5, <1>6, <1>10, ResizeReplaces
<1> DEFINE w == [i \in 1 .. o.size |-> k[a][l + i]]
<1>13. IsBlock(w, o.size)
  BY DEF IsBlock
<1>14. w \in Strings!Shifted(t, l)
  <2>1. \A i \in 1 .. o.size : r.heap[a][i] = t[i]
    BY <1>2, <1>5, ContentOf
  <2>2. ASSUME NEW i \in 1 .. o.size PROVE \E j \in 1 .. o.size : w[i] = t[j]
    <3>1. PICK j \in 1 .. o.size : k[a][l + i] = r.heap[a][0 + j]
      BY <1>7 DEF Moved
    <3>2. 0 + j = j
      BY <1>1
    <3> QED BY <2>1, <3>1, <3>2
  <2>3. ASSUME l = 0 \/ o.size <= l, NEW i \in 1 .. o.size PROVE w[i] = t[i]
    <3>1. Separate(l, 0, o.size)
      BY <1>1, <2>3 DEF Separate
    <3>2. k[a][l + i] = r.heap[a][0 + i] /\ 0 + i = i
      BY <1>1, <1>7, <3>1 DEF Moved
    <3> QED BY <2>1, <3>2
  <2> HIDE DEF w
  <2> QED BY <1>1, <1>4, <1>13, <2>2, <2>3, ShiftedBytes
<1> HIDE DEF w
<1>15. /\ IsBlock(s \o w, n)
       /\ \A i \in 1 .. n : (s \o w)[i] = IF i <= l THEN s[i] ELSE w[i - l]
  <2>1. l + o.size = n
    BY <1>1 DEF l
  <2>2. /\ IsBlock(s \o w, l + o.size)
        /\ \A i \in 1 .. l + o.size : (s \o w)[i] = IF i <= l THEN s[i] ELSE w[i - l]
    <3>1. Joins(s \o w, s, l, w, o.size)
      BY <1>1, <1>13, Joined
    <3> QED BY <3>1 DEF Joins
  <2> QED BY <2>1, <2>2
<1>16. Content(obj, m) = s \o w
  <2>1. Fits(obj, m)
    BY <1>3, <1>12 DEF Replaces
  <2>2. n = l + o.size
    BY <1>1 DEF l
  <2> HIDE DEF obj, m, n
  <2>0. \A z : IsBlock(z, n) /\ (\A i \in 1 .. n : m[obj.data][i] = z[i]) => Content(obj, m) = z
    BY <1>11, <2>1, ContentIs
  <2> SUFFICES ASSUME NEW i \in 1 .. n PROVE m[obj.data][i] = (s \o w)[i]
    BY <1>15, <2>0
  <2>3. i \in 1 .. r.obj.capacity /\ i \in Nat /\ n # 0
    BY <1>2, <1>6
  <2>4. IsBlock(k[a], r.obj.capacity)
    BY <1>6, <1>7, <2>3 DEF Rewritten
  <2>5. m[a][i] = IF 0 < i /\ i <= 0 + l THEN s[i - 0] ELSE k[a][i]
    BY <1>6, <1>9, <2>3, <2>4 DEF Overwritten, l
  <2>6. (s \o w)[i] = IF i <= l THEN s[i] ELSE w[i - l]
    BY <1>15
  <2>7. CASE i <= l
    <3>1. 0 < i /\ i <= 0 + l /\ i - 0 = i
      BY <1>1, <2>7
    <3> QED BY <1>11, <2>5, <2>6, <2>7, <3>1
  <2>8. CASE ~(i <= l)
    <3>1. ~(i <= 0 + l) /\ i - l \in 1 .. o.size /\ l + (i - l) = i
      BY <1>1, <2>2, <2>8
    <3> QED BY <1>11, <2>5, <2>6, <2>8, <3>1 DEF w
  <2> QED BY <2>7, <2>8
<1>17. Replaces(o.data, h, q) /\ (o.size # 0 => Frees(o.data, q))
  BY <1>2, <1>12, ReplacesTwice
<1> HIDE DEF obj, m
<1> QED BY <1>3, <1>14, <1>16, <1>17 DEF t, l, m

(* pop_back and pop_front: as far as there are bytes *)
LEMMA BackPoppedReplaces ==
  ASSUME NEW h, Live(h) \subseteq Blocks, NEW o, Fits(o, h), NEW n \in Nat
  PROVE  LET r == [obj |-> BackPopped(o, n), heap |-> h]
         IN  /\ Replaces(o.data, h, r) /\ Frees(o.data, r)
             /\ r.obj.size = Left(o, n)
             /\ Content(r.obj, h) = SubSeq(Content(o, h), 1, o.size - n)
<1> DEFINE q == [o EXCEPT !.size = Left(o, n)]
           t == Content(o, h)
           u == SubSeq(t, 1, o.size - n)
<1>1. /\ o \in Fields /\ o.size \in Nat /\ o.capacity \in Nat /\ o.size <= o.capacity
      /\ Left(o, n) \in Nat /\ Left(o, n) <= o.size /\ o.size - n \in Int
  BY FieldsOf DEF Fits, Left
<1>2. q.data = o.data /\ q.size = Left(o, n)
  BY <1>1, FieldsOf DEF Fields
<1>3. LET r == [obj |-> q, heap |-> h] IN Replaces(o.data, h, r) /\ Frees(o.data, r)
  <2>1. Left(o, n) <= o.capacity /\ Rewritten(o.data, h, h)
    BY <1>1 DEF Rewritten
  <2> QED BY <1>1, <2>1, ResizeReplaces
<1>4. Fits(q, h)
  BY <1>3 DEF Replaces
<1>5. IsBlock(u, Left(o, n)) /\ \A i \in 1 .. Left(o, n) : u[i] = t[i]
  <2> HIDE DEF t
  <2>1. Left(o, n) = IF 0 <= o.size - n THEN o.size - n ELSE 0
    BY <1>1 DEF Left
  <2> QED BY <1>1, <2>1, FirstPart
<1>6. \A i \in 1 .. Left(o, n) : h[q.data][i] = u[i]
  <2>1. \A i \in 1 .. Left(o, n) : i \in 1 .. o.size
    BY <1>1
  <2> HIDE DEF u
  <2> QED BY <1>2, <1>5, <2>1, ContentOf
<1> HIDE DEF q, u
<1>7. Content(q, h) = u
  BY <1>2, <1>4, <1>5, <1>6, ContentIs
<1> QED BY <1>2, <1>3, <1>7 DEF BackPopped, q, u

LEMMA FrontPoppedReplaces ==
  ASSUME NEW h, Live(h) \subseteq Blocks, NEW o, Fits(o, h), NEW n \in Nat,
         NEW r \in FrontPopped(o, h, n)
  PROVE  /\ Replaces(o.data, h, r) /\ Frees(o.data, r)
         /\ Content(r.obj, r.heap) \in Strings!WithoutFirst(Content(o, h), n)
<1> DEFINE q == [o EXCEPT !.size = Left(o, n)]
           t == Content(o, h)
           u == SubSeq(t, n + 1, o.size)
           l == Left(o, n)
           a == o.data
<1>1. /\ o \in Fields /\ o.size \in Nat /\ o.capacity \in Nat /\ o.size <= o.capacity
      /\ l \in Nat /\ l <= o.size /\ (l # 0 => n + l = o.size)
  BY FieldsOf DEF Fits, Left
<1>2. q.data = a /\ q.size = l
  BY <1>1, FieldsOf DEF Fields
<1>3. PICK k \in MoveWithin(h, a, 0, n, l) : r = [obj |-> q, heap |-> k]
  BY DEF FrontPopped, BackPopped
<1>4. IsBlock(u, l) /\ \A i \in 1 .. l : u[i] = t[n + i]
  <2> HIDE DEF t
  <2>1. l = IF n <= o.size THEN o.size - n ELSE 0
    BY <1>1 DEF Left
  <2>2. IsPart(u, t, n, l)
    BY <1>1, <2>1, LastPart
  <2> QED BY <2>2 DEF IsPart
<1>5. \A i \in 1 .. l : n + i \in 1 .. o.size /\ 0 + i = i
  BY <1>1
<1>6. \A i \in 1 .. l : u[i] = h[a][n + i]
  <2> HIDE DEF u, l
  <2> QED BY <1>4, <1>5, ContentOf
<1> HIDE DEF u, l
<1>7. Rewritten(a, h, k) /\ Moved(h[a], k[a], 0, n, l)
  <2>1. l # 0 => /\ a \in Live(h) /\ IsBlock(h[a], o.capacity)
                 /\ 0 + l <= o.capacity /\ n + l <= o.capacity
    <3> SUFFICES ASSUME l # 0 PROVE /\ a \in Live(h) /\ IsBlock(h[a], o.capacity)
                                    /\ 0 + l <= o.capacity /\ n + l <= o.capacity
      OBVIOUS
    <3>1. o.size # 0
      BY <1>1
    <3> QED BY <1>1, <3>1, FilledHasBlock
  <2> QED BY <1>1, <2>1, MoveRewrites
<1>8. Replaces(a, h, r) /\ Frees(a, r)
  BY <1>1, <1>3, <1>7, ResizeReplaces DEF l
<1>9. Fits(q, k)
  BY <1>3, <1>8 DEF Replaces
<1> HIDE DEF q
<1> DEFINE w == Content(q, k)
<1>10. IsBlock(w, l) /\ \A i \in 1 .. l : w[i] = k[a][i]
  BY <1>2, <1>9, ContentOf
<1>11. w \in Strings!Shifted(u, n)
  <2>1. ASSUME NEW i \in 1 .. l PROVE \E j \in 1 .. l : w[i] = u[j]
    <3>1. PICK j \in 1 .. l : k[a][0 + i] = h[a][n + j]
      BY <1>7 DEF Moved
    <3> QED BY <1>5, <1>6, <1>10, <3>1
  <2>2. ASSUME n = 0 \/ l <= n, NEW i \in 1 .. l PROVE w[i] = u[i]
    <3>1. Separate(0, n, l)
      BY <1>1, <2>2 DEF Separate
    <3>2. k[a][0 + i] = h[a][n + i]
      BY <1>7, <3>1 DEF Moved
    <3> QED BY <1>5, <1>6, <1>10, <3>2
  <2> HIDE DEF w
  <2> QED BY <1>1, <1>4, <1>10, <2>1, <2>2, ShiftedBytes
<1>12. Strings!WithoutFirst(t, n) = Strings!Shifted(u, n)
  BY ContentOf DEF Strings!WithoutFirst, u
<1> QED BY <1>3, <1>8, <1>11, <1>12

LEMMA FirstOf ==
  ASSUME NEW x, NEW n \in Nat, IsBlock(x, n)
  PROVE  SubSeq(x, 1, n) = x
<1>1. x \in Seq(Range(x)) /\ Len(x) = n
  BY BlockLength
<1> QED BY <1>1, SubSeqFull

-----------------------------------------------------------------------------
(* The invariant: a buffer has the bytes its fields speak of and shares     *)
(* them with no other.                                                      *)

BufInv ==
  /\ Alive \subseteq Bufs
  /\ Live(heap) \subseteq Blocks
  /\ \A b \in Alive : Fits(buf[b], heap)
  /\ \A b, o \in Alive : buf[b].data = buf[o].data /\ b # o => buf[b].data = Null

LosesWhenEmpty ==
  \A a \in Lost' \ Lost :
    \E b \in Alive : buf[b].data = a /\ buf[b].size = 0 /\ b \in Alive' /\ buf'[b].data # a

Pointer(b) == IF b \in Alive THEN buf[b].data ELSE Null

(* b gets r, which replaces what b had. *)
Gives(b, r) ==
  /\ Set(b, r)
  /\ Replaces(Pointer(b), heap, r)
  /\ b \in Alive /\ buf[b].size # 0 => Frees(Pointer(b), r)

(* What holds after every operation. *)
Kept == BufInv' /\ LosesWhenEmpty

(* What one buffer is given leaves the others their blocks, and loses no *)
(* block that held bytes.                                                *)
LEMMA SetKeeps ==
  ASSUME BufInv, NEW b \in Bufs, NEW r, Gives(b, r)
  PROVE  Kept
<1> DEFINE d == Pointer(b)
<1>1. /\ Alive' = Alive \cup {b} /\ buf'[b] = r.obj /\ heap' = r.heap
      /\ \A o \in Alive \ {b} : buf'[o] = buf[o]
  BY DEF Set, Alive, Gives
<1>2. ASSUME NEW o \in Alive, o # b, buf[o].data # Null
      PROVE  buf[o].data \in Live(heap) \ {d}
  BY <1>2 DEF BufInv, Fits, Pointer
<1>3. ASSUME NEW o \in Alive, o # b PROVE Fits(buf[o], heap')
  <2>1. Fits(buf[o], heap) /\ buf[o] \in Fields
    BY DEF BufInv, Fits
  <2>2. CASE buf[o].data = Null
    BY <2>1, <2>2 DEF Fits
  <2>3. CASE buf[o].data # Null
    <3>1. buf[o].data \in Live(heap') /\ heap'[buf[o].data] = heap[buf[o].data]
      BY <1>1, <1>2, <1>3, <2>3 DEF Replaces, Gives
    <3> QED BY <2>1, <2>3, <3>1 DEF Fits
  <2> QED BY <2>2, <2>3
<1>4. ASSUME NEW o \in Alive, o # b, buf[o].data = r.obj.data PROVE r.obj.data = Null
  BY <1>2, <1>4 DEF Replaces, Gives
<1>5. BufInv'
  <2>1. \A o \in Alive' : Fits(buf'[o], heap')
    BY <1>1, <1>3 DEF Replaces, Gives
  <2>2. \A o, p \in Alive' : buf'[o].data = buf'[p].data /\ o # p => buf'[o].data = Null
    BY <1>1, <1>4 DEF BufInv
  <2>3. Live(heap') \subseteq Blocks /\ Alive' \subseteq Bufs
    BY <1>1 DEF Replaces, Gives, BufInv
  <2> QED BY <2>1, <2>2, <2>3 DEF BufInv
<1>6. LosesWhenEmpty
  <2> SUFFICES ASSUME NEW a \in Lost', a \notin Lost
               PROVE  \E o \in Alive : /\ buf[o].data = a /\ buf[o].size = 0
                                       /\ o \in Alive' /\ buf'[o].data # a
    BY DEF LosesWhenEmpty
  <2>1. a \in Live(heap') /\ a # Null /\ \A o \in Alive' : buf'[o].data # a
    <3>1. a \in Live(heap') /\ a \in Blocks
      BY <1>5 DEF Lost, BufInv
    <3> QED BY <3>1, AddressAssumption DEF Lost, Owned
  <2>2. a \in Live(heap)
    BY <1>1, <2>1 DEF Replaces, Gives
  <2>3. PICK o \in Alive : buf[o].data = a
    BY <2>1, <2>2 DEF Lost, Owned
  <2>4. o = b /\ a = d /\ ~Frees(d, r)
    BY <1>1, <2>1, <2>3 DEF Frees, Pointer
  <2> QED BY <1>1, <2>1, <2>3, <2>4 DEF Gives
<1> QED BY <1>5, <1>6 DEF Kept

(* The other buffers keep their content. *)
LEMMA SetBecomes ==
  ASSUME BufInv, NEW b \in Bufs, NEW r, Gives(b, r)
  PROVE  Strings!Becomes(b, Content(r.obj, r.heap))
<1>1. /\ Alive' = Alive \cup {b} /\ buf'[b] = r.obj /\ heap' = r.heap
      /\ \A o \in Alive \ {b} : buf'[o] = buf[o]
  BY DEF Set, Alive, Gives
<1>2. ASSUME NEW o \in Alive, o # b
      PROVE  Content(buf'[o], heap') = Content(buf[o], heap)
  <2>1. Fits(buf[o], heap)
    BY DEF BufInv
  <2>2. CASE buf[o].size = 0
    BY <1>1, <1>2, <2>2 DEF Content
  <2>3. CASE buf[o].size # 0
    <3>1. buf[o].data # Null /\ buf[o].data \in Live(heap)
      BY <2>1, <2>3, FilledHasBlock
    <3>2. buf[o].data # Pointer(b)
      BY <1>2, <3>1 DEF BufInv, Pointer
    <3>3. heap'[buf[o].data] = heap[buf[o].data]
      BY <1>1, <3>1, <3>2 DEF Gives, Replaces
    <3> QED BY <1>1, <1>2, <3>3 DEF Content
  <2> QED BY <2>2, <2>3
<1> QED BY <1>1, <1>2 DEF Strings!Becomes, Strings!Alive

(* strlen: the bytes before the first Nul. *)
LEMMA InputFacts ==
  ASSUME NEW s \in Inputs
  PROVE  s \in Strs /\ CString(s) \in Strs /\ CString(s) \in Strings!CStrings
<1>1. s \in Seq(Range(s)) /\ CString(s) \in Inputs
  BY InputAssumption
<1>2. IsBlock(s, Len(s)) /\ Len(s) \in Nat
  BY <1>1, SequenceIsBlock
<1> DEFINE Ends(n) == /\ Nul \notin Range(SubSeq(s, 1, n))
                      /\ n < Len(s) => s[n + 1] = Nul
<1>3. \E n \in 0 .. Len(s) : Ends(n)
  <2> DEFINE T == {n \in 0 .. Len(s) : n < Len(s) => s[n + 1] = Nul}
  <2>1. Len(s) \in T /\ T \in SUBSET Nat
    BY <1>2
  <2>2. PICK n \in T : \A m \in T : n <= m
    BY <2>1, Smallest
  <2>3. n \in Nat /\ n <= Len(s)
    BY <1>2, <2>2
  <2>4. ASSUME NEW i \in 1 .. n PROVE s[i] # Nul
    <3>1. i - 1 \in 0 .. Len(s) /\ i - 1 < Len(s) /\ i - 1 + 1 = i /\ ~(n <= i - 1)
      BY <1>2, <2>3
    <3> QED BY <2>2, <3>1
  <2>5. /\ IsBlock(SubSeq(s, 1, n), n)
        /\ \A i \in 1 .. n : SubSeq(s, 1, n)[i] = s[i]
    BY <2>3, FirstPart
  <2>6. DOMAIN SubSeq(s, 1, n) = 1 .. n
    BY <2>3, <2>5, BlockLength
  <2>7. Nul \notin Range(SubSeq(s, 1, n))
    BY <2>4, <2>5, <2>6 DEF Range
  <2> QED BY <2>2, <2>3, <2>7
<1>4. Nul \notin Range(CString(s))
  <2> DEFINE n == CHOOSE n \in 0 .. Len(s) : Ends(n)
  <2>1. Ends(n)
    BY <1>3
  <2>2. CString(s) = SubSeq(s, 1, n)
    BY DEF CString
  <2> HIDE DEF n
  <2> QED BY <2>1, <2>2
<1> QED BY <1>1, <1>4 DEF Strs, Strings!CStrings, Strings!Range, Range

LEMMA FirstOfJoined ==
  ASSUME NEW x, NEW m \in Nat, IsBlock(x, m), NEW y, NEW n \in Nat, IsBlock(y, n)
  PROVE  SubSeq(x \o y, 1, m) = x
<1>1. PICK z : z = x \o y
  OBVIOUS
<1>2. IsBlock(SubSeq(z, 1, m), m) /\ \A i \in 1 .. m : SubSeq(z, 1, m)[i] = z[i]
  <2>1. m \in Int /\ m = IF 0 <= m THEN m ELSE 0
    OBVIOUS
  <2> QED BY <2>1, FirstPart
<1>3. Joins(z, x, m, y, n)
  BY <1>1, Joined
<1>4. \A i \in 1 .. m : i \in 1 .. m + n /\ i <= m
  OBVIOUS
<1>5. \A i \in 1 .. m : z[i] = x[i]
  BY <1>3, <1>4 DEF Joins
<1> QED BY <1>1, <1>2, <1>5 DEF IsBlock

LEMMA InvFacts ==
  ASSUME BufInv
  PROVE  /\ Live(heap) \subseteq Blocks /\ Null \notin Live(heap)
         /\ Strings!Alive = Alive
         /\ \A b \in Alive : /\ b \in Bufs /\ Fits(buf[b], heap) /\ buf[b].size \in Nat
                             /\ Len(Content(buf[b], heap)) = buf[b].size
BY AddressAssumption, ContentOf, FieldsOf DEF BufInv, Fits, Strings!Alive

-----------------------------------------------------------------------------
(* Each operation keeps the invariant and does to the strings what         *)
(* ByteStrings says.                                                       *)

LEMMA ConstructDoes ==
  ASSUME BufInv, NEW b \in Bufs, Construct(b)
  PROVE  Kept /\ Strings!Construct(b)
<1> DEFINE r == [obj |-> Empty, heap |-> heap]
<1>1. Gives(b, r)
  BY InvFacts, EmptyFits DEF Construct, Gives, Replaces, Pointer
<1>2. Content(r.obj, r.heap) = <<>>
  BY EmptyFits
<1> HIDE DEF r
<1> QED BY <1>1, <1>2, SetKeeps, SetBecomes DEF Strings!Construct

LEMMA ConstructFromDoes ==
  ASSUME BufInv, NEW b \in Bufs, NEW s \in Inputs, ConstructFrom(b, s)
  PROVE  Kept /\ Strings!ConstructFrom(b, CString(s))
<1> DEFINE c == CString(s)
           r == Appended(Empty, heap, c)
<1>1. c \in Strs
  BY InputFacts
<1> HIDE DEF c
<1>2. /\ Replaces(Null, heap, r)
      /\ Content(r.obj, r.heap) = <<>> \o c
  <2>1. Live(heap) \subseteq Blocks /\ Live(heap) # Blocks /\ Fits(Empty, heap)
    BY InvFacts, EmptyFits DEF ConstructFrom, Room
  <2>2. Replaces(Empty.data, heap, r) /\ Content(r.obj, r.heap) = Content(Empty, heap) \o c
    BY <1>1, <2>1, AppendedReplaces
  <2> QED BY <2>2, EmptyFits
<1>3. Gives(b, r)
  BY <1>2 DEF ConstructFrom, Gives, Pointer, c
<1>4. <<>> \o c = c
  BY <1>1, InputAssumption, ConcatEmptySeq, StrSeq
<1> HIDE DEF r
<1> QED BY <1>2, <1>3, <1>4, SetKeeps, SetBecomes DEF Strings!ConstructFrom, c

LEMMA ConstructCopyDoes ==
  ASSUME BufInv, NEW b \in Bufs, NEW o \in Alive, ConstructCopy(b, o)
  PROVE  Kept /\ Strings!ConstructCopy(b, o)
<1> DEFINE r == CopyOf(buf[o], heap)
<1>1. Replaces(Null, heap, r) /\ Content(r.obj, r.heap) = Content(buf[o], heap)
  BY InvFacts, CopyReplaces DEF ConstructCopy, Room
<1>2. Gives(b, r)
  BY <1>1 DEF ConstructCopy, Gives, Pointer
<1> HIDE DEF r
<1> QED BY <1>1, <1>2, SetKeeps, SetBecomes DEF Strings!ConstructCopy

(* A copy that has lost its first n bytes. *)
LEMMA CopyPopped ==
  ASSUME BufInv, Room, NEW o \in Alive, NEW n \in Nat,
         NEW r \in FrontPopped(CopyOf(buf[o], heap).obj, CopyOf(buf[o], heap).heap, n)
  PROVE  /\ Replaces(Null, heap, r)
         /\ Content(r.obj, r.heap) \in Strings!WithoutFirst(Content(buf[o], heap), n)
         /\ r = [obj |-> r.obj, heap |-> r.heap]
<1> DEFINE copy == CopyOf(buf[o], heap)
<1>1. Replaces(Null, heap, copy) /\ Content(copy.obj, copy.heap) = Content(buf[o], heap)
  BY InvFacts, CopyReplaces DEF Room
<1> HIDE DEF copy
<1>2. r \in FrontPopped(copy.obj, copy.heap, n)
  BY DEF copy
<1>3. Live(copy.heap) \subseteq Blocks /\ Fits(copy.obj, copy.heap)
  BY <1>1 DEF Replaces
<1>4. /\ Replaces(copy.obj.data, copy.heap, r) /\ Frees(copy.obj.data, r)
      /\ Content(r.obj, r.heap) \in Strings!WithoutFirst(Content(buf[o], heap), n)
  BY <1>1, <1>2, <1>3, FrontPoppedReplaces
<1>5. r = [obj |-> r.obj, heap |-> r.heap]
  BY <1>2 DEF FrontPopped
<1> QED BY <1>1, <1>4, <1>5, InvFacts, ReplacesTwice

LEMMA SliceDoes ==
  ASSUME BufInv, NEW b \in Bufs, NEW o \in Alive, NEW n \in Counts, Slice(b, o, n)
  PROVE  Kept /\ Strings!Slice(b, o, n)
<1>1. PICK r \in FrontPopped(CopyOf(buf[o], heap).obj, CopyOf(buf[o], heap).heap, n) : Set(b, r)
  BY DEF Slice
<1>2. /\ Replaces(Null, heap, r)
      /\ Content(r.obj, r.heap) \in Strings!WithoutFirst(Content(buf[o], heap), n)
  BY <1>1, CountAssumption, CopyPopped DEF Slice
<1>3. Gives(b, r)
  BY <1>1, <1>2 DEF Slice, Gives, Pointer
<1> QED BY <1>2, <1>3, SetKeeps, SetBecomes DEF Strings!Slice

LEMMA SliceCountDoes ==
  ASSUME BufInv, NEW b \in Bufs, NEW o \in Alive, NEW n \in Counts, NEW k \in Counts,
         SliceCount(b, o, n, k)
  PROVE  Kept /\ Strings!SliceCount(b, o, n, k)
<1>1. PICK r \in FrontPopped(CopyOf(buf[o], heap).obj, CopyOf(buf[o], heap).heap, n) :
        Set(b, [r EXCEPT !.obj = IF @.size > k THEN BackPopped(@, @.size - k) ELSE @])
  BY DEF SliceCount
<1> DEFINE t == Content(r.obj, r.heap)
<1>2. n \in Nat /\ k \in Nat
  BY CountAssumption
<1>3. /\ Replaces(Null, heap, r)
      /\ t \in Strings!WithoutFirst(Content(buf[o], heap), n)
      /\ r = [obj |-> r.obj, heap |-> r.heap]
  BY <1>1, <1>2, CopyPopped DEF SliceCount
<1>4. /\ Live(r.heap) \subseteq Blocks /\ Fits(r.obj, r.heap) /\ r.obj.size \in Nat
      /\ IsBlock(t, r.obj.size) /\ Len(t) = r.obj.size
  BY <1>3, FieldsOf, ContentOf DEF Replaces, Fits
<1>5. SUFFICES \E q : Gives(b, q) /\ Content(q.obj, q.heap) = Strings!First(t, k)
  BY <1>3, SetKeeps, SetBecomes DEF Strings!SliceCount
<1>6. CASE r.obj.size > k
  <2> DEFINE q == [obj |-> BackPopped(r.obj, r.obj.size - k), heap |-> r.heap]
  <2>1. Set(b, q)
    BY <1>1, <1>3, <1>6
  <2>2. r.obj.size - k \in Nat /\ r.obj.size - (r.obj.size - k) = k
    BY <1>2, <1>4, <1>6
  <2>3. /\ Replaces(r.obj.data, r.heap, q) /\ Frees(r.obj.data, q)
        /\ Content(q.obj, q.heap) = SubSeq(t, 1, r.obj.size - (r.obj.size - k))
    BY <1>4, <2>2, BackPoppedReplaces
  <2> HIDE DEF q
  <2>4. Replaces(Null, heap, q)
    BY <1>3, <2>3, InvFacts, ReplacesTwice
  <2>5. Gives(b, q)
    BY <2>1, <2>4 DEF SliceCount, Gives, Pointer
  <2>6. Content(q.obj, q.heap) = Strings!First(t, k)
    BY <1>4, <1>6, <2>2, <2>3 DEF Strings!First
  <2> QED BY <2>5, <2>6
<1>7. CASE ~(r.obj.size > k)
  <2>1. Set(b, r)
    BY <1>1, <1>3, <1>7
  <2>2. Gives(b, r)
    BY <1>3, <2>1 DEF SliceCount, Gives, Pointer
  <2>3. Strings!First(t, k) = SubSeq(t, 1, r.obj.size)
    BY <1>2, <1>4, <1>7 DEF Strings!First
  <2>4. Strings!First(t, k) = t
    BY <1>4, <2>3, FirstOf
  <2> QED BY <2>2, <2>4
<1> QED BY <1>6, <1>7

(* _reset, and then what an empty buffer is given. *)
LEMMA ResetGives ==
  ASSUME BufInv, NEW b \in Alive, NEW r, Set(b, r),
         Replaces(Null, Delete(heap, buf[b].data), r)
  PROVE  Gives(b, r)
<1> DEFINE d == buf[b].data
           q == [obj |-> Empty, heap |-> Delete(heap, d)]
<1>1. Replaces(d, heap, q) /\ Frees(d, q) /\ q.obj.data = Null
  BY InvFacts, ClearReplaces, EmptyFits
<1>2. Frees(Null, r)
  BY AddressAssumption DEF Frees, Replaces
<1>3. Replaces(q.obj.data, q.heap, r) /\ Frees(q.obj.data, r)
  BY <1>1, <1>2
<1> HIDE DEF q
<1>4. Replaces(d, heap, r) /\ Frees(d, r)
  BY <1>1, <1>3, InvFacts, ReplacesTwice
<1> QED BY <1>4 DEF Gives, Pointer

(* The heap of a buffer that has been reset. *)
LEMMA ResetHeap ==
  ASSUME BufInv, NEW b \in Alive
  PROVE  LET h == Delete(heap, buf[b].data)
         IN  /\ Live(h) \subseteq Blocks /\ (Room => Live(h) # Blocks)
             /\ \A o \in Alive \ {b} : /\ Fits(buf[o], h)
                                       /\ Content(buf[o], h) = Content(buf[o], heap)
<1> DEFINE h == Delete(heap, buf[b].data)
<1>1. /\ Live(h) = Live(heap) \ {buf[b].data}
      /\ \A c \in Live(heap) \ {buf[b].data} : h[c] = heap[c]
  BY DeleteRemoves
<1> HIDE DEF h
<1>2. ASSUME NEW o \in Alive, o # b
      PROVE  Fits(buf[o], h) /\ Content(buf[o], h) = Content(buf[o], heap)
  <2>1. Fits(buf[o], heap)
    BY DEF BufInv
  <2>2. CASE buf[o].data = Null
    <3>1. buf[o].size = 0
      BY <2>1, <2>2, FieldsOf DEF Fits
    <3> QED BY <2>1, <2>2, <3>1 DEF Fits, Content
  <2>3. CASE buf[o].data # Null
    <3>1. buf[o].data \in Live(heap) \ {buf[b].data}
      BY <1>2, <2>1, <2>3 DEF BufInv, Fits
    <3> QED BY <1>1, <2>1, <2>3, <3>1 DEF Fits, Content
  <2> QED BY <2>2, <2>3
<1> QED BY <1>1, <1>2, InvFacts DEF Room, h

LEMMA ClearDoes ==
  ASSUME BufInv, NEW b \in Alive, Clear(b)
  PROVE  Kept /\ Strings!Assign(b, b)
<1> DEFINE d == buf[b].data
           r == [obj |-> Empty, heap |-> Delete(heap, d)]
<1>1. b \in Bufs
  BY InvFacts
<1>2. Gives(b, r)
  BY InvFacts, ClearReplaces DEF Clear, Gives, Pointer
<1>3. Content(r.obj, r.heap) = <<>>
  BY EmptyFits
<1> HIDE DEF r
<1> QED BY <1>1, <1>2, <1>3, SetKeeps, SetBecomes DEF Strings!Assign

LEMMA AssignDoes ==
  ASSUME BufInv, NEW b \in Alive, NEW o \in Alive, Assign(b, o)
  PROVE  Kept /\ Strings!Assign(b, o)
<1> DEFINE h == Delete(heap, buf[b].data)
           source == IF o = b THEN Empty ELSE buf[o]
           r == CopyOf(source, h)
<1>1. b \in Bufs
  BY InvFacts
<1>2. Live(h) \subseteq Blocks /\ Live(h) # Blocks
  BY ResetHeap DEF Assign
<1>3. /\ Fits(source, h)
      /\ Content(source, h) = IF o = b THEN <<>> ELSE Content(buf[o], heap)
  BY ResetHeap, EmptyFits
<1>4. Set(b, r)
  BY DEF Assign
<1> HIDE DEF source
<1>5. Replaces(Null, h, r) /\ Content(r.obj, r.heap) = Content(source, h)
  BY <1>2, <1>3, CopyReplaces
<1> HIDE DEF r
<1>6. Gives(b, r)
  BY <1>4, <1>5, ResetGives
<1> QED BY <1>1, <1>3, <1>5, <1>6, SetKeeps, SetBecomes DEF Strings!Assign

LEMMA AssignFromDoes ==
  ASSUME BufInv, NEW b \in Alive, NEW s \in Inputs, AssignFrom(b, s)
  PROVE  Kept /\ Strings!ConstructFrom(b, CString(s))
<1> DEFINE h == Delete(heap, buf[b].data)
           c == CString(s)
           r == Appended(Empty, h, c)
<1>1. b \in Bufs
  BY InvFacts
<1>2. Live(h) \subseteq Blocks /\ Live(h) # Blocks /\ Fits(Empty, h)
  BY ResetHeap, EmptyFits DEF AssignFrom
<1>3. Set(b, r)
  BY DEF AssignFrom
<1>4. c \in Strs
  BY InputFacts
<1> HIDE DEF c, h
<1>5. /\ Replaces(Empty.data, h, r)
      /\ Content(r.obj, r.heap) = Content(Empty, h) \o c
  BY <1>2, <1>4, AppendedReplaces
<1>6. Replaces(Null, h, r) /\ Content(r.obj, r.heap) = <<>> \o c
  BY <1>5, EmptyFits
<1>7. Content(r.obj, r.heap) = c
  BY <1>4, <1>6, StrSeq, ConcatEmptySeq
<1> HIDE DEF r
<1>8. Gives(b, r)
  BY <1>3, <1>6, ResetGives DEF h
<1> QED BY <1>1, <1>7, <1>8, SetKeeps, SetBecomes DEF Strings!ConstructFrom, c

LEMMA PushBackDoes ==
  ASSUME BufInv, NEW b \in Alive, NEW s \in Inputs, PushBack(b, s)
  PROVE  Kept /\ Strings!PushBack(b, s)
<1> DEFINE r == Appended(buf[b], heap, s)
<1>1. b \in Bufs /\ Set(b, r) /\ Live(heap) # Blocks
  BY InvFacts DEF PushBack, Room
<1>2. /\ Replaces(buf[b].data, heap, r) /\ (buf[b].size # 0 => Frees(buf[b].data, r))
      /\ Content(r.obj, r.heap) = Content(buf[b], heap) \o s
  BY <1>1, InvFacts, InputFacts, AppendedReplaces
<1> HIDE DEF r
<1>3. Gives(b, r)
  BY <1>1, <1>2 DEF Gives, Pointer
<1> QED BY <1>1, <1>2, <1>3, SetKeeps, SetBecomes DEF Strings!PushBack

LEMMA PushFrontDoes ==
  ASSUME BufInv, NEW b \in Alive, NEW s \in Inputs, PushFront(b, s)
  PROVE  Kept /\ Strings!PushFront(b, s)
<1>1. PICK r \in Prepended(buf[b], heap, s) : Set(b, r)
  BY DEF PushFront
<1>2. b \in Bufs /\ Live(heap) # Blocks
  BY InvFacts DEF PushFront, Room
<1>3. /\ Replaces(buf[b].data, heap, r) /\ (buf[b].size # 0 => Frees(buf[b].data, r))
      /\ \E w \in Strings!Shifted(Content(buf[b], heap), Len(s)) :
           Content(r.obj, r.heap) = s \o w
  BY <1>2, InvFacts, InputFacts, PrependedReplaces
<1>4. Gives(b, r)
  BY <1>1, <1>3 DEF Gives, Pointer
<1> QED BY <1>2, <1>3, <1>4, SetKeeps, SetBecomes DEF Strings!PushFront

LEMMA PopBackDoes ==
  ASSUME BufInv, NEW b \in Alive, NEW n \in Counts, PopBack(b, n)
  PROVE  Kept /\ Strings!PopBack(b, n)
<1> DEFINE r == [obj |-> BackPopped(buf[b], n), heap |-> heap]
           t == Content(buf[b], heap)
<1>1. b \in Bufs /\ Set(b, r) /\ n \in Nat
  BY InvFacts, CountAssumption DEF PopBack
<1>2. /\ Replaces(buf[b].data, heap, r) /\ Frees(buf[b].data, r)
      /\ Content(r.obj, r.heap) = SubSeq(t, 1, buf[b].size - n)
  BY <1>1, InvFacts, BackPoppedReplaces
<1>3. Strings!WithoutLast(t, n) = SubSeq(t, 1, buf[b].size - n)
  BY InvFacts DEF Strings!WithoutLast
<1> HIDE DEF r
<1>4. Gives(b, r)
  BY <1>1, <1>2 DEF Gives, Pointer
<1> QED BY <1>1, <1>2, <1>3, <1>4, SetKeeps, SetBecomes DEF Strings!PopBack

LEMMA PopFrontDoes ==
  ASSUME BufInv, NEW b \in Alive, NEW n \in Counts, PopFront(b, n)
  PROVE  Kept /\ Strings!PopFront(b, n)
<1>1. PICK r \in FrontPopped(buf[b], heap, n) : Set(b, r)
  BY DEF PopFront
<1>2. b \in Bufs /\ n \in Nat
  BY InvFacts, CountAssumption
<1>3. /\ Replaces(buf[b].data, heap, r) /\ Frees(buf[b].data, r)
      /\ Content(r.obj, r.heap) \in Strings!WithoutFirst(Content(buf[b], heap), n)
  BY <1>2, InvFacts, FrontPoppedReplaces
<1>4. Gives(b, r)
  BY <1>1, <1>3 DEF Gives, Pointer
<1> QED BY <1>2, <1>3, <1>4, SetKeeps, SetBecomes DEF Strings!PopFront

LEMMA NulTerminateDoes ==
  ASSUME BufInv, NEW b \in Alive, NulTerminate(b)
  PROVE  Kept /\ Strings!Look
<1> DEFINE t == Content(buf[b], heap)
           r == Appended(buf[b], heap, <<Nul>>)
           q == [obj |-> BackPopped(r.obj, 1), heap |-> r.heap]
<1>1. b \in Bufs /\ Live(heap) # Blocks
  BY InvFacts DEF NulTerminate, Room
<1>2. /\ Replaces(buf[b].data, heap, r) /\ (buf[b].size # 0 => Frees(buf[b].data, r))
      /\ r.obj.size = buf[b].size + 1
      /\ Content(r.obj, r.heap) = t \o <<Nul>>
  <2>1. <<Nul>> \in Strs /\ Len(<<Nul>>) = 1
    BY DEF Strs
  <2> QED BY <1>1, <2>1, InvFacts, AppendedReplaces
<1>3. Set(b, q)
  <2>1. r = [obj |-> r.obj, heap |-> r.heap]
    BY DEF Appended
  <2> HIDE DEF r
  <2>2. Set(b, [r EXCEPT !.obj = BackPopped(@, 1)])
    BY DEF NulTerminate, r
  <2>3. [r EXCEPT !.obj = BackPopped(@, 1)] = q
    BY <2>1
  <2> QED BY <2>2, <2>3
<1> HIDE DEF r
<1>4. Live(r.heap) \subseteq Blocks /\ Fits(r.obj, r.heap)
  BY <1>2 DEF Replaces
<1>5. /\ Replaces(r.obj.data, r.heap, q) /\ Frees(r.obj.data, q)
      /\ Content(q.obj, q.heap) = SubSeq(t \o <<Nul>>, 1, r.obj.size - 1)
  <2>1. /\ Replaces(r.obj.data, r.heap, q) /\ Frees(r.obj.data, q)
        /\ Content(q.obj, q.heap) = SubSeq(Content(r.obj, r.heap), 1, r.obj.size - 1)
    BY <1>4, BackPoppedReplaces
  <2> HIDE DEF t, q
  <2> QED BY <1>2, <2>1
<1>6. Content(q.obj, q.heap) = t
  <2>1. IsBlock(t, buf[b].size) /\ buf[b].size \in Nat
    BY InvFacts, ContentOf
  <2>2. IsBlock(<<Nul>>, 1)
    BY DEF IsBlock
  <2>3. r.obj.size - 1 = buf[b].size
    BY <1>2, <2>1
  <2> HIDE DEF t
  <2> QED BY <1>5, <2>1, <2>2, <2>3, FirstOfJoined
<1> HIDE DEF q
<1>7. Gives(b, q)
  <2>1. Replaces(buf[b].data, heap, q) /\ (buf[b].size # 0 => Frees(buf[b].data, q))
    BY <1>2, <1>5, InvFacts, ReplacesTwice
  <2> QED BY <1>3, <2>1 DEF Gives, Pointer
<1>8. Strings!Becomes(b, t)
  BY <1>1, <1>6, <1>7, SetBecomes
<1>9. Strings!Look
  BY <1>8 DEF Strings!Becomes, Strings!Look, Strings!Alive
<1> QED BY <1>1, <1>7, <1>9, SetKeeps

LEMMA DestructDoes ==
  ASSUME BufInv, NEW b \in Alive, Destruct(b)
  PROVE  Kept /\ Strings!Destroy(b)
<1> DEFINE d == buf[b].data
<1>1. /\ Alive' = Alive \ {b} /\ \A o \in Alive' : buf'[o] = buf[o]
      /\ heap' = Delete(heap, d)
  BY DEF Destruct, Alive
<1>2. /\ Live(heap') \subseteq Live(heap)
      /\ \A o \in Alive' : /\ Fits(buf'[o], heap')
                           /\ Content(buf'[o], heap') = Content(buf[o], heap)
  BY <1>1, DeleteRemoves, ResetHeap
<1>3. BufInv'
  <2>1. \A o, p \in Alive' : buf'[o].data = buf'[p].data /\ o # p => buf'[o].data = Null
    BY <1>1 DEF BufInv
  <2> QED BY <1>1, <1>2, <2>1 DEF BufInv
<1>4. LosesWhenEmpty
  <2>1. Live(heap') = Live(heap) \ {d}
    BY <1>1, DeleteRemoves
  <2>2. Lost' \subseteq Lost
    BY <1>1, <2>1 DEF Lost, Owned
  <2> QED BY <2>2 DEF LosesWhenEmpty
<1>5. Strings!Destroy(b)
  BY <1>1, <1>2 DEF Strings!Destroy, Strings!Alive
<1> QED BY <1>3, <1>4, <1>5 DEF Kept

-----------------------------------------------------------------------------
(* The theorems *)

LEMMA BufInv_Init == Init => BufInv
BY DEF Init, BufInv, Alive, Live

(* Every step does to the strings something that ByteStrings allows. *)
LEMMA StepDoes ==
  ASSUME BufInv, Next
  PROVE  Kept /\ (Strings!StringsNext \/ Strings!Look)
<1>1. Strings!Alive = Alive /\ Alive \subseteq Bufs
  BY InvFacts
<1>2. ASSUME NEW b \in Bufs, Construct(b) PROVE Kept /\ Strings!StringsNext
  BY <1>2, ConstructDoes DEF Strings!StringsNext
<1>3. ASSUME NEW b \in Bufs, NEW s \in Inputs, ConstructFrom(b, s)
      PROVE  Kept /\ Strings!StringsNext
  BY <1>3, ConstructFromDoes, InputFacts DEF Strings!StringsNext
<1>4. ASSUME NEW b \in Bufs, NEW o \in Alive, ConstructCopy(b, o)
      PROVE  Kept /\ Strings!StringsNext
  BY <1>1, <1>4, ConstructCopyDoes DEF ConstructCopy, Strings!StringsNext
<1>5. ASSUME NEW b \in Bufs, NEW o \in Alive, NEW n \in Counts, Slice(b, o, n)
      PROVE  Kept /\ Strings!StringsNext
  BY <1>1, <1>5, SliceDoes DEF Slice, Strings!StringsNext
<1>6. ASSUME NEW b \in Bufs, NEW o \in Alive, NEW n \in Counts, NEW k \in Counts,
             SliceCount(b, o, n, k)
      PROVE  Kept /\ Strings!StringsNext
  BY <1>1, <1>6, SliceCountDoes DEF SliceCount, Strings!StringsNext
<1>7. ASSUME NEW b \in Alive, Destruct(b) PROVE Kept /\ Strings!StringsNext
  BY <1>1, <1>7, DestructDoes DEF Strings!StringsNext
<1>8. ASSUME NEW b \in Alive, Clear(b) PROVE Kept /\ Strings!StringsNext
  BY <1>1, <1>8, ClearDoes DEF Strings!StringsNext
<1>9. ASSUME NEW b \in Alive, NulTerminate(b) PROVE Kept /\ Strings!Look
  BY <1>9, NulTerminateDoes
<1>10. ASSUME NEW b \in Alive, NEW o \in Alive, Assign(b, o)
       PROVE  Kept /\ Strings!StringsNext
  BY <1>1, <1>10, AssignDoes DEF Strings!StringsNext
<1>11. ASSUME NEW b \in Alive, NEW s \in Inputs, AssignFrom(b, s)
       PROVE  Kept /\ Strings!StringsNext
  BY <1>1, <1>11, AssignFromDoes, InputFacts DEF Strings!StringsNext
<1>12. ASSUME NEW b \in Alive, NEW s \in Inputs, PushBack(b, s)
       PROVE  Kept /\ Strings!StringsNext
  BY <1>1, <1>12, PushBackDoes DEF Strings!StringsNext
<1>13. ASSUME NEW b \in Alive, NEW s \in Inputs, PushFront(b, s)
       PROVE  Kept /\ Strings!StringsNext
  BY <1>1, <1>13, PushFrontDoes DEF Strings!StringsNext
<1>14. ASSUME NEW b \in Alive, NEW n \in Counts, PopBack(b, n)
       PROVE  Kept /\ Strings!StringsNext
  BY <1>1, <1>14, PopBackDoes DEF Strings!StringsNext
<1>15. ASSUME NEW b \in Alive, NEW n \in Counts, PopFront(b, n)
       PROVE  Kept /\ Strings!StringsNext
  BY <1>1, <1>15, PopFrontDoes DEF Strings!StringsNext
<1> QED
  BY <1>2, <1>3, <1>4, <1>5, <1>6, <1>7, <1>8, <1>9, <1>10, <1>11, <1>12, <1>13, <1>14,
     <1>15 DEF Next

LEMMA Buffers == Spec => []BufInv
<1>1. BufInv /\ UNCHANGED vars => BufInv'
  BY DEF BufInv, Alive, vars
<1>2. BufInv /\ Next => BufInv'
  BY StepDoes DEF Kept
<1> QED BY <1>1, <1>2, BufInv_Init, PTL DEF Spec

(* A buffer's pointer leads to a live block of exactly capacity bytes, its *)
(* size is within, and no two buffers share a block.                       *)
THEOREM BuffersOwnTheirCapacity == Spec => []OwnsItsCapacity
<1>1. BufInv => OwnsItsCapacity
  <2> SUFFICES ASSUME BufInv, NEW b \in Alive
               PROVE  /\ buf[b].size \in 0 .. buf[b].capacity
                      /\ IF buf[b].data = Null THEN buf[b].capacity = 0
                         ELSE /\ buf[b].data \in Live(heap)
                              /\ Len(heap[buf[b].data]) = buf[b].capacity
    BY DEF BufInv, OwnsItsCapacity
  <2> QED BY FieldsOf, BlockLength DEF BufInv, Fits
<1> QED BY <1>1, Buffers, PTL

(* A block is lost only when an empty buffer that has one takes a larger.  *)
THEOREM BlocksAreLostOnlyWhenEmpty == Spec => LosesOnlyWhenEmpty
<1>1. BufInv /\ [Next]_vars =>
        [\A a \in Lost' \ Lost :
           \E b \in Alive :
             buf[b].data = a /\ buf[b].size = 0 /\ b \in Alive' /\ buf'[b].data # a]_vars
  BY StepDoes DEF Kept, LosesWhenEmpty
<1> QED BY <1>1, Buffers, PTL DEF Spec, LosesOnlyWhenEmpty

(* The buffers are the strings of ByteStrings: whatever block and capacity *)
(* a buffer has come to, each operation makes of the strings what their    *)
(* users may rely on, and leaves every other buffer's string alone.        *)
THEOREM BuffersImplementStrings == Spec => ImplementsByteStrings
<1> DEFINE value == [b \in Alive |-> Content(buf[b], heap)]
<1>1. Init => Strings!StringsInit
  BY DEF Init, Strings!StringsInit, Alive
<1>2. BufInv /\ [Next]_vars => [Strings!StringsNext]_value
  <2>1. Strings!Look => UNCHANGED value
    BY DEF Strings!Look
  <2>2. UNCHANGED vars => UNCHANGED value
    BY DEF vars, Alive
  <2> QED BY <2>1, <2>2, StepDoes
<1> QED BY <1>1, <1>2, Buffers, PTL DEF Spec, ImplementsByteStrings, Strings!StringsSpec

(* Each operation does to the strings exactly what it promises, and bytes  *)
(* and c_str, which append a 0 and take it back, nothing.                  *)
THEOREM OperationsDoAsPromised == Spec => OperationsKeepTheirPromises
<1>1. BufInv /\ Next => CreationKeepsItsPromise
  <2> SUFFICES ASSUME BufInv, Next, NEW b \in Alive' \ Alive
               PROVE  /\ Construct(b) => Strings!Construct(b)
                      /\ \A s \in Inputs :
                           ConstructFrom(b, s) => Strings!ConstructFrom(b, CString(s))
                      /\ \A o \in Alive :
                           /\ ConstructCopy(b, o) => Strings!ConstructCopy(b, o)
                           /\ \A n \in Counts :
                                /\ Slice(b, o, n) => Strings!Slice(b, o, n)
                                /\ \A k \in Counts :
                                     SliceCount(b, o, n, k) => Strings!SliceCount(b, o, n, k)
    BY DEF CreationKeepsItsPromise
  <2>1. b \in Bufs
    BY StepDoes DEF Kept, BufInv
  <2> QED BY <2>1, ConstructDoes, ConstructFromDoes, ConstructCopyDoes, SliceDoes, SliceCountDoes
<1>2. ASSUME BufInv, NEW b \in Alive PROVE ChangeKeepsItsPromise(b)
  <2>1. Clear(b) => Strings!Construct(b)
    BY <1>2, ClearDoes DEF Strings!Assign, Strings!Construct
  <2> QED BY <1>2, <2>1, AssignFromDoes, PushBackDoes, PushFrontDoes, PopBackDoes, PopFrontDoes,
             AssignDoes, NulTerminateDoes
          DEF ChangeKeepsItsPromise
<1>3. ASSUME BufInv, NEW b \in Alive PROVE Destruct(b) => Strings!Destroy(b)
  BY <1>3, DestructDoes
<1>4. BufInv /\ [Next]_vars =>
        [/\ CreationKeepsItsPromise
         /\ \A b \in Alive \ Alive' : Destruct(b) => Strings!Destroy(b)
         /\ Alive' = Alive => \A b \in Alive : ChangeKeepsItsPromise(b)]_vars
  BY <1>1, <1>2, <1>3
<1> QED BY <1>4, Buffers, PTL DEF Spec, OperationsKeepTheirPromises

-----------------------------------------------------------------------------
(* Which bytes the users see *)

Pushed == UNION {Range(s) : s \in Inputs}

SeesOnlyPushed == \A b \in Alive : Content(buf[b], heap) \in Seq(Pushed)

(* Every operation makes strings of the bytes of strings. *)
LEMMA InputsArePushed ==
  ASSUME NEW s \in Inputs
  PROVE  s \in Seq(Pushed)
<1>1. Range(s) \subseteq Pushed
  BY DEF Pushed
<1> QED BY <1>1, InputAssumption, SeqMonotonic

LEMMA BecomingSeesOnlyPushed ==
  ASSUME SeesOnlyPushed, NEW b, NEW s \in Seq(Pushed), Strings!Becomes(b, s)
  PROVE  SeesOnlyPushed'
<1> DEFINE value == [o \in Alive |-> Content(buf[o], heap)]
<1>1. /\ DOMAIN value = Alive /\ DOMAIN value' = Alive'
      /\ \A o \in Alive : value[o] = Content(buf[o], heap)
      /\ \A o \in Alive' : value'[o] = Content(buf'[o], heap')
  OBVIOUS
<1>2. value' = [o \in DOMAIN value \cup {b} |-> IF o = b THEN s ELSE value[o]]
  BY DEF Strings!Becomes, Strings!Alive
<1> HIDE DEF value
<1> QED BY <1>1, <1>2 DEF SeesOnlyPushed

LEMMA PartsArePushed ==
  ASSUME NEW s \in Seq(Pushed), NEW n \in Nat
  PROVE  /\ Strings!First(s, n) \in Seq(Pushed)
         /\ Strings!WithoutLast(s, n) \in Seq(Pushed)
         /\ \A w \in Strings!Shifted(s, n) : w \in Seq(Pushed)
         /\ \A w \in Strings!WithoutFirst(s, n) : w \in Seq(Pushed)
<1>1. Len(s) \in Nat /\ \A i \in 1 .. Len(s) : s[i] \in Pushed
  BY LenProperties, ElementOfSeq
<1>2. ASSUME NEW i \in Nat \ {0}, NEW j \in Int, j <= Len(s)
      PROVE  SubSeq(s, i, j) \in Seq(Pushed)
  <2>1. \A k \in i .. j : s[k] \in Pushed
    BY <1>1, <1>2
  <2> QED BY <2>1, SubSeqProperties
<1>3. Strings!First(s, n) \in Seq(Pushed) /\ Strings!WithoutLast(s, n) \in Seq(Pushed)
  BY <1>1, <1>2 DEF Strings!First, Strings!WithoutLast
<1>4. ASSUME NEW t \in Seq(Pushed), NEW w \in Strings!Shifted(t, n)
      PROVE  w \in Seq(Pushed)
  <2>1. w = t \/ w \in [1 .. Len(t) -> Strings!Range(t)]
    BY DEF Strings!Shifted
  <2>2. Len(t) \in Nat /\ Strings!Range(t) \subseteq Pushed
    BY LenProperties, ElementOfSeq DEF Strings!Range
  <2>3. w \in [1 .. Len(t) -> Strings!Range(t)] => w \in Seq(Strings!Range(t))
    BY <2>2, SeqDef
  <2> QED BY <2>1, <2>2, <2>3, SeqMonotonic
<1>5. SubSeq(s, n + 1, Len(s)) \in Seq(Pushed)
  BY <1>1, <1>2
<1> QED BY <1>3, <1>4, <1>5 DEF Strings!WithoutFirst

LEMMA StringsSeeOnlyPushed ==
  ASSUME BufInv, SeesOnlyPushed, Strings!StringsNext \/ Strings!Look
  PROVE  SeesOnlyPushed'
<1> DEFINE value == [o \in Alive |-> Content(buf[o], heap)]
<1>1. /\ Strings!Alive = Alive
      /\ \A o \in Alive : value[o] \in Seq(Pushed)
  BY InvFacts DEF SeesOnlyPushed
<1>2. <<>> \in Seq(Pushed)
  BY EmptySeq
<1>3. CASE \E b \in Bufs : \/ Strings!Construct(b)
                       \/ \E s \in Strings!CStrings : Strings!ConstructFrom(b, s)
  BY <1>2, <1>3, InputsArePushed, BecomingSeesOnlyPushed
     DEF Strings!Construct, Strings!ConstructFrom, Strings!CStrings
<1>4. ASSUME NEW b, NEW o \in Alive, Strings!ConstructCopy(b, o)
      PROVE  SeesOnlyPushed'
  BY <1>1, <1>4, BecomingSeesOnlyPushed DEF Strings!ConstructCopy
<1>5. ASSUME NEW b, NEW o \in Alive, NEW n \in Counts,
             Strings!Slice(b, o, n) \/ \E k \in Counts : Strings!SliceCount(b, o, n, k)
      PROVE  SeesOnlyPushed'
  BY <1>1, <1>5, CountAssumption, PartsArePushed, BecomingSeesOnlyPushed
     DEF Strings!Slice, Strings!SliceCount
<1>6. ASSUME NEW b \in Alive, NEW s \in Inputs, Strings!PushBack(b, s) \/ Strings!PushFront(b, s)
      PROVE  SeesOnlyPushed'
  <2>1. s \in Seq(Pushed) /\ Len(s) \in Nat
    BY InputsArePushed, LenProperties
  <2>2. \A t, w \in Seq(Pushed) : t \o w \in Seq(Pushed)
    BY ConcatProperties
  <2> QED BY <1>1, <1>6, <2>1, <2>2, PartsArePushed, BecomingSeesOnlyPushed
          DEF Strings!PushBack, Strings!PushFront
<1>7. ASSUME NEW b \in Alive, NEW n \in Counts, Strings!PopBack(b, n) \/ Strings!PopFront(b, n)
      PROVE  SeesOnlyPushed'
  BY <1>1, <1>7, CountAssumption, PartsArePushed, BecomingSeesOnlyPushed
     DEF Strings!PopBack, Strings!PopFront
<1>8. ASSUME NEW b \in Alive, NEW o \in Alive, Strings!Assign(b, o)
      PROVE  SeesOnlyPushed'
  BY <1>1, <1>2, <1>8, BecomingSeesOnlyPushed DEF Strings!Assign
<1>9. ASSUME NEW b \in Alive, Strings!Destroy(b) PROVE SeesOnlyPushed'
  <2>1. value' = [o \in Alive \ {b} |-> value[o]]
    BY <1>1, <1>9 DEF Strings!Destroy
  <2>2. /\ DOMAIN value' = Alive'
        /\ \A o \in Alive' : value'[o] = Content(buf'[o], heap')
    OBVIOUS
  <2> HIDE DEF value
  <2> QED BY <1>1, <2>1, <2>2 DEF SeesOnlyPushed
<1>10. CASE Strings!Look
  <2>1. value' = value
    BY <1>10 DEF Strings!Look
  <2>2. /\ DOMAIN value = Alive /\ DOMAIN value' = Alive'
        /\ \A o \in Alive' : value'[o] = Content(buf'[o], heap')
    OBVIOUS
  <2> HIDE DEF value
  <2> QED BY <1>1, <2>1, <2>2 DEF SeesOnlyPushed
<1> QED
  BY <1>1, <1>3, <1>4, <1>5, <1>6, <1>7, <1>8, <1>9, <1>10 DEF Strings!StringsNext

(* No byte is seen that was not pushed: what new leaves uninitialized and  *)
(* what a shift moves stay out of the strings.                             *)
THEOREM OnlyPushedBytesAreSeen == Spec => []SeesOnlyPushed
<1>1. Init => SeesOnlyPushed
  BY DEF Init, SeesOnlyPushed, Alive
<1>2. BufInv /\ SeesOnlyPushed /\ [Next]_vars => SeesOnlyPushed'
  <2>1. SeesOnlyPushed /\ UNCHANGED vars => SeesOnlyPushed'
    BY DEF SeesOnlyPushed, Alive, vars
  <2> QED BY <2>1, StepDoes, StringsSeeOnlyPushed
<1> QED BY <1>1, <1>2, Buffers, PTL DEF Spec
=============================================================================
