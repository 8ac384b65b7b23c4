------------------------------- MODULE ByteBuf -------------------------------
(***************************************************************************)
(* ArrBuf<Byte> and ByteBuf on a heap of blocks.  A buffer has a pointer,  *)
(* a size and a capacity; an operation is one action.  ByteBuf's moves are *)
(* copies: its move operations hand a named reference to ArrBuf, which     *)
(* then takes its copy operations.                                         *)
(*                                                                         *)
(* memcpy between overlapping ranges is undefined.  The outcomes taken     *)
(* here are those of copying byte by byte upwards and downwards.           *)
(***************************************************************************)
EXTENDS Integers, SequencesExt

CONSTANTS
  Bufs,            (* names of buffers                                     *)
  Blocks,          (* addresses of blocks; bounds how many exist at a time *)
  Null,            (* the address of no block                              *)
  Nul, Junk,       (* the byte 0; a byte that was never written            *)
  Inputs,          (* the byte sequences that are pushed                   *)
  Counts,          (* the numbers of bytes that are popped                 *)
  MaxSize,         (* bound on size_ before a call that adds to it         *)
  FirstCapacity    (* the capacity of the first block (8)                  *)

ASSUME AddressAssumption == Blocks \subseteq Nat /\ Null \notin Blocks
ASSUME CapacityAssumption == FirstCapacity \in Nat /\ FirstCapacity >= 2
ASSUME CountAssumption == Counts \subseteq Nat

VARIABLES buf,     (* buf[b]: the fields of buffer b, if b exists          *)
          heap     (* heap[a]: the bytes of block a, if a is allocated     *)

vars == <<buf, heap>>

Alive == DOMAIN buf

Live(h) == DOMAIN h

Empty == [data |-> Null, size |-> 0, capacity |-> 0]

Content(o, h) == IF o.size = 0 THEN <<>> ELSE SubSeq(h[o.data], 1, o.size)

(* What strlen counts of s. *)
CString(s) ==
  SubSeq(s, 1, CHOOSE n \in 0 .. Len(s) :
                 /\ Nul \notin Range(SubSeq(s, 1, n))
                 /\ n < Len(s) => s[n + 1] = Nul)

ASSUME InputAssumption == \A s \in Inputs : s \in Seq(Range(s)) /\ CString(s) \in Inputs

-----------------------------------------------------------------------------
(* new, delete[] and memcpy *)

(* new takes the first free block; its bytes are not initialized. *)
NewBlock(h) == CHOOSE a \in Blocks \ Live(h) : \A c \in Blocks \ Live(h) : a <= c

(* The heap with a block at address a. *)
Put(h, a, block) == [c \in Live(h) \cup {a} |-> IF c = a THEN block ELSE h[c]]

New(h, n) == Put(h, NewBlock(h), [i \in 1 .. n |-> Junk])

(* Null is no block, and deleting it does nothing. *)
Delete(h, a) == [c \in Live(h) \ {a} |-> h[c]]

(* The block with s written after its first n bytes. *)
Written(block, n, s) ==
  [i \in DOMAIN block |-> IF n < i /\ i <= n + Len(s) THEN s[i - n] ELSE block[i]]

Write(h, a, n, s) == IF s = <<>> THEN h ELSE Put(h, a, Written(h[a], n, s))

(* memcpy within a block, n bytes from offset from to offset to: a set of  *)
(* outcomes, which differ when the ranges overlap.                         *)
Copied(block, to, from, n) ==
  LET up == [i \in 1 .. n |-> block[from + 1 + (IF to > from THEN (i - 1) % (to - from)
                                                ELSE i - 1)]]
      down == [i \in 1 .. n |-> block[from + i + (IF from > to
                 THEN (from - to) * ((n - i) \div (from - to)) ELSE 0)]]
  IN  {Written(block, to, up), Written(block, to, down)}

MoveWithin(h, a, to, from, n) ==
  IF n = 0 THEN {h} ELSE {Put(h, a, block) : block \in Copied(h[a], to, from, n)}

-----------------------------------------------------------------------------
(* Faulty variants of the steps below. *)

GrownKeepingTheOldBlock(o, h, c) ==
  [data |-> NewBlock(h),
   heap |-> Write(New(h, c), NewBlock(h), 0, Content(o, h))]

CopyOfSharing(o, h) == [obj |-> o, heap |-> h]

-----------------------------------------------------------------------------
(* Capacity *)

NextCapacity(c) == IF c = 0 THEN FirstCapacity ELSE c + c \div 2

(* Growing from capacity c until n bytes fit. *)
CapacityFor(c, n) ==
  LET grown[k \in Nat] == IF k >= n THEN k ELSE grown[NextCapacity(k)]
  IN  grown[c]

(* The old block goes only when there were bytes in it. *)
Grown(o, h, c) ==
  LET filled == Write(New(h, c), NewBlock(h), 0, Content(o, h))
  IN  [data |-> NewBlock(h),
       heap |-> IF o.size = 0 THEN filled ELSE Delete(filled, o.data)]

(* The fields and the heap once n bytes fit. *)
Reserved(o, h, n) ==
  LET c == CapacityFor(o.capacity, n)
      g == Grown(o, h, c)
  IN  IF c = o.capacity THEN [obj |-> o, heap |-> h]
      ELSE [obj |-> [o EXCEPT !.data = g.data, !.capacity = c], heap |-> g.heap]

-----------------------------------------------------------------------------
(* The operations, on the fields o of a buffer and the heap h.             *)

Appended(o, h, s) ==
  LET r == Reserved(o, h, o.size + Len(s))
  IN  [obj |-> [r.obj EXCEPT !.size = @ + Len(s)],
       heap |-> Write(r.heap, r.obj.data, o.size, s)]

(* A faulty variant of Prepended. *)
PrependedUnshifted(o, h, s) ==
  LET r == Reserved(o, h, o.size + Len(s))
  IN  {[obj |-> [r.obj EXCEPT !.size = @ + Len(s)], heap |-> Write(r.heap, r.obj.data, 0, s)]}

Prepended(o, h, s) ==
  LET r == Reserved(o, h, o.size + Len(s))
  IN  {[obj |-> [r.obj EXCEPT !.size = @ + Len(s)],
        heap |-> Write(k, r.obj.data, 0, s)]
         : k \in MoveWithin(r.heap, r.obj.data, Len(s), 0, o.size)}

Left(o, n) == IF n > o.size THEN 0 ELSE o.size - n

BackPopped(o, n) == [o EXCEPT !.size = Left(o, n)]

(* A faulty variant of FrontPopped. *)
FrontPoppedUnshifted(o, h, n) == {[obj |-> BackPopped(o, n), heap |-> h]}

FrontPopped(o, h, n) ==
  {[obj |-> BackPopped(o, n), heap |-> k] : k \in MoveWithin(h, o.data, 0, n, Left(o, n))}

(* A copy has the capacity of the original. *)
CopyOf(o, h) ==
  IF o.capacity = 0 THEN [obj |-> Empty, heap |-> h]
  ELSE [obj |-> [o EXCEPT !.data = NewBlock(h)],
        heap |-> Write(New(h, o.capacity), NewBlock(h), 0, Content(o, h))]

-----------------------------------------------------------------------------
(* Buffer b gets the fields and leaves the heap of r. *)
Set(b, r) ==
  /\ buf' = [o \in Alive \cup {b} |-> IF o = b THEN r.obj ELSE buf[o]]
  /\ heap' = r.heap

(* There is a block to allocate. *)
Room == Live(heap) # Blocks

Construct(b) == b \notin Alive /\ Set(b, [obj |-> Empty, heap |-> heap])

ConstructFrom(b, s) ==
  Room /\ b \notin Alive /\ Set(b, Appended(Empty, heap, CString(s)))

ConstructCopy(b, o) == Room /\ b \notin Alive /\ Set(b, CopyOf(buf[o], heap))

Destruct(b) ==
  /\ buf' = [o \in Alive \ {b} |-> buf[o]]
  /\ heap' = Delete(heap, buf[b].data)

Clear(b) == Set(b, [obj |-> Empty, heap |-> Delete(heap, buf[b].data)])

(* _reset comes first: a buffer assigned to itself is empty. *)
Assign(b, o) ==
  /\ Room
  /\ Set(b, CopyOf(IF o = b THEN Empty ELSE buf[o], Delete(heap, buf[b].data)))

AssignFrom(b, s) ==
  Room /\ Set(b, Appended(Empty, Delete(heap, buf[b].data), CString(s)))

PushBack(b, s) ==
  Room /\ buf[b].size <= MaxSize /\ Set(b, Appended(buf[b], heap, s))

PushFront(b, s) ==
  /\ Room /\ buf[b].size <= MaxSize
  /\ \E r \in Prepended(buf[b], heap, s) : Set(b, r)

PopBack(b, n) == Set(b, [obj |-> BackPopped(buf[b], n), heap |-> heap])

PopFront(b, n) == \E r \in FrontPopped(buf[b], heap, n) : Set(b, r)

(* bytes, c_str: a const function that appends a 0 and takes it back. *)
NulTerminate(b) ==
  /\ Room /\ buf[b].size <= MaxSize
  /\ LET r == Appended(buf[b], heap, <<Nul>>)
     IN  Set(b, [r EXCEPT !.obj = BackPopped(@, 1)])

(* slice builds its result as a copy of o; no count means npos. *)
Slice(b, o, start) ==
  /\ Room /\ b \notin Alive
  /\ LET copy == CopyOf(buf[o], heap)
     IN  \E r \in FrontPopped(copy.obj, copy.heap, start) : Set(b, r)

SliceCount(b, o, start, count) ==
  /\ Room /\ b \notin Alive
  /\ LET copy == CopyOf(buf[o], heap)
     IN  \E r \in FrontPopped(copy.obj, copy.heap, start) :
           Set(b, [r EXCEPT !.obj = IF @.size > count THEN BackPopped(@, @.size - count)
                                    ELSE @])

-----------------------------------------------------------------------------
Init == buf = <<>> /\ heap = <<>>

Next ==
  \/ \E b \in Bufs : Construct(b)
  \/ \E b \in Bufs, s \in Inputs : ConstructFrom(b, s)
  \/ \E b \in Bufs, o \in Alive : ConstructCopy(b, o)
  \/ \E b \in Alive : Destruct(b) \/ Clear(b) \/ NulTerminate(b)
  \/ \E b, o \in Alive : Assign(b, o)
  \/ \E b \in Alive, s \in Inputs : AssignFrom(b, s) \/ PushBack(b, s) \/ PushFront(b, s)
  \/ \E b \in Alive, n \in Counts : PopBack(b, n) \/ PopFront(b, n)
  \/ \E b \in Bufs, o \in Alive, n \in Counts :
       Slice(b, o, n) \/ \E k \in Counts : SliceCount(b, o, n, k)

Spec == Init /\ [][Next]_vars

-----------------------------------------------------------------------------
(***************************************************************************)
(* "always the same as capacity": a buffer's pointer leads to a live block *)
(* of exactly capacity bytes, or is null and the capacity 0; its size is   *)
(* within; no two buffers share a block.                                   *)
(***************************************************************************)
OwnsItsCapacity ==
  /\ \A b \in Alive :
       /\ buf[b].size \in 0 .. buf[b].capacity
       /\ IF buf[b].data = Null THEN buf[b].capacity = 0
          ELSE buf[b].data \in Live(heap) /\ Len(heap[buf[b].data]) = buf[b].capacity
  /\ \A b, o \in Alive : buf[b].data = buf[o].data /\ b # o => buf[b].data = Null

Owned == {buf[b].data : b \in Alive} \ {Null}
Lost == Live(heap) \ Owned

(***************************************************************************)
(* A block is lost in one way only: an empty buffer that still has a block *)
(* takes a larger one.                                                     *)
(***************************************************************************)
LosesOnlyWhenEmpty ==
  [][\A a \in Lost' \ Lost :
       \E b \in Alive : buf[b].data = a /\ buf[b].size = 0 /\ b \in Alive' /\ buf'[b].data # a]_vars

(* The buffers are the strings that their users see. *)
Strings == INSTANCE ByteStrings WITH value <- [b \in Alive |-> Content(buf[b], heap)]

ImplementsByteStrings == Strings!StringsSpec

(***************************************************************************)
(* Which operation does what: each does to the strings exactly what it     *)
(* promises, and bytes nothing at all, however the buffers came to their   *)
(* capacities and blocks.                                                  *)
(***************************************************************************)
CreationKeepsItsPromise ==
  \A b \in Alive' \ Alive :
    /\ Construct(b) => Strings!Construct(b)
    /\ \A s \in Inputs : ConstructFrom(b, s) => Strings!ConstructFrom(b, CString(s))
    /\ \A o \in Alive :
         /\ ConstructCopy(b, o) => Strings!ConstructCopy(b, o)
         /\ \A n \in Counts :
              /\ Slice(b, o, n) => Strings!Slice(b, o, n)
              /\ \A k \in Counts : SliceCount(b, o, n, k) => Strings!SliceCount(b, o, n, k)

ChangeKeepsItsPromise(b) ==
  /\ \A s \in Inputs :
       /\ AssignFrom(b, s) => Strings!ConstructFrom(b, CString(s))
       /\ PushBack(b, s) => Strings!PushBack(b, s)
       /\ PushFront(b, s) => Strings!PushFront(b, s)
  /\ \A n \in Counts :
       /\ PopBack(b, n) => Strings!PopBack(b, n)
       /\ PopFront(b, n) => Strings!PopFront(b, n)
  /\ \A o \in Alive : Assign(b, o) => Strings!Assign(b, o)
  /\ Clear(b) => Strings!Construct(b)
  /\ NulTerminate(b) => Strings!Look

OperationsKeepTheirPromises ==
  [][/\ CreationKeepsItsPromise
     /\ \A b \in Alive \ Alive' : Destruct(b) => Strings!Destroy(b)
     /\ Alive' = Alive => \A b \in Alive : ChangeKeepsItsPromise(b)]_vars
=============================================================================
