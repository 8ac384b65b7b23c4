---------------------------- MODULE ByteStrings ----------------------------
(***************************************************************************)
(* What the users of a ByteBuf may rely on: every buffer that exists is a  *)
(* string of bytes of its own.  The one reservation is about the front: a  *)
(* shift over less than the length of what is shifted is a memcpy between  *)
(* overlapping ranges, of which only the length and the set of bytes is    *)
(* known.                                                                  *)
(***************************************************************************)
EXTENDS Integers, SequencesExt

CONSTANTS Bufs,     (* names of buffers                                    *)
          Nul,      (* the byte 0                                          *)
          Inputs,   (* the byte sequences that are pushed                  *)
          Counts    (* the numbers of bytes that are popped                *)

VARIABLE value      (* value[b], for every buffer b that exists            *)

Alive == DOMAIN value

CStrings == {s \in Inputs : Nul \notin Range(s)}

(* What may become of the string s when it is shifted by d. *)
Shifted(s, d) == IF d = 0 \/ d >= Len(s) THEN {s} ELSE [1 .. Len(s) -> Range(s)]

First(s, n) == SubSeq(s, 1, IF n < Len(s) THEN n ELSE Len(s))
WithoutFirst(s, n) == Shifted(SubSeq(s, n + 1, Len(s)), n)
WithoutLast(s, n) == SubSeq(s, 1, Len(s) - n)

(* Buffer b comes to exist, or is given another value. *)
Becomes(b, s) == value' = [o \in Alive \cup {b} |-> IF o = b THEN s ELSE value[o]]

Construct(b) == Becomes(b, <<>>)
ConstructFrom(b, s) == Becomes(b, s)
ConstructCopy(b, o) == Becomes(b, value[o])

Slice(b, o, n) == \E m \in WithoutFirst(value[o], n) : Becomes(b, m)
SliceCount(b, o, n, k) == \E m \in WithoutFirst(value[o], n) : Becomes(b, First(m, k))

PushBack(b, s) == Becomes(b, value[b] \o s)
PushFront(b, s) == \E m \in Shifted(value[b], Len(s)) : Becomes(b, s \o m)

PopBack(b, n) == Becomes(b, WithoutLast(value[b], n))
PopFront(b, n) == \E m \in WithoutFirst(value[b], n) : Becomes(b, m)

(* Assigning a buffer to itself empties it. *)
Assign(b, o) == Becomes(b, IF o = b THEN <<>> ELSE value[o])

(* bytes, c_str *)
Look == UNCHANGED value

Destroy(b) == value' = [o \in Alive \ {b} |-> value[o]]

StringsInit == value = <<>>

StringsNext ==
  \/ \E b \in Bufs : Construct(b) \/ \E s \in CStrings : ConstructFrom(b, s)
  \/ \E b \in Bufs \ Alive, o \in Alive :
       \/ ConstructCopy(b, o)
       \/ \E n \in Counts : Slice(b, o, n) \/ \E k \in Counts : SliceCount(b, o, n, k)
  \/ \E b \in Alive, s \in Inputs : PushBack(b, s) \/ PushFront(b, s)
  \/ \E b \in Alive, n \in Counts : PopBack(b, n) \/ PopFront(b, n)
  \/ \E b, o \in Alive : Assign(b, o)
  \/ \E b \in Alive : Destroy(b)

StringsSpec == StringsInit /\ [][StringsNext]_value
=============================================================================
