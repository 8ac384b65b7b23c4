-------------------------- MODULE SocketStreamProofs --------------------------
(***************************************************************************)
(* For any buffers, window, lengths, timeouts and number of failures: the  *)
(* bytes that readall returns are those that write_all was given, once and *)
(* in order; of a stream by itself and of the sessions around it.          *)
(***************************************************************************)
EXTENDS TcpSession, SequenceTheorems, TLAPS

Byte == 1 .. MaxBytes

(* How many bytes write_all is done with. *)
Written == issued - left

(* What the running readall has in its hands. *)
Held == IF rpc = "idle" THEN <<>> ELSE got

(* The bytes of s, in order and none of them after byte m. *)
InOrder(s, m) ==
  /\ \A i, j \in 1 .. Len(s) : i < j => s[i] < s[j]
  /\ \A i \in 1 .. Len(s) : s[i] <= m

(* A write_all that did not fail left nothing behind. *)
WritesAll == wpc = "idle" /\ ~gap => left = 0

BytesInv == InOrder(Arriving, Written) /\ StreamIntact /\ WritesAll

(* Only a readall with a timeout waits in select. *)
SelectHasTimeout == rpc = "select" => timeout > 0

ReadInv == CountsItsBytes /\ SelectHasTimeout /\ ShortOnlyWithTimeout

StreamInv == StreamTypeOK /\ BytesInv /\ ReadInv

-----------------------------------------------------------------------------
(* Sequences of bytes *)

LEMMA NextNumbers ==
  ASSUME NEW m \in Nat, NEW n \in Nat, m + n <= MaxBytes
  PROVE  /\ Numbers(m, m + n) \in Seq(Byte) /\ Len(Numbers(m, m + n)) = n
         /\ \A i \in 1 .. n : Numbers(m, m + n)[i] = m + i
<1>0. (m + n) - m = n /\ MaxBytes \in Nat
  BY BoundAssumption
<1> DEFINE b == [i \in 1 .. n |-> m + i]
<1>1. Numbers(m, m + n) = b
  BY <1>0 DEF Numbers
<1>2. b \in [1 .. n -> Byte]
  BY <1>0 DEF Byte
<1>3. b \in Seq(Byte) /\ Len(b) = n
  BY <1>2
<1>4. \A i \in 1 .. n : b[i] = m + i
  OBVIOUS
<1> QED BY <1>1, <1>3, <1>4

LEMMA FirstNumbers ==
  ASSUME NEW n \in Nat, n <= MaxBytes
  PROVE  /\ Numbers(0, n) \in Seq(Byte) /\ Len(Numbers(0, n)) = n
         /\ \A i \in 1 .. n : Numbers(0, n)[i] = i
<1>1. 0 + n = n /\ \A i \in 1 .. n : 0 + i = i
  OBVIOUS
<1>2. /\ Numbers(0, 0 + n) \in Seq(Byte) /\ Len(Numbers(0, 0 + n)) = n
      /\ \A i \in 1 .. n : Numbers(0, 0 + n)[i] = 0 + i
  BY <1>1, NextNumbers
<1> QED BY <1>1, <1>2

LEMMA NumbersGoOn ==
  ASSUME NEW m \in Nat, NEW n \in Nat, m + n <= MaxBytes
  PROVE  Numbers(0, m) \o Numbers(m, m + n) = Numbers(0, m + n)
<1> DEFINE a == Numbers(0, m)  b == Numbers(m, m + n)  c == Numbers(0, m + n)
<1>0. MaxBytes \in Nat /\ m <= MaxBytes /\ m + n \in Nat
  BY BoundAssumption
<1>1. a \in Seq(Byte) /\ Len(a) = m /\ \A i \in 1 .. m : a[i] = i
  BY <1>0, FirstNumbers
<1>2. b \in Seq(Byte) /\ Len(b) = n /\ \A i \in 1 .. n : b[i] = m + i
  BY <1>0, NextNumbers
<1>3. c \in Seq(Byte) /\ Len(c) = m + n /\ \A i \in 1 .. m + n : c[i] = i
  BY <1>0, FirstNumbers
<1> HIDE DEF a, b, c
<1>4. /\ a \o b \in Seq(Byte) /\ Len(a \o b) = m + n
      /\ \A i \in 1 .. m + n : (a \o b)[i] = IF i <= m THEN a[i] ELSE b[i - m]
  BY <1>1, <1>2, ConcatProperties
<1>5. \A i \in 1 .. m + n : (a \o b)[i] = c[i]
  BY <1>1, <1>2, <1>3, <1>4
<1>6. a \o b = c
  BY <1>3, <1>4, <1>5, SeqEqual
<1> QED BY <1>6 DEF a, b, c

LEMMA InOrderWhenAdded ==
  ASSUME NEW s \in Seq(Byte), NEW m \in Nat, NEW n \in Nat, m + n <= MaxBytes, InOrder(s, m)
  PROVE  InOrder(s \o Numbers(m, m + n), m + n)
<1> DEFINE b == Numbers(m, m + n)  t == s \o b
<1>0. MaxBytes \in Nat /\ m + n \in Nat /\ Len(s) \in Nat
      /\ \A i \in 1 .. Len(s) : s[i] \in Nat
  BY BoundAssumption DEF Byte
<1>1. b \in Seq(Byte) /\ Len(b) = n /\ \A i \in 1 .. n : b[i] = m + i
  BY <1>0, NextNumbers
<1>2. /\ Len(t) = Len(s) + n
      /\ \A i \in 1 .. Len(s) + n : t[i] = IF i <= Len(s) THEN s[i] ELSE b[i - Len(s)]
  <2> HIDE DEF b
  <2> QED BY <1>0, <1>1, ConcatProperties
<1> HIDE DEF b, t
<1>3. \A i \in 1 .. Len(s) + n : i > Len(s) => t[i] = m + (i - Len(s))
  BY <1>0, <1>1, <1>2
<1>4. \A i \in 1 .. Len(s) : t[i] = s[i] /\ s[i] <= m
  BY <1>0, <1>2 DEF InOrder
<1>5. \A i \in 1 .. Len(t) : t[i] <= m + n
  BY <1>0, <1>2, <1>3, <1>4
<1>6. \A i, j \in 1 .. Len(t) : i < j => t[i] < t[j]
  <2> SUFFICES ASSUME NEW i \in 1 .. Len(t), NEW j \in 1 .. Len(t), i < j PROVE t[i] < t[j]
    OBVIOUS
  <2>1. CASE j <= Len(s)
    BY <1>0, <1>4, <2>1 DEF InOrder
  <2>2. CASE i <= Len(s) /\ j > Len(s)
    BY <1>0, <1>2, <1>3, <1>4, <2>2
  <2>3. CASE i > Len(s)
    BY <1>0, <1>2, <1>3, <2>3
  <2> QED BY <1>0, <1>2, <2>1, <2>2, <2>3
<1>7. InOrder(t, m + n)
  BY <1>5, <1>6 DEF InOrder
<1> QED BY <1>7 DEF t, b

LEMMA InOrderWithout ==
  ASSUME NEW s \in Seq(Byte), NEW t \in Seq(Byte), NEW u \in Seq(Byte), NEW m \in Nat,
         InOrder((s \o t) \o u, m)
  PROVE  InOrder(s \o u, m)
<1> DEFINE st == s \o t  stu == st \o u  su == s \o u  k == Len(t)
<1>0. Len(s) \in Nat /\ Len(t) \in Nat /\ Len(u) \in Nat
  OBVIOUS
<1>1. st \in Seq(Byte) /\ Len(st) = Len(s) + k
      /\ \A i \in 1 .. Len(s) + k : st[i] = IF i <= Len(s) THEN s[i] ELSE t[i - Len(s)]
  BY ConcatProperties
<1> HIDE DEF st
<1>2. Len(stu) = Len(s) + k + Len(u)
      /\ \A i \in 1 .. Len(s) + k + Len(u) :
           stu[i] = IF i <= Len(s) + k THEN st[i] ELSE u[i - (Len(s) + k)]
  BY <1>1, ConcatProperties
<1>3. Len(su) = Len(s) + Len(u)
      /\ \A i \in 1 .. Len(s) + Len(u) : su[i] = IF i <= Len(s) THEN s[i] ELSE u[i - Len(s)]
  BY ConcatProperties
<1>4. InOrder(stu, m)
  BY DEF st
<1> HIDE DEF stu, su
<1>5. \A i \in 1 .. Len(su) : su[i] = stu[IF i <= Len(s) THEN i ELSE i + k]
  <2> SUFFICES ASSUME NEW i \in 1 .. Len(su)
               PROVE  su[i] = stu[IF i <= Len(s) THEN i ELSE i + k]
    OBVIOUS
  <2>1. CASE i <= Len(s)
    BY <1>0, <1>1, <1>2, <1>3, <2>1
  <2>2. CASE i > Len(s)
    <3>1. i + k \in 1 .. Len(s) + k + Len(u) /\ i + k > Len(s) + k
      BY <1>0, <1>3, <2>2
    <3>2. (i + k) - (Len(s) + k) = i - Len(s)
      BY <1>0
    <3>3. stu[i + k] = u[i - Len(s)]
      BY <1>0, <1>2, <3>1, <3>2
    <3> QED BY <1>0, <1>3, <2>2, <3>3
  <2> QED BY <1>0, <2>1, <2>2
<1>6. \A i \in 1 .. Len(su) : (IF i <= Len(s) THEN i ELSE i + k) \in 1 .. Len(stu)
  BY <1>0, <1>2, <1>3
<1> DEFINE at(i) == IF i <= Len(s) THEN i ELSE i + k
<1>7. \A i, j \in 1 .. Len(su) : i < j => at(i) < at(j)
  BY <1>0, <1>3
<1> HIDE DEF at
<1>8. \A i \in 1 .. Len(su) : at(i) \in 1 .. Len(stu) /\ su[i] = stu[at(i)]
  BY <1>5, <1>6 DEF at
<1>9. InOrder(su, m)
  BY <1>4, <1>7, <1>8 DEF InOrder
<1> QED BY <1>9 DEF su

-----------------------------------------------------------------------------
(* Types *)

LEMMA Constants ==
  /\ SndBuf \in Nat /\ SndBuf > 0 /\ RcvBuf \in Nat /\ RcvBuf > 0 /\ Window \in Nat
  /\ MaxBytes \in Nat /\ MaxFaults \in Nat /\ Second \in Nat /\ Second > 0
  /\ \A n \in Lengths \cup Sizes \cup Timeouts : n \in Nat
BY BufferAssumption, CallAssumption, BoundAssumption, SecondAssumption

LEMMA WaitedIsInTime ==
  ASSUME NEW ms \in Nat
  PROVE  Waited(ms) \in 0 .. ms
<1> DEFINE q == ms \div Second
<1>1. Second \in Nat /\ Second > 0
  BY Constants
<1>2. q \in Nat /\ ms % Second \in Nat /\ ms = Second * q + (ms % Second)
  BY <1>1
<1>3. Second * q \in Nat
  BY <1>1, <1>2
<1> HIDE DEF q
<1>4. Second * q <= ms
  BY <1>2, <1>3
<1>5. Waited(ms) = Second * q
  BY DEF Waited, q
<1> QED BY <1>3, <1>4, <1>5

LEMMA InitStreamTypes == Init => StreamTypeOK
<1> SUFFICES ASSUME Init PROVE StreamTypeOK
  OBVIOUS
<1>1. /\ <<>> \in Seq(1 .. MaxBytes) /\ Len(<<>>) <= Window
      /\ 0 \in 0 .. MaxFaults /\ 0 \in 0 .. MaxBytes /\ 0 \in 0 .. 0
  BY Constants
<1> QED BY <1>1 DEF Init, StreamTypeOK

(* How many bytes a send takes. *)
LEMMA SendTakes ==
  ASSUME StreamTypeOK, NEW n \in Least(Chunk, 1) .. Least(Chunk, Window - Len(wire))
  PROVE  n \in 0 .. left /\ n <= Window - Len(wire) /\ n <= SndBuf
<1>1. left \in Nat /\ Len(wire) \in Nat /\ issued \in Nat
  BY Constants DEF StreamTypeOK
<1> QED BY <1>1, Constants DEF Least, Chunk

LEMMA SendKeepsTypes ==
  ASSUME StreamTypeOK, Send
  PROVE  StreamTypeOK'
<1>1. PICK n \in Least(Chunk, 1) .. Least(Chunk, Window - Len(wire)) :
        wire' = wire \o Numbers(issued - left, issued - left + n) /\ Sent(n)
  BY DEF Send
<1>2. n \in 0 .. left /\ n <= Window - Len(wire)
  BY SendTakes
<1>3. left \in Nat /\ issued \in Nat /\ left <= issued /\ issued <= MaxBytes /\ MaxBytes \in Nat
  BY Constants DEF StreamTypeOK
<1> DEFINE m == issued - left
<1>4. m \in Nat /\ n \in Nat /\ m + n <= MaxBytes
  BY <1>2, <1>3
<1> HIDE DEF m
<1>5. Numbers(m, m + n) \in Seq(1 .. MaxBytes) /\ Len(Numbers(m, m + n)) = n
  BY <1>4, NextNumbers DEF Byte
<1>6. wire' = wire \o Numbers(m, m + n)
  BY <1>1 DEF m
<1>7. wire' \in Seq(1 .. MaxBytes) /\ Len(wire') = Len(wire) + n
  BY <1>5, <1>6, ConcatProperties DEF StreamTypeOK
<1>8. Len(wire') <= Window
  BY <1>2, <1>7, Constants DEF StreamTypeOK
<1>9. left' \in 0 .. issued
  BY <1>1, <1>2, <1>3 DEF Sent
<1>10. wpc' \in {"idle", "call", "ready", "send"}
  BY <1>1 DEF Sent
<1> QED
  BY <1>7, <1>8, <1>9, <1>10 DEF Send, StreamTypeOK, readVars, waitVars

LEMMA WriteKeepsTypes ==
  ASSUME StreamTypeOK, WriteStep \/ \E n \in Lengths : Write(n)
  PROVE  StreamTypeOK'
<1>1. CASE Send
  BY <1>1, SendKeepsTypes
<1>2. CASE WriteBegins \/ Writeable
  BY <1>2 DEF WriteBegins, Writeable, StreamTypeOK, wireVars, readVars, waitVars
<1>3. CASE SendToNobody
  <2>1. left \in Nat /\ left <= issued /\ issued \in Nat
    BY Constants DEF StreamTypeOK
  <2>2. Chunk \in 0 .. left
    BY <2>1, Constants DEF Chunk, Least
  <2>3. left' \in 0 .. issued /\ wpc' \in {"idle", "call", "ready", "send"}
    BY <1>3, <2>1, <2>2 DEF SendToNobody, Sent
  <2> QED BY <1>3, <2>3 DEF SendToNobody, StreamTypeOK, wireVars, readVars, waitVars
<1>4. CASE WriteFails
  <2>1. faults' \in 0 .. MaxFaults
    BY <1>4, Constants DEF WriteFails, Fault, StreamTypeOK
  <2> QED BY <1>4, <2>1 DEF WriteFails, StreamTypeOK, wireVars, readVars, waitVars
<1>5. ASSUME NEW n \in Lengths, Write(n)
      PROVE  StreamTypeOK'
  <2>1. n \in Nat /\ issued \in Nat
    BY Constants DEF StreamTypeOK
  <2>2. issued' \in 0 .. MaxBytes /\ left' \in 0 .. issued'
    BY <1>5, <2>1, Constants DEF Write
  <2> QED BY <1>5, <2>2 DEF Write, StreamTypeOK, wireVars, readVars, waitVars
<1> QED BY <1>1, <1>2, <1>3, <1>4, <1>5 DEF WriteStep

(* A receive splits what is in the connection. *)
LEMMA ReceiveSplits ==
  ASSUME StreamTypeOK, rpc = "recv", wire # <<>>,
         NEW n \in 1 .. Least(Least(size, RcvBuf), Len(wire))
  PROVE  /\ n \in Nat /\ n <= size
         /\ SubSeq(wire, 1, n) \in Seq(Byte) /\ Len(SubSeq(wire, 1, n)) = n
         /\ SubSeq(wire, n + 1, Len(wire)) \in Seq(Byte)
         /\ Len(SubSeq(wire, n + 1, Len(wire))) <= Len(wire)
         /\ SubSeq(wire, 1, n) \o SubSeq(wire, n + 1, Len(wire)) = wire
<1>0. size \in Nat /\ wire \in Seq(Byte) /\ Len(wire) \in Nat
  BY Constants DEF StreamTypeOK, Byte
<1>1. n \in Nat /\ n >= 1 /\ n <= size /\ n <= Len(wire)
  BY <1>0, Constants DEF Least
<1>2. SubSeq(wire, 1, n) \in Seq(Byte) /\ Len(SubSeq(wire, 1, n)) = n
  BY <1>0, <1>1, SubSeqProperties
<1>3. /\ SubSeq(wire, n + 1, Len(wire)) \in Seq(Byte)
      /\ Len(SubSeq(wire, n + 1, Len(wire))) <= Len(wire)
  BY <1>0, <1>1, SubSeqProperties
<1>4. SubSeq(wire, 1, n) \o SubSeq(wire, n + 1, Len(wire)) = SubSeq(wire, 1, Len(wire))
  BY <1>0, <1>1, ConcatAdjacentSubSeq
<1>5. SubSeq(wire, 1, Len(wire)) = wire
  BY <1>0, SubSeqFull
<1> QED BY <1>1, <1>2, <1>3, <1>4, <1>5

LEMMA ReceiveKeepsTypes ==
  ASSUME StreamTypeOK, Receive
  PROVE  StreamTypeOK'
<1>1. PICK n \in 1 .. Least(Least(size, RcvBuf), Len(wire)) :
        /\ got' = got \o SubSeq(wire, 1, n)
        /\ wire' = SubSeq(wire, n + 1, Len(wire))
        /\ size' = size - n
        /\ IF n = size /\ size < RcvBuf
           THEN rpc' = "idle" /\ answer' = "ok" /\ delivered' = delivered \o got'
           ELSE rpc' = "try" /\ UNCHANGED <<answer, delivered>>
  BY DEF Receive
<1>2. rpc = "recv" /\ wire # <<>>
  BY DEF Receive
<1>3. /\ n \in Nat /\ n <= size
      /\ SubSeq(wire, 1, n) \in Seq(Byte) /\ SubSeq(wire, n + 1, Len(wire)) \in Seq(Byte)
      /\ Len(SubSeq(wire, n + 1, Len(wire))) <= Len(wire)
  BY <1>2, ReceiveSplits
<1>4. wire' \in Seq(1 .. MaxBytes) /\ Len(wire') <= Window
  <2> Len(wire) \in Nat /\ Len(wire) <= Window /\ Window \in Nat
    BY Constants DEF StreamTypeOK
  <2> wire' \in Seq(Byte) /\ Len(wire') <= Len(wire) /\ Len(wire') \in Nat
    BY <1>1, <1>3
  <2> QED BY DEF Byte
<1>5. got' \in Seq(1 .. MaxBytes)
  BY <1>1, <1>3, ConcatProperties DEF StreamTypeOK, Byte
<1>6. delivered' \in Seq(1 .. MaxBytes)
  <2>1. delivered \in Seq(1 .. MaxBytes)
    BY DEF StreamTypeOK
  <2>2. delivered \o got' \in Seq(1 .. MaxBytes)
    BY <1>5, <2>1, ConcatProperties
  <2>3. delivered' = delivered \o got' \/ delivered' = delivered
    BY <1>1
  <2> QED BY <2>1, <2>2, <2>3
<1>7. size' \in 0 .. asked
  BY <1>1, <1>3 DEF StreamTypeOK
<1>8. rpc' \in {"idle", "try"} /\ answer' \in {"none", "ok", "failed"}
  BY <1>1 DEF StreamTypeOK
<1> QED
  BY <1>4, <1>5, <1>6, <1>7, <1>8 DEF Receive, StreamTypeOK, writeVars, waitVars

LEMMA ReturnKeepsTypes ==
  ASSUME StreamTypeOK, ReadReturns
  PROVE  StreamTypeOK'
<1>1. delivered' \in Seq(1 .. MaxBytes)
  BY ConcatProperties DEF ReadReturns, StreamTypeOK
<1> QED BY <1>1 DEF ReadReturns, StreamTypeOK, wireVars, writeVars, waitVars

LEMMA ReadKeepsTypes ==
  ASSUME StreamTypeOK, ReadStep \/ \E n \in Sizes, t \in Timeouts : Read(n, t)
  PROVE  StreamTypeOK'
<1>1. CASE ReadBegins
  BY <1>1 DEF ReadBegins, StreamTypeOK, wireVars, writeVars, waitVars
<1>2. CASE ReadEnds \/ SelectTimesOut
  BY <1>2, ReturnKeepsTypes DEF ReadEnds, SelectTimesOut
<1>3. CASE ReadAwaits \/ BecomesReadable \/ ReceiveNothing
  BY <1>3 DEF ReadAwaits, BecomesReadable, ReceiveNothing, ReadMovesTo, StreamTypeOK,
              wireVars, writeVars
<1>4. CASE ReadSelects
  <2>1. elapsed \in Nat /\ timeout \in Nat /\ timeout - elapsed \in Nat
    BY <1>4 DEF ReadSelects, StreamTypeOK
  <2>2. Waited(timeout - elapsed) \in 0 .. timeout - elapsed
    BY <2>1, WaitedIsInTime
  <2>3. until' \in 0 .. timeout
    BY <1>4, <2>1, <2>2 DEF ReadSelects
  <2> QED BY <1>4, <2>3 DEF ReadSelects, ReadMovesTo, StreamTypeOK, wireVars, writeVars
<1>5. CASE Receive
  BY <1>5, ReceiveKeepsTypes
<1>6. ASSUME NEW at, ReadFails(at)
      PROVE  StreamTypeOK'
  <2>1. faults' \in 0 .. MaxFaults
    BY <1>6, Constants DEF ReadFails, Fault, StreamTypeOK
  <2>2. got' \in Seq(1 .. MaxBytes)
    BY <1>6 DEF ReadFails
  <2> QED BY <1>6, <2>1, <2>2 DEF ReadFails, StreamTypeOK, wireVars, writeVars, waitVars
<1>7. ASSUME NEW n \in Sizes, NEW t \in Timeouts, Read(n, t)
      PROVE  StreamTypeOK'
  <2>1. n \in Nat /\ t \in Nat
    BY Constants
  <2>2. /\ asked' \in Nat /\ size' \in 0 .. asked' /\ timeout' \in Nat
        /\ elapsed' \in 0 .. timeout' /\ until' \in 0 .. timeout'
    BY <1>7, <2>1 DEF Read
  <2>3. got' \in Seq(1 .. MaxBytes)
    BY <1>7 DEF Read
  <2> QED BY <1>7, <2>2, <2>3 DEF Read, StreamTypeOK, wireVars, writeVars
<1> QED BY <1>1, <1>2, <1>3, <1>4, <1>5, <1>6, <1>7 DEF ReadStep

(* The clock, and closing either end. *)
LEMMA OthersKeepTypes ==
  ASSUME StreamTypeOK, Tick \/ CloseWriter \/ CloseReader
  PROVE  StreamTypeOK'
<1>1. CASE Tick
  BY <1>1 DEF Tick, StreamTypeOK, wireVars, writeVars, readVars
<1>a. CloseWriter \/ CloseReader => faults' \in 0 .. MaxFaults
  BY Constants DEF CloseWriter, CloseReader, Fault, StreamTypeOK
<1>2. CASE CloseWriter
  BY <1>a, <1>2 DEF CloseWriter, StreamTypeOK, writeVars, readVars, waitVars
<1>3. CASE CloseReader
  <2>1. wire' = <<>> /\ wire' \in Seq(1 .. MaxBytes) /\ Len(wire') <= Window
    BY <1>3, Constants DEF CloseReader
  <2> QED BY <1>a, <1>3, <2>1 DEF CloseReader, StreamTypeOK, writeVars, readVars, waitVars
<1> QED BY <1>1, <1>2, <1>3

-----------------------------------------------------------------------------
(* The bytes *)

LEMMA ArrivingIsTyped ==
  ASSUME StreamTypeOK
  PROVE  /\ delivered \in Seq(Byte) /\ Held \in Seq(Byte) /\ got \in Seq(Byte)
         /\ wire \in Seq(Byte) /\ Arriving \in Seq(Byte)
         /\ Arriving = (delivered \o Held) \o wire
         /\ Written \in Nat /\ Written <= MaxBytes /\ left \in Nat
<1>1. delivered \in Seq(Byte) /\ got \in Seq(Byte) /\ wire \in Seq(Byte)
  BY DEF StreamTypeOK, Byte
<1>2. Held \in Seq(Byte)
  BY <1>1 DEF Held
<1>3. Arriving = (delivered \o Held) \o wire
  BY DEF Arriving, Held
<1>4. (delivered \o Held) \o wire \in Seq(Byte)
  BY <1>1, <1>2, ConcatProperties
<1>5. Written \in Nat /\ Written <= MaxBytes /\ left \in Nat
  BY Constants DEF StreamTypeOK, Written
<1> QED BY <1>1, <1>2, <1>3, <1>4, <1>5

(* A step that moves no byte. *)
LEMMA SameBytes ==
  ASSUME StreamTypeOK, BytesInv, Arriving' = Arriving,
         Written' \in Nat, Written <= Written',
         ~gap' /\ ropen' => ~gap /\ ropen /\ Written' = Written,
         WritesAll'
  PROVE  BytesInv'
<1>1. Written \in Nat /\ \A i \in 1 .. Len(Arriving) : Arriving[i] \in Nat
  <2>1. Written \in Nat /\ Arriving \in Seq(Byte)
    BY ArrivingIsTyped
  <2>2. \A i \in 1 .. Len(Arriving) : Arriving[i] \in Byte
    BY <2>1, ElementOfSeq
  <2> QED BY <2>1, <2>2 DEF Byte
<1>2. InOrder(Arriving, Written')
  BY <1>1 DEF BytesInv, InOrder
<1>3. InOrder(Arriving, Written)'
  BY <1>2 DEF InOrder
<1>4. StreamIntact'
  <2> SUFFICES ASSUME ~gap', ropen' PROVE Arriving' = Numbers(0, issued' - left')
    BY DEF StreamIntact
  <2>1. Arriving = Numbers(0, Written)
    BY DEF BytesInv, StreamIntact, Written
  <2>2. Arriving' = Numbers(0, Written')
    BY <2>1
  <2> QED BY <2>2 DEF Written
<1> QED BY <1>3, <1>4 DEF BytesInv

(* A step of the writer that leaves the bytes alone. *)
LEMMA SameBytesOfReader ==
  ASSUME UNCHANGED <<wire, readVars>>
  PROVE  Arriving' = Arriving
BY DEF readVars, Arriving

LEMMA SendKeepsBytes ==
  ASSUME StreamTypeOK, BytesInv, Send
  PROVE  BytesInv'
<1>1. PICK n \in Least(Chunk, 1) .. Least(Chunk, Window - Len(wire)) :
        wire' = wire \o Numbers(issued - left, issued - left + n) /\ Sent(n)
  BY DEF Send
<1>2. n \in 0 .. left
  BY SendTakes
<1>3. UNCHANGED <<ropen, issued, gap, delivered, Held>> /\ left' = left - n
  BY <1>1 DEF Send, readVars, Held, Sent
<1>4. /\ Written \in Nat /\ n \in Nat /\ Written + n <= MaxBytes
      /\ Written' = Written + n
  BY <1>2, <1>3, Constants DEF Written, StreamTypeOK
<1> DEFINE b == Numbers(Written, Written + n)
<1>5. b \in Seq(Byte)
  BY <1>4, NextNumbers
<1>6. wire' = wire \o b
  BY <1>1 DEF Written
<1> HIDE DEF b
<1>7. Arriving' = Arriving \o b
  <2>1. Arriving' = (delivered \o Held) \o wire'
    BY <1>3 DEF Arriving, Held
  <2>2. delivered \o Held \in Seq(Byte) /\ wire \in Seq(Byte)
    BY ArrivingIsTyped, ConcatProperties
  <2>3. ((delivered \o Held) \o wire) \o b = (delivered \o Held) \o (wire \o b)
    BY <1>5, <2>2, ConcatAssociative
  <2> QED BY <1>6, <2>1, <2>3, ArrivingIsTyped
<1>8. InOrder(Arriving, Written)'
  <2>1. InOrder(Arriving \o b, Written + n)
    BY <1>4, ArrivingIsTyped, InOrderWhenAdded DEF BytesInv, b
  <2>2. InOrder(Arriving', Written')
    BY <1>4, <1>7, <2>1
  <2> QED BY <2>2 DEF InOrder
<1>9. StreamIntact'
  <2> SUFFICES ASSUME ~gap', ropen' PROVE Arriving' = Numbers(0, issued' - left')
    BY DEF StreamIntact
  <2>1. Arriving = Numbers(0, Written)
    BY <1>3 DEF BytesInv, StreamIntact, Written
  <2>2. Arriving' = Numbers(0, Written + n)
    BY <1>4, <1>7, <2>1, NumbersGoOn DEF b
  <2> QED BY <1>4, <2>2 DEF Written
<1>10. WritesAll'
  BY <1>1, <1>2, ArrivingIsTyped DEF Sent, WritesAll
<1> QED BY <1>8, <1>9, <1>10 DEF BytesInv

LEMMA WriteKeepsBytes ==
  ASSUME StreamTypeOK, BytesInv, WriteStep \/ \E n \in Lengths : Write(n)
  PROVE  BytesInv'
<1>0. left \in Nat /\ issued \in Nat /\ left <= issued
  BY Constants DEF StreamTypeOK
<1>1. CASE Send
  BY <1>1, SendKeepsBytes
<1>2. CASE WriteBegins \/ Writeable
  <2>1. UNCHANGED <<wire, readVars, ropen, gap, left, issued>> /\ wpc' # "idle"
    BY <1>2 DEF WriteBegins, Writeable, wireVars
  <2>2. Written' = Written /\ WritesAll'
    BY <2>1 DEF Written, WritesAll
  <2> QED BY <2>1, <2>2, SameBytes, SameBytesOfReader, ArrivingIsTyped
<1>3. CASE SendToNobody
  <2>1. UNCHANGED <<wire, readVars, ropen, issued>> /\ gap' /\ left' = left - Chunk
    BY <1>3 DEF SendToNobody, Sent, wireVars
  <2>2. Chunk \in 0 .. left
    BY <1>0, Constants DEF Chunk, Least
  <2>3. Written' \in Nat /\ Written <= Written' /\ WritesAll'
    BY <1>0, <2>1, <2>2 DEF Written, WritesAll
  <2> QED BY <2>1, <2>3, SameBytes, SameBytesOfReader
<1>4. CASE WriteFails
  <2>1. UNCHANGED <<wire, readVars, ropen, issued, left>> /\ gap'
    BY <1>4 DEF WriteFails, wireVars
  <2>2. Written' = Written /\ WritesAll'
    BY <2>1 DEF Written, WritesAll
  <2> QED BY <2>1, <2>2, SameBytes, SameBytesOfReader, ArrivingIsTyped
<1>5. ASSUME NEW n \in Lengths, Write(n)
      PROVE  BytesInv'
  <2>1. /\ UNCHANGED <<wire, readVars, ropen, gap>> /\ wpc = "idle" /\ wpc' = "call"
        /\ left' = n /\ issued' = issued + n /\ n \in Nat
    BY <1>5, Constants DEF Write, wireVars
  <2>2. Written' = issued /\ Written' \in Nat /\ Written <= Written' /\ WritesAll'
    BY <1>0, <2>1 DEF Written, WritesAll
  <2>3. ~gap => Written' = Written
    BY <1>0, <2>1, <2>2 DEF Written, WritesAll, BytesInv
  <2> QED BY <2>1, <2>2, <2>3, SameBytes, SameBytesOfReader
<1> QED BY <1>1, <1>2, <1>3, <1>4, <1>5 DEF WriteStep

(* A step of the reader that neither takes nor loses a byte. *)
LEMMA ReaderMovesNoByte ==
  ASSUME StreamTypeOK, BytesInv, Arriving' = Arriving, UNCHANGED <<writeVars, gap>>, ropen' => ropen
  PROVE  BytesInv'
<1>1. Written' = Written /\ WritesAll'
  BY DEF writeVars, Written, WritesAll, BytesInv
<1> QED BY <1>1, SameBytes, ArrivingIsTyped

LEMMA ReturnKeepsBytes ==
  ASSUME StreamTypeOK, BytesInv, ReadReturns, rpc # "idle"
  PROVE  BytesInv'
<1>1. Arriving = (delivered \o got) \o wire
  BY ArrivingIsTyped DEF Held
<1>2. Arriving' = (delivered' \o <<>>) \o wire
  BY DEF ReadReturns, Arriving, wireVars
<1>3. delivered' = delivered \o got /\ delivered \o got \in Seq(Byte)
  BY ArrivingIsTyped, ConcatProperties DEF ReadReturns
<1>4. (delivered \o got) \o <<>> = delivered \o got
  BY <1>3, ConcatEmptySeq
<1>5. Arriving' = Arriving
  BY <1>1, <1>2, <1>3, <1>4
<1> QED BY <1>5, ReaderMovesNoByte DEF ReadReturns, wireVars

LEMMA ReceiveKeepsBytes ==
  ASSUME StreamTypeOK, BytesInv, Receive
  PROVE  BytesInv'
<1>1. PICK n \in 1 .. Least(Least(size, RcvBuf), Len(wire)) :
        /\ got' = got \o SubSeq(wire, 1, n)
        /\ wire' = SubSeq(wire, n + 1, Len(wire))
        /\ IF n = size /\ size < RcvBuf
           THEN rpc' = "idle" /\ delivered' = delivered \o got'
           ELSE rpc' = "try" /\ UNCHANGED delivered
  BY DEF Receive
<1>2. rpc = "recv" /\ wire # <<>>
  BY DEF Receive
<1> DEFINE a == SubSeq(wire, 1, n)  b == SubSeq(wire, n + 1, Len(wire))  g == got \o a
<1>3. a \in Seq(Byte) /\ b \in Seq(Byte) /\ a \o b = wire
  BY <1>2, ReceiveSplits
<1>4. got' = g /\ wire' = b
  BY <1>1
<1> HIDE DEF a, b
<1>5. delivered \in Seq(Byte) /\ got \in Seq(Byte) /\ g \in Seq(Byte)
      /\ delivered \o g \in Seq(Byte) /\ delivered \o got \in Seq(Byte)
  BY <1>3, ArrivingIsTyped, ConcatProperties
<1>6. Arriving' = (delivered \o g) \o b
  <2>1. CASE rpc' = "idle"
    <3>1. delivered' = delivered \o g
      BY <1>1, <1>4, <2>1
    <3>2. (delivered \o g) \o <<>> = delivered \o g
      BY <1>5, ConcatEmptySeq
    <3> QED BY <1>4, <2>1, <3>1, <3>2 DEF Arriving
  <2>2. CASE rpc' # "idle"
    BY <1>1, <1>4, <2>2 DEF Arriving
  <2> QED BY <2>1, <2>2
<1>7. (delivered \o g) \o b = (delivered \o got) \o wire
  <2> DEFINE dg == delivered \o got
  <2>1. dg \o a = delivered \o g
    BY <1>3, <1>5, ConcatAssociative
  <2> HIDE DEF dg, g
  <2>2. dg \in Seq(Byte)
    BY <1>5 DEF dg
  <2>3. (dg \o a) \o b = dg \o (a \o b)
    <3>1. a \in Seq(Byte) /\ b \in Seq(Byte)
      BY <1>3
    <3> QED BY <2>2, <3>1, ConcatAssociative
  <2> QED BY <1>3, <2>1, <2>3 DEF dg
<1>8. Arriving' = Arriving
  BY <1>2, <1>6, <1>7, ArrivingIsTyped DEF Held
<1> QED BY <1>8, ReaderMovesNoByte DEF Receive

(* A readall that fails throws away what it had. *)
LEMMA FailKeepsBytes ==
  ASSUME StreamTypeOK, BytesInv, NEW at, ReadFails(at), rpc # "idle"
  PROVE  BytesInv'
<1>1. UNCHANGED <<wire, delivered, writeVars>> /\ gap' /\ rpc' = "idle"
  BY DEF ReadFails, wireVars
<1>2. Written' = Written /\ left' = left
  BY <1>1 DEF Written, writeVars
<1>3. delivered \in Seq(Byte) /\ Held \in Seq(Byte) /\ wire \in Seq(Byte)
      /\ Written \in Nat /\ InOrder((delivered \o Held) \o wire, Written)
  BY ArrivingIsTyped DEF BytesInv
<1>4. delivered \o <<>> = delivered
  BY <1>3, ConcatEmptySeq
<1>5. Arriving' = delivered \o wire
  BY <1>1, <1>4 DEF Arriving
<1>6. InOrder(Arriving', Written')
  BY <1>2, <1>3, <1>5, InOrderWithout
<1>7. InOrder(Arriving, Written)'
  BY <1>6 DEF InOrder
<1> QED BY <1>1, <1>7 DEF BytesInv, StreamIntact, WritesAll

LEMMA ReadKeepsBytes ==
  ASSUME StreamTypeOK, BytesInv, ReadStep \/ \E n \in Sizes, t \in Timeouts : Read(n, t)
  PROVE  BytesInv'
<1>1. CASE ReadBegins \/ ReadAwaits \/ ReadSelects \/ BecomesReadable \/ ReceiveNothing
  <2>1. UNCHANGED <<wire, ropen, writeVars, got, delivered, gap>> /\ rpc # "idle" /\ rpc' # "idle"
    BY <1>1 DEF ReadBegins, ReadAwaits, ReadSelects, BecomesReadable, ReceiveNothing, ReadMovesTo,
                wireVars
  <2>2. Arriving' = Arriving
    BY <2>1 DEF Arriving
  <2> QED BY <2>1, <2>2, ReaderMovesNoByte
<1>2. CASE ReadEnds \/ SelectTimesOut
  BY <1>2, ReturnKeepsBytes DEF ReadEnds, SelectTimesOut
<1>3. CASE Receive
  BY <1>3, ReceiveKeepsBytes
<1>4. ASSUME NEW at \in {"call", "poll", "select", "recv"}, ReadFails(at)
      PROVE  BytesInv'
  <2>1. rpc # "idle"
    BY <1>4 DEF ReadFails
  <2> QED BY <1>4, <2>1, FailKeepsBytes
<1>5. ASSUME NEW n \in Sizes, NEW t \in Timeouts, Read(n, t)
      PROVE  BytesInv'
  <2>1. UNCHANGED <<wire, ropen, writeVars, delivered, gap>> /\ rpc = "idle" /\ rpc' = "call"
        /\ got' = <<>>
    BY <1>5 DEF Read, wireVars
  <2>2. Arriving' = Arriving
    BY <2>1 DEF Arriving
  <2> QED BY <2>1, <2>2, ReaderMovesNoByte
<1> QED BY <1>1, <1>2, <1>3, <1>4, <1>5 DEF ReadStep

LEMMA OthersKeepBytes ==
  ASSUME StreamTypeOK, BytesInv, Tick \/ CloseWriter \/ CloseReader
  PROVE  BytesInv'
<1>1. CASE Tick \/ CloseWriter
  <2>1. UNCHANGED <<wire, ropen, writeVars, readVars, gap>>
    BY <1>1 DEF Tick, CloseWriter, wireVars
  <2> QED BY <2>1, ReaderMovesNoByte, SameBytesOfReader
<1>2. CASE CloseReader
  <2>1. UNCHANGED <<delivered, writeVars, gap, rpc>> /\ rpc = "idle" /\ wire' = <<>> /\ ~ropen'
    BY <1>2 DEF CloseReader, readVars
  <2>2. Written' = Written /\ WritesAll'
    BY <2>1 DEF Written, writeVars, BytesInv, WritesAll
  <2>3. delivered \in Seq(Byte) /\ wire \in Seq(Byte) /\ <<>> \in Seq(Byte) /\ Written \in Nat
        /\ delivered \o wire \in Seq(Byte)
    BY ArrivingIsTyped, ConcatProperties, EmptySeq
  <2>4. delivered \o <<>> = delivered /\ (delivered \o wire) \o <<>> = delivered \o wire
    BY <2>3, ConcatEmptySeq
  <2>5. Arriving = delivered \o wire
    BY <2>1, <2>4 DEF Arriving
  <2>6. InOrder((delivered \o wire) \o <<>>, Written)
    BY <2>4, <2>5 DEF BytesInv
  <2>7. InOrder(delivered \o <<>>, Written)
    BY <2>3, <2>6, InOrderWithout
  <2>8. Arriving' = delivered
    BY <2>1, <2>4 DEF Arriving
  <2>9. InOrder(Arriving', Written')
    BY <2>2, <2>4, <2>7, <2>8
  <2>10. InOrder(Arriving, Written)'
    BY <2>9 DEF InOrder
  <2> QED BY <2>1, <2>2, <2>10 DEF BytesInv, StreamIntact
<1> QED BY <1>1, <1>2

-----------------------------------------------------------------------------
(* What readall counts, and when it may give up *)

LEMMA ReceiveKeepsCount ==
  ASSUME StreamTypeOK, ReadInv, Receive
  PROVE  ReadInv'
<1>1. PICK n \in 1 .. Least(Least(size, RcvBuf), Len(wire)) :
        /\ got' = got \o SubSeq(wire, 1, n)
        /\ size' = size - n
        /\ IF n = size /\ size < RcvBuf THEN rpc' = "idle" /\ answer' = "ok"
           ELSE rpc' = "try" /\ UNCHANGED answer
  BY DEF Receive
<1>2. rpc = "recv" /\ wire # <<>> /\ UNCHANGED <<asked, timeout>>
  BY DEF Receive, waitVars
<1>3. n \in Nat /\ n <= size /\ size \in Nat /\ asked \in Nat
      /\ SubSeq(wire, 1, n) \in Seq(Byte) /\ Len(SubSeq(wire, 1, n)) = n
  BY <1>2, ReceiveSplits DEF StreamTypeOK
<1>4. Len(got') = Len(got) + n /\ Len(got) \in Nat
  BY <1>1, <1>3, ArrivingIsTyped, ConcatProperties
<1>5. Len(got') + size' = asked
  <2>1. Len(got) + size = asked
    BY <1>2 DEF ReadInv, CountsItsBytes
  <2>2. size' = size - n
    BY <1>1
  <2> QED BY <1>3, <1>4, <2>1, <2>2
<1>6. answer' = "ok" /\ size' > 0 => timeout > 0
  <2>1. CASE n = size /\ size < RcvBuf
    BY <1>1, <1>3, <2>1
  <2>2. CASE ~(n = size /\ size < RcvBuf)
    BY <1>1, <1>3, <2>2 DEF ReadInv, ShortOnlyWithTimeout
  <2> QED BY <2>1, <2>2
<1> QED
  BY <1>1, <1>2, <1>5, <1>6
     DEF ReadInv, CountsItsBytes, SelectHasTimeout, ShortOnlyWithTimeout

LEMMA ReadKeepsCount ==
  ASSUME StreamTypeOK, ReadInv, ReadStep \/ \E n \in Sizes, t \in Timeouts : Read(n, t)
  PROVE  ReadInv'
<1> USE DEF ReadInv, CountsItsBytes, SelectHasTimeout, ShortOnlyWithTimeout
<1>0. elapsed \in Nat /\ timeout \in Nat /\ size \in Nat
  BY Constants DEF StreamTypeOK
<1>1. CASE ReadBegins \/ ReadAwaits \/ BecomesReadable \/ ReceiveNothing
  BY <1>1 DEF ReadBegins, ReadAwaits, BecomesReadable, ReceiveNothing, ReadMovesTo, waitVars
<1>2. CASE ReadSelects
  BY <1>0, <1>2 DEF ReadSelects, ReadMovesTo
<1>3. CASE ReadEnds \/ SelectTimesOut
  BY <1>0, <1>3 DEF ReadEnds, SelectTimesOut, ReadReturns, waitVars
<1>4. CASE Receive
  BY <1>4, ReceiveKeepsCount
<1>5. ASSUME NEW at, ReadFails(at)
      PROVE  ReadInv'
  BY <1>5 DEF ReadFails
<1>6. ASSUME NEW n \in Sizes, NEW t \in Timeouts, Read(n, t)
      PROVE  ReadInv'
  <2>1. n \in Nat /\ Len(<<>>) = 0 /\ got' = <<>> /\ size' = n /\ asked' = n
        /\ answer' = "none" /\ rpc' = "call"
    BY <1>6, Constants DEF Read
  <2> QED BY <2>1
<1> QED BY <1>1, <1>2, <1>3, <1>4, <1>5, <1>6 DEF ReadStep

(* The writer, the clock and closing leave the calls of the reader alone. *)
LEMMA OthersKeepCount ==
  ASSUME ReadInv, UNCHANGED <<readVars, asked, timeout>>
  PROVE  ReadInv'
BY DEF ReadInv, CountsItsBytes, SelectHasTimeout, ShortOnlyWithTimeout, readVars

-----------------------------------------------------------------------------
LEMMA InitStreamInv == Init => StreamInv
<1> SUFFICES ASSUME Init PROVE StreamInv
  OBVIOUS
<1>1. StreamTypeOK
  BY InitStreamTypes
<1>2. delivered = <<>> /\ wire = <<>> /\ rpc = "idle" /\ issued = 0 /\ left = 0 /\ answer = "none"
  BY DEF Init
<1>3. Arriving = <<>>
  BY <1>2, EmptySeq, ConcatEmptySeq DEF Arriving
<1>4. Numbers(0, 0) = <<>>
  <2>1. Numbers(0, 0) \in Seq(Byte) /\ Len(Numbers(0, 0)) = 0
    BY Constants, FirstNumbers
  <2> QED BY <2>1, EmptySeq
<1>5. issued - left = 0 /\ Len(<<>>) = 0
  BY <1>2
<1>6. BytesInv
  BY <1>2, <1>3, <1>4, <1>5 DEF BytesInv, InOrder, StreamIntact, WritesAll
<1>7. ReadInv
  BY <1>2 DEF ReadInv, CountsItsBytes, SelectHasTimeout, ShortOnlyWithTimeout
<1> QED BY <1>1, <1>6, <1>7 DEF StreamInv

LEMMA StepKeepsStreamInv ==
  ASSUME StreamInv, [Next]_vars
  PROVE  StreamInv'
<1>0. StreamTypeOK /\ BytesInv /\ ReadInv
  BY DEF StreamInv
<1>1. CASE WriteStep \/ \E n \in Lengths : Write(n)
  <2>1. UNCHANGED <<readVars, asked, timeout>>
    BY <1>1 DEF WriteStep, WriteBegins, Writeable, Send, SendToNobody, WriteFails, Write, waitVars
  <2> QED
    BY <1>0, <1>1, <2>1, WriteKeepsTypes, WriteKeepsBytes, OthersKeepCount DEF StreamInv
<1>2. CASE ReadStep \/ \E n \in Sizes, t \in Timeouts : Read(n, t)
  BY <1>0, <1>2, ReadKeepsTypes, ReadKeepsBytes, ReadKeepsCount DEF StreamInv
<1>3. CASE Tick \/ CloseWriter \/ CloseReader
  <2>1. UNCHANGED <<readVars, asked, timeout>>
    BY <1>3 DEF Tick, CloseWriter, CloseReader, waitVars
  <2> QED
    BY <1>0, <1>3, <2>1, OthersKeepTypes, OthersKeepBytes, OthersKeepCount DEF StreamInv
<1>4. CASE UNCHANGED vars
  <2>1. UNCHANGED <<wire, wopen, ropen, faults, gap, wpc, left, issued, writeVars, readVars, waitVars>>
    BY <1>4 DEF vars, wireVars, writeVars
  <2>2. BytesInv'
    BY <1>0, <2>1, ReaderMovesNoByte, SameBytesOfReader
  <2>3. ReadInv'
    BY <1>0, <2>1, OthersKeepCount DEF waitVars
  <2>4. StreamTypeOK'
    BY <1>0, <2>1 DEF StreamTypeOK, readVars, waitVars
  <2> QED BY <2>2, <2>3, <2>4 DEF StreamInv
<1> QED BY <1>1, <1>2, <1>3, <1>4 DEF Next

LEMMA AlwaysStreamInv == Spec => []StreamInv
BY InitStreamInv, StepKeepsStreamInv, PTL DEF Spec

(***************************************************************************)
(* The types of the stream's variables: the connection never holds more    *)
(* than the window, and a wait never goes on after the timeout.            *)
(***************************************************************************)
THEOREM StreamTypeCorrect == Spec => []StreamTypeOK
<1>1. StreamInv => StreamTypeOK
  BY DEF StreamInv
<1> QED BY <1>1, AlwaysStreamInv, PTL

(***************************************************************************)
(* While no call has failed, the bytes read and those on their way are the *)
(* bytes written, each once and in order.                                  *)
(***************************************************************************)
THEOREM StreamStaysIntact == Spec => []StreamIntact
<1>1. StreamInv => StreamIntact
  BY DEF StreamInv, BytesInv
<1> QED BY <1>1, AlwaysStreamInv, PTL

(* Even when calls fail, no byte is read twice or out of order. *)
THEOREM NoByteTwice == Spec => []NeverTwice
<1>1. StreamInv => NeverTwice
  BY DEF StreamInv, BytesInv, InOrder, NeverTwice
<1> QED BY <1>1, AlwaysStreamInv, PTL

(* A readall has the bytes that it no longer waits for, and no others. *)
THEOREM ReadsAreCounted == Spec => []CountsItsBytes
<1>1. StreamInv => CountsItsBytes
  BY DEF StreamInv, ReadInv
<1> QED BY <1>1, AlwaysStreamInv, PTL

(* A readall without a timeout is never short. *)
THEOREM OnlyTimeoutsAreShort == Spec => []ShortOnlyWithTimeout
<1>1. StreamInv => ShortOnlyWithTimeout
  BY DEF StreamInv, ReadInv
<1> QED BY <1>1, AlwaysStreamInv, PTL

-----------------------------------------------------------------------------
(* The sessions *)

(* A system call of the sessions that fails leaves the stream alone. *)
LEMMA CallFailsKeepsStreamInv ==
  ASSUME StreamInv, CallFails
  PROVE  StreamInv'
<1>1. UNCHANGED <<wire, wopen, ropen, gap, wpc, left, issued, writeVars, readVars, waitVars>>
  BY DEF CallFails, wireVars, writeVars
<1>2. StreamTypeOK /\ BytesInv /\ ReadInv
  BY DEF StreamInv
<1>3. faults' \in 0 .. MaxFaults
  BY <1>2, Constants DEF CallFails, Fault, StreamTypeOK
<1>4. StreamTypeOK'
  BY <1>1, <1>2, <1>3 DEF StreamTypeOK, readVars, waitVars
<1>5. BytesInv'
  BY <1>1, <1>2, ReaderMovesNoByte, SameBytesOfReader
<1>6. ReadInv'
  BY <1>1, <1>2, OthersKeepCount DEF waitVars
<1> QED BY <1>4, <1>5, <1>6 DEF StreamInv

(* What else a session does to the stream, the stream does by itself. *)
LEMMA SessionStepsTheStream ==
  ASSUME [SessionNext]_allVars
  PROVE  [Next]_vars \/ CallFails
<1>0. UNCHANGED streamVars => UNCHANGED vars
  BY DEF streamVars, vars
<1>1. CASE ServerStep
  BY <1>0, <1>1
     DEF ServerStep, ServerCreates, ServerBinds, ServerListens, ServerAccepts, AcceptFails,
         UnservedEnds, ServerReads, ServerGivesUp, ServerStops, ServerReturns, Next
<1>2. CASE ClientStep
  BY <1>0, <1>2
     DEF ClientStep, ClientCreates, ClientConnects, ClientIsRefused, ClientCloses, ClientThrows,
         Next
<1>3. CASE ClientWrites \/ ClientStops \/ SessionTick
  BY <1>0, <1>3 DEF ClientWrites, ClientStops, SessionTick, Next
<1>4. CASE UNCHANGED allVars
  BY <1>0, <1>4 DEF allVars
<1> QED BY <1>1, <1>2, <1>3, <1>4 DEF SessionNext

LEMMA AlwaysSessionStreamInv == SessionSpec => []StreamInv
<1>1. SessionInit => StreamInv
  BY InitStreamInv DEF SessionInit
<1>2. StreamInv /\ [SessionNext]_allVars => StreamInv'
  BY SessionStepsTheStream, StepKeepsStreamInv, CallFailsKeepsStreamInv
<1> QED BY <1>1, <1>2, PTL DEF SessionSpec

(***************************************************************************)
(* In the sessions of main.cpp, too, the server reads what the client      *)
(* wrote.                                                                  *)
(***************************************************************************)
THEOREM SessionsKeepTheStream == SessionSpec => [](StreamTypeOK /\ StreamIntact /\ NeverTwice)
<1>1. StreamInv => StreamTypeOK /\ StreamIntact /\ NeverTwice
  BY DEF StreamInv, BytesInv, InOrder, NeverTwice
<1> QED BY <1>1, AlwaysSessionStreamInv, PTL

(* The server has a connection only while it serves it, or has thrown. *)
RemoteIsServed == "remote" \in fds => srv \in {"serving", "thrown"}

ClosedInv == ReturnsHavingClosed /\ RemoteIsServed

LEMMA StepKeepsClosedInv ==
  ASSUME ClosedInv, [SessionNext]_allVars
  PROVE  ClosedInv'
<1> USE DEF ClosedInv, ReturnsHavingClosed, RemoteIsServed
<1>1. CASE ServerStep
  BY <1>1
     DEF ServerStep, ServerCreates, ServerBinds, ServerListens, ServerAccepts, AcceptFails,
         UnservedEnds, ServerReads, ServerGivesUp, ServerStops, ServerReturns,
         ServerMoves, sessionVars
<1>2. CASE ClientStep
  BY <1>2
     DEF ClientStep, ClientCreates, ClientConnects, ClientIsRefused, ClientCloses, ClientThrows,
         ClientMoves, sessionVars
<1>3. CASE ClientWrites \/ ClientStops \/ SessionTick \/ UNCHANGED allVars
  BY <1>3 DEF ClientWrites, ClientStops, ClientMoves, SessionTick, allVars, sessionVars
<1> QED BY <1>1, <1>2, <1>3 DEF SessionNext

(***************************************************************************)
(* A session that returns has closed its sockets, whichever of its calls   *)
(* failed.                                                                 *)
(***************************************************************************)
THEOREM ReturningSessionsClose == SessionSpec => []ReturnsHavingClosed
<1>1. SessionInit => ClosedInv
  BY DEF SessionInit, ClosedInv, ReturnsHavingClosed, RemoteIsServed
<1>2. ClosedInv /\ [SessionNext]_allVars => ClosedInv'
  BY StepKeepsClosedInv
<1>3. ClosedInv => ReturnsHavingClosed
  BY DEF ClosedInv
<1> QED BY <1>1, <1>2, <1>3, PTL DEF SessionSpec
=============================================================================
