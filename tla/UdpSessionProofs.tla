--------------------------- MODULE UdpSessionProofs ---------------------------
(***************************************************************************)
(* For any SO_SNDBUF, any length of words and any number of losses,        *)
(* repetitions and failures: what arrives are the pieces into which        *)
(* __write_all cuts the words, and nothing else.                           *)
(***************************************************************************)
EXTENDS UdpSession, TLAPS

-----------------------------------------------------------------------------
(* The pieces of the words written so far, as __write_all cuts them: each  *)
(* begins at a multiple of SO_SNDBUF and goes on as far as it can.         *)
SentPieces ==
  {d \in Pieces :
     /\ d.word <= Len(words)
     /\ \E k \in Nat : d.from = k * sndBuf
     /\ d.from <= words[d.word]
     /\ d.length = Least(words[d.word] - d.from, sndBuf)}

(* What readsome_from makes of them. *)
Cut(d) == [d EXCEPT !.length = Least(@, RecvSize)]

HeardPieces == {Cut(d) : d \in SentPieces}

AllFromWords ==
  net \subseteq SentPieces /\ inbox \in Seq(SentPieces) /\ heard \subseteq HeardPieces

(* Between two calls of sendto. *)
WriteAtMultiple == snd = "write" => words # <<>> /\ \E k \in Nat : offset = k * sndBuf

UdpInv == UdpTypeOK /\ AllFromWords /\ WriteAtMultiple

LEMMA Constants ==
  ASSUME UdpTypeOK
  PROVE  /\ sndBuf \in Nat /\ sndBuf > 0 /\ RecvSize \in Nat /\ RecvSize > 0
         /\ MaxMessages \in Nat /\ MaxFaults \in Nat
         /\ \A i \in 1 .. Len(words) : words[i] \in Nat
         /\ words # <<>> => Last(words) = words[Len(words)] /\ Len(words) \in 1 .. MaxMessages
<1>1. SndBufs \subseteq Nat \ {0} /\ RecvSize \in Nat \ {0}
      /\ MaxMessages \in Nat /\ MaxFaults \in Nat
  BY SizeAssumption, BoundAssumption
<1>2. sndBuf \in Nat /\ sndBuf > 0 /\ RecvSize > 0
  BY <1>1 DEF UdpTypeOK
<1>3. words \in Seq(Lengths) /\ Len(words) <= MaxMessages
  BY DEF UdpTypeOK
<1>4. \A i \in 1 .. Len(words) : words[i] \in Nat
  <2>1. \A i \in 1 .. Len(words) : words[i] \in Lengths
    BY <1>3
  <2> QED BY <2>1, LengthAssumption
<1>5. words # <<>> => Last(words) = words[Len(words)] /\ Len(words) \in 1 .. MaxMessages
  BY <1>1, <1>3 DEF Last
<1> QED BY <1>1, <1>2, <1>4, <1>5

LEMMA InitUdpInv == Init => UdpInv
<1> SUFFICES ASSUME Init PROVE UdpInv
  OBVIOUS
<1>1. words = <<>> /\ net = {} /\ inbox = <<>> /\ heard = {} /\ snd = "start" /\ rcv = "start"
      /\ needStop = FALSE /\ sndBuf \in SndBufs /\ fds = {} /\ faults = 0
  BY DEF Init
<1>2. MaxMessages \in Nat /\ MaxFaults \in Nat
  BY BoundAssumption
<1>3. words \in Seq(Lengths) /\ Len(words) <= MaxMessages /\ inbox \in Seq(Pieces)
      /\ inbox \in Seq(SentPieces)
  BY <1>1, <1>2
<1>4. faults \in 0 .. MaxFaults
  BY <1>1, <1>2
<1>5. (words # <<>> => offset \in 0 .. Last(words)) /\ net \subseteq Pieces /\ heard \subseteq Pieces
  BY <1>1
<1>6. UdpTypeOK
  <2>1. rcv \in {"start", "created", "test", "poll", "receive", "closing", "returned", "thrown"}
    BY <1>1
  <2>2. snd \in {"start", "created", "typing", "write", "closing", "returned", "thrown"}
    BY <1>1
  <2>3. needStop \in BOOLEAN /\ sndBuf \in SndBufs /\ fds \subseteq {"receiver", "sender"}
    BY <1>1
  <2> QED BY <1>3, <1>4, <1>5, <2>1, <2>2, <2>3 DEF UdpTypeOK
<1> QED BY <1>1, <1>3, <1>6 DEF UdpInv, AllFromWords, WriteAtMultiple

-----------------------------------------------------------------------------
(* A step that changes none of what the pieces are made from. *)
LEMMA SamePieces ==
  ASSUME UNCHANGED <<words, sndBuf>>
  PROVE  SentPieces' = SentPieces /\ HeardPieces' = HeardPieces
BY DEF SentPieces, HeardPieces

LEMMA RecvKeepsInv ==
  ASSUME UdpInv, RecvStep
  PROVE  UdpInv'
<1> USE DEF RecvMoves, Fault
<1>0. UNCHANGED <<snd, sndBuf, needStop, words, offset, net>>
  BY DEF RecvStep, RecvCreates, RecvBinds, RecvTests, RecvPolls, Receives, ReceiveFails, RecvCloses
<1>1. /\ rcv' \in {"start", "created", "test", "poll", "receive", "closing", "returned", "thrown"}
      /\ fds' \subseteq {"receiver", "sender"}
      /\ faults' \in 0 .. MaxFaults
  BY BoundAssumption DEF UdpInv, UdpTypeOK, RecvStep, RecvCreates, RecvBinds, RecvTests,
     RecvPolls, Receives, ReceiveFails, RecvCloses
<1>2. /\ inbox' \in Seq(SentPieces) /\ inbox' \in Seq(Pieces)
      /\ heard' \subseteq HeardPieces /\ heard' \subseteq Pieces
  <2>1. CASE Receives
    <3>1. Head(inbox) \in SentPieces /\ Head(inbox) \in Pieces
      BY <2>1 DEF Receives, UdpInv, UdpTypeOK, AllFromWords
    <3>2. Tail(inbox) \in Seq(SentPieces) /\ Tail(inbox) \in Seq(Pieces)
      BY <2>1 DEF Receives, UdpInv, UdpTypeOK, AllFromWords
    <3>3. Cut(Head(inbox)) \in HeardPieces
      BY <3>1 DEF HeardPieces
    <3>4. Cut(Head(inbox)) \in Pieces
      BY <3>1, Constants DEF Cut, Pieces, Least, UdpInv
    <3> QED BY <2>1, <3>2, <3>3, <3>4 DEF Receives, Cut, UdpInv, UdpTypeOK, AllFromWords
  <2>2. CASE ~Receives
    BY <2>2 DEF RecvStep, RecvCreates, RecvBinds, RecvTests, RecvPolls, ReceiveFails, RecvCloses,
       UdpInv, UdpTypeOK, AllFromWords
  <2> QED BY <2>1, <2>2
<1> QED
  BY <1>0, <1>1, <1>2, SamePieces DEF UdpInv, UdpTypeOK, AllFromWords, WriteAtMultiple

LEMMA NetKeepsInv ==
  ASSUME UdpInv, NEW d \in net, Arrives(d) \/ ArrivesTwice(d) \/ Loses(d)
  PROVE  UdpInv'
<1>1. UNCHANGED <<rcv, snd, sndBuf, needStop, fds, words, offset, heard>> /\ net' \subseteq net
  BY DEF Arrives, ArrivesTwice, Loses, NetStep
<1>2. d \in SentPieces /\ d \in Pieces
  BY DEF UdpInv, UdpTypeOK, AllFromWords
<1>3. inbox' \in Seq(SentPieces) /\ inbox' \in Seq(Pieces)
  <2> inbox \in Seq(SentPieces) /\ inbox \in Seq(Pieces)
    BY DEF UdpInv, UdpTypeOK, AllFromWords
  <2>1. CASE Arrives(d)
    <3>1. inbox' = Append(inbox, d)
      BY <2>1 DEF Arrives
    <3> QED BY <1>2, <3>1
  <2>2. CASE ArrivesTwice(d)
    <3>1. inbox' = inbox \o <<d, d>>
      BY <2>2 DEF ArrivesTwice
    <3>2. <<d, d>> \in Seq(SentPieces) /\ <<d, d>> \in Seq(Pieces)
      BY <1>2
    <3> QED BY <3>1, <3>2
  <2>3. CASE Loses(d)
    BY <2>3 DEF Loses
  <2> QED BY <2>1, <2>2, <2>3
<1>4. faults' \in 0 .. MaxFaults
  BY BoundAssumption DEF Arrives, ArrivesTwice, Loses, Fault, UdpInv, UdpTypeOK
<1> QED
  BY <1>1, <1>3, <1>4, SamePieces DEF UdpInv, UdpTypeOK, AllFromWords, WriteAtMultiple

(* A new word leaves the pieces of the earlier ones as they are. *)
LEMMA TypingKeepsInv ==
  ASSUME UdpInv, NEW n \in Lengths, Types(n)
  PROVE  UdpInv'
<1>0. /\ snd' = "write" /\ offset' = 0 /\ words' = Append(words, n)
      /\ UNCHANGED <<rcv, sndBuf, needStop, fds, faults, net, inbox, heard>>
      /\ Len(words) < MaxMessages /\ n \in Nat
  BY LengthAssumption DEF Types, SendMoves
<1>1. /\ words' \in Seq(Lengths) /\ Len(words') = Len(words) + 1 /\ words' # <<>>
      /\ Last(words') = n
      /\ \A i \in 1 .. Len(words) : words'[i] = words[i]
  BY <1>0 DEF UdpInv, UdpTypeOK, Last
<1>2. UdpTypeOK'
  BY <1>0, <1>1, BoundAssumption DEF UdpInv, UdpTypeOK
<1>3. SentPieces \subseteq SentPieces'
  BY <1>0, <1>1 DEF SentPieces, Pieces, UdpInv, UdpTypeOK
<1>4. HeardPieces \subseteq HeardPieces'
  BY <1>3 DEF HeardPieces
<1>5. inbox' \in Seq(SentPieces')
  BY <1>0, <1>3 DEF UdpInv, AllFromWords
<1>6. WriteAtMultiple'
  <2>1. 0 = 0 * sndBuf
    BY Constants DEF UdpInv
  <2> QED BY <1>0, <1>1, <2>1, Constants DEF WriteAtMultiple, UdpInv
<1> QED
  BY <1>0, <1>2, <1>3, <1>4, <1>5, <1>6 DEF UdpInv, AllFromWords

LEMMA SendingKeepsInv ==
  ASSUME UdpInv, Sends
  PROVE  UdpInv'
<1> DEFINE w == words[Len(words)]
<1>0. /\ snd = "write" /\ snd' = IF Chunk < sndBuf THEN "typing" ELSE "write"
      /\ net' = net \cup {Piece(Chunk)} /\ offset' = offset + Chunk
      /\ UNCHANGED <<rcv, sndBuf, needStop, fds, faults, words, inbox, heard>>
  BY DEF Sends, SendMoves
<1>1. words # <<>> /\ Last(words) = w /\ Len(words) \in 1 .. MaxMessages
  BY <1>0, Constants DEF UdpInv, WriteAtMultiple
<1>2. w \in Nat /\ offset \in 0 .. w
  BY <1>1, Constants DEF UdpInv, UdpTypeOK
<1> PICK k \in Nat : offset = k * sndBuf
  BY <1>0 DEF UdpInv, WriteAtMultiple
<1>3. /\ Chunk = Least(w - offset, sndBuf) /\ Chunk \in Nat /\ Chunk <= w - offset
      /\ Chunk <= sndBuf
  BY <1>1, <1>2, Constants DEF Chunk, Least, UdpInv
<1>4. Piece(Chunk) \in Pieces
  BY <1>1, <1>2, <1>3 DEF Piece, Pieces
<1>5. Piece(Chunk) \in SentPieces
  BY <1>1, <1>2, <1>3, <1>4 DEF Piece, SentPieces, UdpInv, UdpTypeOK
<1>6. UdpTypeOK'
  BY <1>0, <1>1, <1>2, <1>3, <1>4 DEF UdpInv, UdpTypeOK
<1>7. WriteAtMultiple'
  <2>1. sndBuf \in Nat
    BY Constants DEF UdpInv
  <2>2. ASSUME Chunk = sndBuf
        PROVE  \E j \in Nat : offset' = j * sndBuf'
    <3>1. offset + sndBuf = (k + 1) * sndBuf
      BY <2>1
    <3>2. k + 1 \in Nat
      OBVIOUS
    <3> QED BY <1>0, <2>2, <3>1, <3>2
  <2>3. snd' = "write" => Chunk = sndBuf
    BY <1>0, <1>3, <2>1
  <2>4. words' # <<>>
    BY <1>0, <1>1
  <2> QED BY <2>2, <2>3, <2>4 DEF WriteAtMultiple
<1> QED
  BY <1>0, <1>5, <1>6, <1>7, SamePieces DEF UdpInv, AllFromWords

LEMMA OtherSendsKeepInv ==
  ASSUME UdpInv, SendCreates \/ SendBinds \/ Stops \/ WriteFails \/ SendCloses
  PROVE  UdpInv'
<1> USE DEF SendMoves, Fault
<1>1. UNCHANGED <<rcv, sndBuf, words, offset, net, inbox, heard>>
  BY DEF SendCreates, SendBinds, Stops, WriteFails, SendCloses
<1>2. snd' \in {"created", "typing", "closing", "returned", "thrown"}
  BY DEF SendCreates, SendBinds, Stops, WriteFails, SendCloses
<1>3. fds' \subseteq {"receiver", "sender"}
  BY DEF UdpInv, UdpTypeOK, SendCreates, SendBinds, Stops, WriteFails, SendCloses
<1>4. needStop' \in BOOLEAN
  BY DEF UdpInv, UdpTypeOK, SendCreates, SendBinds, Stops, WriteFails, SendCloses
<1>5. faults' \in 0 .. MaxFaults
  <2> MaxFaults \in Nat /\ faults \in 0 .. MaxFaults
    BY BoundAssumption DEF UdpInv, UdpTypeOK
  <2>1. faults' = faults \/ (faults < MaxFaults /\ faults' = faults + 1)
    BY DEF SendCreates, SendBinds, Stops, WriteFails, SendCloses
  <2> QED BY <2>1
<1> QED
  BY <1>1, <1>2, <1>3, <1>4, <1>5, SamePieces
     DEF UdpInv, UdpTypeOK, AllFromWords, WriteAtMultiple

LEMMA StepKeepsUdpInv == UdpInv /\ [Next]_vars => UdpInv'
<1> SUFFICES ASSUME UdpInv, [Next]_vars PROVE UdpInv'
  OBVIOUS
<1>1. CASE Next
  BY <1>1, RecvKeepsInv, NetKeepsInv, TypingKeepsInv, SendingKeepsInv, OtherSendsKeepInv
     DEF Next, SendStep
<1>2. CASE UNCHANGED vars
  BY <1>2, SamePieces DEF vars, UdpInv, UdpTypeOK, AllFromWords, WriteAtMultiple
<1> QED BY <1>1, <1>2

LEMMA AlwaysUdpInv == Spec => []UdpInv
BY InitUdpInv, StepKeepsUdpInv, PTL DEF Spec

-----------------------------------------------------------------------------
(***************************************************************************)
(* The types of the variables; the offset of write_all_to never passes the *)
(* end of the word.                                                        *)
(***************************************************************************)
THEOREM UdpTypeCorrect == Spec => []UdpTypeOK
<1>1. UdpInv => UdpTypeOK
  BY DEF UdpInv
<1> QED BY <1>1, AlwaysUdpInv, PTL

(* What is known of a message that was heard. *)
LEMMA HeardIsCut ==
  ASSUME UdpInv, NEW d \in heard
  PROVE  /\ d \in Pieces /\ d.word \in 1 .. Len(words) /\ words[d.word] \in Nat
         /\ \E k \in Nat : d.from = k * sndBuf
         /\ d.from <= words[d.word]
         /\ d.length = Least(Least(words[d.word] - d.from, sndBuf), RecvSize)
<1> PICK e \in SentPieces : d = Cut(e)
  BY DEF UdpInv, AllFromWords, HeardPieces
<1>1. d \in Pieces
  BY DEF UdpInv, UdpTypeOK
<1>2. e \in Pieces /\ d.word = e.word /\ d.from = e.from /\ d.length = Least(e.length, RecvSize)
  BY DEF SentPieces, Cut, Pieces
<1>3. d.word \in 1 .. Len(words)
  BY <1>2 DEF SentPieces, Pieces, UdpInv, UdpTypeOK
<1> QED
  BY <1>1, <1>2, <1>3, Constants DEF SentPieces, UdpInv

(* Different multiples of b are at least b apart. *)
LEMMA MultiplesApart ==
  ASSUME NEW b \in Nat, NEW j \in Nat, NEW k \in Nat, j < k
  PROVE  j * b + b <= k * b
<1> DEFINE m == k - (j + 1)
<1>1. m \in Nat /\ k = (j + 1) + m
  OBVIOUS
<1>2. m * b \in Nat
  BY <1>1
<1> HIDE DEF m
<1>3. k * b = j * b + b + m * b
  BY <1>1
<1> QED BY <1>2, <1>3

(***************************************************************************)
(* However long words are and however SO_SNDBUF cuts them, the messages of *)
(* a word do not overlap.                                                  *)
(***************************************************************************)
THEOREM PiecesOfWordsFit == Spec => []PiecesFit
<1>1. UdpInv => PiecesFit
  <2> SUFFICES ASSUME UdpInv, NEW d \in heard
               PROVE  /\ d.from + d.length <= words[d.word]
                      /\ d.length = 0 => d.from = words[d.word]
                      /\ \A e \in heard \ {d} : d.word = e.word =>
                           d.length = 0 \/ e.length = 0
                           \/ d.from + d.length <= e.from \/ e.from + e.length <= d.from
    BY DEF PiecesFit
  <2> DEFINE b == sndBuf
  <2>0. b \in Nat /\ b > 0 /\ RecvSize \in Nat /\ RecvSize > 0
    BY Constants DEF UdpInv
  <2>1. d.from \in Nat /\ d.length \in Nat /\ d.from <= words[d.word] /\ words[d.word] \in Nat
        /\ d.length = Least(Least(words[d.word] - d.from, b), RecvSize)
    BY HeardIsCut DEF Pieces
  <2>2. d.from + d.length <= words[d.word] /\ (d.length = 0 => d.from = words[d.word])
    BY <2>0, <2>1 DEF Least
  <2>3. ASSUME NEW e \in heard, e # d, d.word = e.word
        PROVE  d.from + d.length <= e.from \/ e.from + e.length <= d.from
    <3>1. PICK j \in Nat : d.from = j * b
      BY HeardIsCut
    <3>2. PICK k \in Nat : e.from = k * b
      BY HeardIsCut
    <3>3. e.from \in Nat /\ e.length = Least(Least(words[e.word] - e.from, b), RecvSize)
          /\ e.from <= words[e.word]
      BY HeardIsCut DEF Pieces
    <3>4. d.length <= b /\ e.length <= b /\ d.length \in Nat /\ e.length \in Nat
      BY <2>0, <2>1, <2>3, <3>3 DEF Least
    <3>5. d.from # e.from
      <4>1. d \in Pieces /\ e \in Pieces
        BY HeardIsCut
      <4>2. d.from = e.from => d.length = e.length
        BY <2>1, <2>3, <3>3
      <4> QED BY <2>3, <4>1, <4>2 DEF Pieces
    <3>6. j < k \/ k < j
      BY <3>1, <3>2, <3>5
    <3>7. j * b \in Nat /\ k * b \in Nat
      BY <2>0
    <3>8. CASE j < k
      <4>1. j * b + b <= k * b
        BY <2>0, <3>8, MultiplesApart
      <4> QED BY <2>0, <3>1, <3>2, <3>4, <3>7, <4>1
    <3>9. CASE k < j
      <4>1. k * b + b <= j * b
        BY <2>0, <3>9, MultiplesApart
      <4> QED BY <2>0, <3>1, <3>2, <3>4, <3>7, <4>1
    <3> QED BY <3>6, <3>8, <3>9
  <2> QED BY <2>2, <2>3
<1> QED BY <1>1, AlwaysUdpInv, PTL

(***************************************************************************)
(* A word shorter than SO_SNDBUF is never cut but by the receiver.         *)
(***************************************************************************)
THEOREM ShortWordsArriveWhole == Spec => []ShortWordsStayWhole
<1>1. UdpInv => ShortWordsStayWhole
  <2> SUFFICES ASSUME UdpInv, NEW d \in heard, words[d.word] < sndBuf
               PROVE  d.from = 0 /\ d.length = Least(words[d.word], RecvSize)
    BY DEF ShortWordsStayWhole
  <2>0. sndBuf \in Nat /\ sndBuf > 0
    BY Constants DEF UdpInv
  <2>1. /\ d.from \in Nat /\ d.from <= words[d.word] /\ words[d.word] \in Nat
        /\ d.length = Least(Least(words[d.word] - d.from, sndBuf), RecvSize)
    BY HeardIsCut DEF Pieces
  <2>2. PICK k \in Nat : d.from = k * sndBuf
    BY HeardIsCut
  <2>3. k = 0
    <3> SUFFICES ASSUME 0 < k PROVE FALSE
      OBVIOUS
    <3>1. 0 * sndBuf + sndBuf <= k * sndBuf
      BY <2>0, MultiplesApart
    <3> QED BY <2>0, <2>1, <2>2, <3>1
  <2>4. d.from = 0
    BY <2>0, <2>2, <2>3
  <2> QED BY <2>0, <2>1, <2>4 DEF Least
<1> QED BY <1>1, AlwaysUdpInv, PTL
=============================================================================
