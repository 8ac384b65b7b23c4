----------------------------- MODULE UdpSession -----------------------------
(***************************************************************************)
(* udp_recv and udp_send of main.cpp, which share need_stop: the sender    *)
(* writes words with write_all_to, the receiver asks readable and reads    *)
(* with readsome_from.                                                     *)
(*                                                                         *)
(* The network is external: it loses, delays, duplicates and reorders      *)
(* datagrams, but the queue of the receiving socket keeps what has come.   *)
(* A datagram is the piece of a message that it holds.  A system call      *)
(* fails, or the network duplicates, at most MaxFaults times.              *)
(***************************************************************************)
EXTENDS Integers, SequencesExt

CONSTANTS
  SndBufs,       (* what SO_SNDBUF of the sender may be                    *)
  MaxDatagram,   (* the most bytes that sendto takes                       *)
  RecvSize,      (* the bytes the receiver reads at a time (1024)          *)
  Lengths,       (* the lengths of words                                   *)
  MaxMessages,   (* bound on the number of words                           *)
  MaxFaults

ASSUME SizeAssumption == SndBufs \cup {MaxDatagram, RecvSize} \subseteq Nat \ {0}
ASSUME LengthAssumption == Lengths \subseteq Nat
ASSUME BoundAssumption == {MaxMessages, MaxFaults} \subseteq Nat

VARIABLES
  rcv,        (* where udp_recv is                                         *)
  snd,        (* where udp_send is                                         *)
  sndBuf,     (* SO_SNDBUF, which get_write_bufsize returns                *)
  needStop,   (* need_stop                                                 *)
  fds,        (* the open descriptors of the two                           *)
  faults,     (* how many system calls have failed                         *)
  words,      (* history: the lengths of the words written                 *)
  offset,     (* offset in __write_all                                     *)
  net,        (* the datagrams on their way                                *)
  inbox,      (* the queue of the receiving socket                         *)
  heard       (* history: what readsome_from returned                      *)

vars == <<rcv, snd, sndBuf, needStop, fds, faults, words, offset, net, inbox, heard>>

Init ==
  /\ rcv = "start" /\ snd = "start" /\ needStop = FALSE /\ sndBuf \in SndBufs
  /\ fds = {} /\ faults = 0
  /\ words = <<>> /\ offset = 0 /\ net = {} /\ inbox = <<>> /\ heard = {}

Least(m, n) == IF m < n THEN m ELSE n

Fault == faults < MaxFaults /\ faults' = faults + 1

RecvMoves(from, to) ==
  rcv = from /\ rcv' = to /\ UNCHANGED <<snd, sndBuf, needStop, words, offset>>

SendMoves(from, to) == snd = from /\ snd' = to /\ UNCHANGED <<rcv, sndBuf, inbox, heard>>

-----------------------------------------------------------------------------
(* Faulty variants of the steps below. *)

PieceFromTheStart(n) == [word |-> Len(words), from |-> 0, length |-> n]

TypesKeepingTheOffset(n) ==
  /\ Len(words) < MaxMessages
  /\ SendMoves("typing", "write")
  /\ words' = Append(words, n)
  /\ UNCHANGED <<needStop, fds, faults, offset, net>>

RecvPollsUntilReadable ==
  /\ inbox # <<>>
  /\ RecvMoves("poll", "receive")
  /\ UNCHANGED <<fds, faults, net, inbox, heard>>

-----------------------------------------------------------------------------
(* udp_recv *)

RecvCreates ==
  /\ \/ RecvMoves("start", "created") /\ fds' = fds \cup {"receiver"} /\ UNCHANGED faults
     \/ RecvMoves("start", "thrown") /\ Fault /\ UNCHANGED fds
  /\ UNCHANGED <<net, inbox, heard>>

RecvBinds ==
  /\ \/ RecvMoves("created", "test") /\ UNCHANGED faults
     \/ RecvMoves("created", "closing") /\ Fault
  /\ UNCHANGED <<fds, net, inbox, heard>>

RecvTests ==
  /\ RecvMoves("test", IF needStop THEN "closing" ELSE "poll")
  /\ UNCHANGED <<fds, faults, net, inbox, heard>>

(* readable asks and does not wait. *)
RecvPolls ==
  /\ \/ RecvMoves("poll", IF inbox = <<>> THEN "test" ELSE "receive") /\ UNCHANGED faults
     \/ RecvMoves("poll", "closing") /\ Fault
  /\ UNCHANGED <<fds, net, inbox, heard>>

(* readsome_from; the rest of a longer datagram is lost. *)
Receives ==
  /\ inbox # <<>>
  /\ RecvMoves("receive", "test")
  /\ heard' = heard \cup {[Head(inbox) EXCEPT !.length = Least(@, RecvSize)]}
  /\ inbox' = Tail(inbox)
  /\ UNCHANGED <<fds, faults, net>>

ReceiveFails ==
  /\ RecvMoves("receive", "closing") /\ Fault
  /\ UNCHANGED <<fds, net, inbox, heard>>

(* shutdown of a socket that has no peer fails on some systems (Linux is   *)
(* one); except throws, and the socket stays open.                         *)
RecvCloses ==
  /\ \/ RecvMoves("closing", "returned") /\ fds' = fds \ {"receiver"}
     \/ RecvMoves("closing", "thrown") /\ UNCHANGED fds
  /\ UNCHANGED <<faults, net, inbox, heard>>

-----------------------------------------------------------------------------
(* udp_send *)

SendCreates ==
  /\ \/ SendMoves("start", "created") /\ fds' = fds \cup {"sender"} /\ UNCHANGED faults
     \/ SendMoves("start", "thrown") /\ Fault /\ UNCHANGED fds
  /\ UNCHANGED <<needStop, words, offset, net>>

SendBinds ==
  /\ \/ SendMoves("created", "typing") /\ UNCHANGED faults
     \/ SendMoves("created", "closing") /\ Fault
  /\ UNCHANGED <<needStop, fds, words, offset, net>>

Types(n) ==
  /\ Len(words) < MaxMessages
  /\ SendMoves("typing", "write")
  /\ words' = Append(words, n) /\ offset' = 0
  /\ UNCHANGED <<needStop, fds, faults, net>>

Stops ==
  /\ SendMoves("typing", "closing")
  /\ needStop' = TRUE
  /\ UNCHANGED <<fds, faults, words, offset, net>>

(* How many bytes the next sendto is for: SO_SNDBUF, or all that are left. *)
Chunk == Least(Last(words) - offset, sndBuf)

Piece(n) == [word |-> Len(words), from |-> offset, length |-> n]

(* A datagram is sent whole.  After a piece of SO_SNDBUF bytes there is     *)
(* always another one, if only of no bytes at all.                         *)
Sends ==
  /\ snd = "write" /\ Chunk <= MaxDatagram
  /\ SendMoves("write", IF Chunk < sndBuf THEN "typing" ELSE "write")
  /\ net' = net \cup {Piece(Chunk)}
  /\ offset' = offset + Chunk
  /\ UNCHANGED <<needStop, fds, faults, words>>

(* The word is given up, the session goes on. *)
WriteFails ==
  /\ SendMoves("write", "typing")
  /\ Fault \/ (Chunk > MaxDatagram /\ UNCHANGED faults)
  /\ UNCHANGED <<needStop, fds, words, offset, net>>

SendCloses ==
  /\ \/ SendMoves("closing", "returned") /\ fds' = fds \ {"sender"}
     \/ SendMoves("closing", "thrown") /\ UNCHANGED fds
  /\ UNCHANGED <<needStop, faults, words, offset, net>>

-----------------------------------------------------------------------------
(* The network *)

NetStep(d) ==
  /\ net' = net \ {d}
  /\ UNCHANGED <<rcv, snd, sndBuf, needStop, fds, words, offset, heard>>

Bound == rcv \in {"test", "poll", "receive"}

Arrives(d) == Bound /\ inbox' = Append(inbox, d) /\ NetStep(d) /\ UNCHANGED faults

ArrivesTwice(d) == Bound /\ inbox' = inbox \o <<d, d>> /\ NetStep(d) /\ Fault

Loses(d) == NetStep(d) /\ UNCHANGED <<inbox, faults>>

-----------------------------------------------------------------------------
RecvStep ==
  \/ RecvCreates \/ RecvBinds \/ RecvTests \/ RecvPolls
  \/ Receives \/ ReceiveFails \/ RecvCloses

SendStep == SendCreates \/ SendBinds \/ Sends \/ WriteFails \/ SendCloses

Next ==
  \/ RecvStep \/ SendStep
  \/ \E n \in Lengths : Types(n)
  \/ Stops
  \/ \E d \in net : Arrives(d) \/ ArrivesTwice(d) \/ Loses(d)

Spec == Init /\ [][Next]_vars

(* Both sessions run.  The user need not type anything, and the network    *)
(* need not deliver anything.                                              *)
FairSpec == Spec /\ WF_vars(RecvStep) /\ WF_vars(SendStep)

-----------------------------------------------------------------------------
Pieces == [word : 1 .. MaxMessages, from : Nat, length : Nat]

UdpTypeOK ==
  /\ rcv \in {"start", "created", "test", "poll", "receive", "closing", "returned", "thrown"}
  /\ snd \in {"start", "created", "typing", "write", "closing", "returned", "thrown"}
  /\ needStop \in BOOLEAN /\ sndBuf \in SndBufs /\ fds \subseteq {"receiver", "sender"}
  /\ faults \in 0 .. MaxFaults
  /\ words \in Seq(Lengths) /\ Len(words) <= MaxMessages
  /\ words # <<>> => offset \in 0 .. Last(words)
  /\ net \subseteq Pieces /\ inbox \in Seq(Pieces) /\ heard \subseteq Pieces

(***************************************************************************)
(* A word shorter than SO_SNDBUF is heard as one message, cut to RecvSize  *)
(* bytes, or not at all.                                                   *)
(***************************************************************************)
ShortWordsStayWhole ==
  \A d \in heard :
    words[d.word] < sndBuf => d.from = 0 /\ d.length = Least(words[d.word], RecvSize)

(***************************************************************************)
(* Different pieces of a word do not overlap, whatever was lost, doubled   *)
(* or overtaken: __write_all's offsets fit.  A piece of no bytes, which    *)
(* the receiver passes over, is at the end of its word.                    *)
(***************************************************************************)
PiecesFit ==
  \A d \in heard :
    /\ d.from + d.length <= words[d.word]
    /\ d.length = 0 => d.from = words[d.word]
    /\ \A e \in heard \ {d} :
         d.word = e.word =>
           d.length = 0 \/ e.length = 0
           \/ d.from + d.length <= e.from \/ e.from + e.length <= d.from

(* Once stopped, both sessions come to an end: although nothing need arrive *)
(* any more, the receiver never waits for a datagram.                      *)
StopEndsTheSessions ==
  needStop ~> rcv \in {"returned", "thrown"} /\ snd \in {"returned", "thrown"}
=============================================================================
