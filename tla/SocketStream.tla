---------------------------- MODULE SocketStream ----------------------------
(***************************************************************************)
(* write_all on one end of a TCP connection and readall on the other.      *)
(*                                                                         *)
(* The connection is external: a FIFO of at most Window bytes that the     *)
(* operating system moves; how long a byte travels is part of when its     *)
(* writer was scheduled.  send and recv take or give any number of bytes   *)
(* that is possible, and a send that blocks half-way is the same as short  *)
(* sends in a row.  A byte is its position in what the writer's callers    *)
(* wrote.  A system call fails when a signal interrupts it or when the     *)
(* network does; MaxFaults bounds how often.                               *)
(***************************************************************************)
EXTENDS Integers, SequencesExt

CONSTANTS
  SndBuf, RcvBuf,   (* SO_SNDBUF and SO_RCVBUF                             *)
  Window,           (* how many bytes the connection holds                 *)
  Lengths,          (* the lengths of what is written                      *)
  MaxBytes,         (* bound on the bytes that are written                 *)
  Sizes,            (* the sizes that readall is asked for                 *)
  Timeouts,         (* its timeouts; 0 is none                             *)
  Second,           (* milliseconds in a second (1000)                     *)
  MaxFaults         (* bound on the failures of system calls               *)

ASSUME BufferAssumption == {SndBuf, RcvBuf, Window} \subseteq Nat \ {0}
ASSUME CallAssumption == Lengths \cup Sizes \cup Timeouts \subseteq Nat
ASSUME BoundAssumption == {MaxBytes, MaxFaults} \subseteq Nat
ASSUME SecondAssumption == Second \in Nat \ {0}

VARIABLES
  wire,        (* the bytes in the connection                              *)
  wopen,       (* the writer's end is open                                 *)
  ropen,       (* the reader's end is open                                 *)
  faults,      (* how many system calls have failed                        *)
  wpc,         (* where write_all is                                       *)
  left,        (* left_size                                                *)
  issued,      (* history: how many bytes write_all was called with        *)
  rpc,         (* where readall is                                         *)
  size,        (* _size: how many bytes it still wants                     *)
  asked,       (* history: how many it was called for                      *)
  timeout,     (* _timeout                                                 *)
  elapsed,     (* the time since start                                     *)
  until,       (* when its select gives up                                 *)
  got,         (* final_res                                                *)
  answer,      (* the last result of readall: "ok" or "failed"             *)
  delivered,   (* history: all the bytes of its results                    *)
  gap          (* history: a call failed, or the writer wrote to nobody    *)

wireVars == <<wire, wopen, ropen>>
writeVars == <<wpc, left, issued>>
waitVars == <<asked, timeout, elapsed, until>>
readVars == <<rpc, size, got, answer, delivered>>

vars == <<wireVars, faults, writeVars, readVars, waitVars, gap>>

Least(m, n) == IF m < n THEN m ELSE n

Numbers(m, n) == [i \in 1 .. n - m |-> m + i]

Init ==
  /\ wire = <<>> /\ wopen = TRUE /\ ropen = TRUE
  /\ faults = 0 /\ gap = FALSE
  /\ wpc = "idle" /\ left = 0 /\ issued = 0
  /\ rpc = "idle" /\ size = 0 /\ got = <<>> /\ answer = "none" /\ delivered = <<>>
  /\ asked = 0 /\ timeout = 0 /\ elapsed = 0 /\ until = 0

Fault == faults < MaxFaults /\ faults' = faults + 1

-----------------------------------------------------------------------------
(* Faulty variants of the steps below. *)

SendResending ==
  /\ wpc = "send" /\ ropen
  /\ \E n \in Least(left, 1) .. Least(Least(left, SndBuf), Window - Len(wire)) :
       /\ wire' = wire \o Numbers(issued - left, issued - left + n)
       /\ left' = IF n = left THEN 0 ELSE left - n + 1
       /\ wpc' = IF n = left THEN "idle" ELSE "ready"
  /\ UNCHANGED <<wopen, ropen, faults, issued, readVars, waitVars, gap>>

ReadEndsEmptyHanded ==
  /\ rpc = "try"
  /\ size = 0 \/ (timeout > 0 /\ elapsed >= timeout)
  /\ rpc' = "idle" /\ answer' = "ok"
  /\ delivered' = IF size = 0 THEN delivered \o got ELSE delivered
  /\ UNCHANGED <<wireVars, faults, writeVars, size, got, waitVars, gap>>

ReadEndsOnlyWhenFull ==
  /\ rpc = "try" /\ size = 0
  /\ rpc' = "idle" /\ answer' = "ok" /\ delivered' = delivered \o got
  /\ UNCHANGED <<wireVars, faults, writeVars, size, got, waitVars, gap>>

ReceiveForgettingSize ==
  /\ rpc = "recv" /\ wire # <<>>
  /\ \E n \in 1 .. Least(Least(size, RcvBuf), Len(wire)) :
       /\ got' = got \o SubSeq(wire, 1, n)
       /\ wire' = SubSeq(wire, n + 1, Len(wire))
       /\ rpc' = "try"
  /\ UNCHANGED <<size, wopen, ropen, faults, writeVars, answer, delivered, waitVars, gap>>

ReceiveNothingAsTheEnd ==
  /\ rpc = "recv" /\ wire = <<>>
  /\ rpc' = "idle" /\ answer' = "ok" /\ delivered' = delivered \o got
  /\ UNCHANGED <<wireVars, faults, writeVars, size, got, waitVars, gap>>

WaitedRoundedUp(ms) == Second * ((ms + Second - 1) \div Second)

-----------------------------------------------------------------------------
(* write_all *)

Write(n) ==
  /\ wpc = "idle" /\ wopen /\ issued + n <= MaxBytes
  /\ wpc' = "call" /\ left' = n /\ issued' = issued + n
  /\ UNCHANGED <<wireVars, faults, readVars, waitVars, gap>>

(* get_write_bufsize; it may fail here, but not later in the call. *)
WriteBegins ==
  /\ wpc = "call" /\ wpc' = "ready"
  /\ UNCHANGED <<wireVars, faults, left, issued, readVars, waitVars, gap>>

(* while(!writeable().ignore()); an error counts as not writeable. *)
Writeable ==
  /\ wpc = "ready" /\ (Len(wire) < Window \/ ~ropen)
  /\ wpc' = "send"
  /\ UNCHANGED <<wireVars, faults, left, issued, readVars, waitVars, gap>>

(* How many bytes the next send is for. *)
Chunk == Least(left, SndBuf)

Sent(n) ==
  /\ left' = left - n
  /\ wpc' = IF left < SndBuf /\ n = left THEN "idle" ELSE "ready"

Send ==
  /\ wpc = "send" /\ ropen
  /\ \E n \in Least(Chunk, 1) .. Least(Chunk, Window - Len(wire)) :
       /\ wire' = wire \o Numbers(issued - left, issued - left + n)
       /\ Sent(n)
  /\ UNCHANGED <<wopen, ropen, faults, issued, readVars, waitVars, gap>>

(* The peer has closed: the bytes go nowhere, or send says so. *)
SendToNobody ==
  /\ wpc = "send" /\ ~ropen
  /\ gap' = TRUE
  /\ Sent(Chunk)
  /\ UNCHANGED <<wireVars, faults, issued, readVars, waitVars>>

(* SOCKET_ERROR, from getsockopt or send *)
WriteFails ==
  /\ wpc \in {"call", "send"}
  /\ Fault \/ (wpc = "send" /\ ~ropen /\ UNCHANGED faults)
  /\ wpc' = "idle" /\ gap' = TRUE
  /\ UNCHANGED <<wireVars, left, issued, readVars, waitVars>>

-----------------------------------------------------------------------------
(* readall *)

Read(n, t) ==
  /\ rpc = "idle" /\ ropen
  /\ rpc' = "call" /\ size' = n /\ asked' = n /\ timeout' = t
  /\ elapsed' = 0 /\ until' = 0
  /\ got' = <<>> /\ answer' = "none"
  /\ UNCHANGED <<wireVars, faults, writeVars, delivered, gap>>

(* select takes whole seconds, and the rest as microseconds. *)
Waited(ms) == Second * (ms \div Second)

Readable == wire # <<>> \/ ~wopen

(* get_read_bufsize; the clock already runs. *)
ReadBegins ==
  /\ rpc = "call" /\ rpc' = "try"
  /\ UNCHANGED <<wireVars, faults, writeVars, size, got, answer, delivered, waitVars, gap>>

ReadReturns ==
  /\ rpc' = "idle" /\ answer' = "ok" /\ delivered' = delivered \o got
  /\ UNCHANGED <<wireVars, faults, writeVars, size, got, waitVars, gap>>

ReadMovesTo(to) ==
  /\ rpc' = to
  /\ UNCHANGED <<wireVars, faults, writeVars, size, got, answer, delivered, asked,
                 timeout, elapsed, gap>>

(* Nothing is left to read, or no time to wait. *)
ReadEnds ==
  /\ rpc = "try"
  /\ size = 0 \/ (timeout > 0 /\ elapsed >= timeout)
  /\ ReadReturns

(* await_readable without a timeout asks until the socket is readable. *)
ReadAwaits ==
  /\ rpc = "try" /\ size > 0 /\ timeout = 0
  /\ ReadMovesTo("poll") /\ UNCHANGED until

ReadSelects ==
  /\ rpc = "try" /\ size > 0 /\ elapsed < timeout
  /\ ReadMovesTo("select")
  /\ until' = elapsed + Waited(timeout - elapsed)

BecomesReadable ==
  /\ rpc \in {"poll", "select"} /\ Readable
  /\ ReadMovesTo("recv") /\ UNCHANGED until

SelectTimesOut ==
  /\ rpc = "select" /\ ~Readable /\ elapsed >= until
  /\ ReadReturns

(* At most RcvBuf bytes; the last part may end the call. *)
Receive ==
  /\ rpc = "recv" /\ wire # <<>>
  /\ \E n \in 1 .. Least(Least(size, RcvBuf), Len(wire)) :
       /\ got' = got \o SubSeq(wire, 1, n)
       /\ wire' = SubSeq(wire, n + 1, Len(wire))
       /\ size' = size - n
       /\ IF n = size /\ size < RcvBuf
          THEN rpc' = "idle" /\ answer' = "ok" /\ delivered' = delivered \o got'
          ELSE rpc' = "try" /\ UNCHANGED <<answer, delivered>>
  /\ UNCHANGED <<wopen, ropen, faults, writeVars, waitVars, gap>>

(* The end of the stream is a recv of 0 bytes: readall tries again. *)
ReceiveNothing ==
  /\ rpc = "recv" /\ wire = <<>>
  /\ ReadMovesTo("try") /\ UNCHANGED until

(* SOCKET_ERROR: what was read so far is not in the result. *)
ReadFails(at) ==
  /\ rpc = at /\ Fault
  /\ rpc' = "idle" /\ answer' = "failed" /\ got' = <<>> /\ gap' = TRUE
  /\ UNCHANGED <<wireVars, writeVars, size, delivered, waitVars>>

Tick ==
  /\ rpc # "idle" /\ elapsed < timeout
  /\ elapsed' = elapsed + 1
  /\ UNCHANGED <<wireVars, faults, writeVars, readVars, asked, timeout, until, gap>>

-----------------------------------------------------------------------------
(* shutdown and close, between two calls.  A close that reports an error   *)
(* has released the descriptor all the same, as on Linux.                  *)

CloseWriter ==
  /\ wpc = "idle" /\ wopen /\ wopen' = FALSE
  /\ Fault \/ UNCHANGED faults
  /\ UNCHANGED <<wire, ropen, writeVars, readVars, waitVars, gap>>

CloseReader ==
  /\ rpc = "idle" /\ ropen /\ ropen' = FALSE
  /\ wire' = <<>>
  /\ Fault \/ UNCHANGED faults
  /\ UNCHANGED <<wopen, writeVars, readVars, waitVars, gap>>

WriteStep == WriteBegins \/ Writeable \/ Send \/ SendToNobody \/ WriteFails

ReadStep ==
  \/ ReadBegins \/ ReadEnds \/ ReadAwaits \/ ReadSelects \/ BecomesReadable \/ SelectTimesOut
  \/ Receive \/ ReceiveNothing \/ \E at \in {"call", "poll", "select", "recv"} : ReadFails(at)

Next ==
  \/ \E n \in Lengths : Write(n)
  \/ WriteStep
  \/ \E n \in Sizes, t \in Timeouts : Read(n, t)
  \/ ReadStep
  \/ Tick
  \/ CloseWriter
  \/ CloseReader

Spec == Init /\ [][Next]_vars

(* Threads inside a call are scheduled, and time passes. *)
FairSpec == Spec /\ WF_vars(WriteStep) /\ WF_vars(ReadStep) /\ WF_vars(Tick)

-----------------------------------------------------------------------------
StreamTypeOK ==
  /\ wire \in Seq(1 .. MaxBytes) /\ Len(wire) <= Window
  /\ wopen \in BOOLEAN /\ ropen \in BOOLEAN /\ gap \in BOOLEAN
  /\ faults \in 0 .. MaxFaults
  /\ wpc \in {"idle", "call", "ready", "send"}
  /\ issued \in 0 .. MaxBytes /\ left \in 0 .. issued
  /\ rpc \in {"idle", "call", "try", "poll", "select", "recv"}
  /\ asked \in Nat /\ size \in 0 .. asked
  /\ timeout \in Nat /\ elapsed \in 0 .. timeout /\ until \in 0 .. timeout
  /\ got \in Seq(1 .. MaxBytes) /\ delivered \in Seq(1 .. MaxBytes)
  /\ answer \in {"none", "ok", "failed"}

(* What has left the writer, as the reader sees it. *)
Arriving == delivered \o (IF rpc = "idle" THEN <<>> ELSE got) \o wire

(***************************************************************************)
(* While no call has failed and the reader is there, the bytes read, those *)
(* in the hands of the running readall and those still in the connection   *)
(* are the bytes written so far, each once and in order: the offsets of    *)
(* write_all's chunks and of readall's parts fit together.                 *)
(***************************************************************************)
StreamIntact == ~gap /\ ropen => Arriving = Numbers(0, issued - left)

(* Even when calls fail, no byte is read twice or overtakes another. *)
NeverTwice == \A i, j \in 1 .. Len(Arriving) : i < j => Arriving[i] < Arriving[j]

(* A readall has the bytes that it no longer waits for, and no others. *)
CountsItsBytes == rpc # "idle" \/ answer = "ok" => Len(got) + size = asked

(* A successful readall is short only if it was given a timeout. *)
ShortOnlyWithTimeout == answer = "ok" /\ size > 0 => timeout > 0

(***************************************************************************)
(* "wait until sock is readable": a readall gives up on missing bytes only *)
(* when its timeout has passed.                                            *)
(***************************************************************************)
WaitsItsTimeout == answer = "ok" /\ size > 0 => elapsed >= timeout

(* A readall with a timeout returns, even at the end of the stream. *)
TimedReadReturns == rpc # "idle" /\ timeout > 0 ~> rpc = "idle"
=============================================================================
