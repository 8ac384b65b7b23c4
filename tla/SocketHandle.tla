---------------------------- MODULE SocketHandle ----------------------------
(***************************************************************************)
(* Socket objects, the descriptors behind them and the error numbers that  *)
(* their calls tell.                                                       *)
(*                                                                         *)
(* The operating system is external: it gives out the lowest free          *)
(* descriptor and reuses it after a close, even one that reports an error  *)
(* (as Linux does); it keeps one pending error per socket (SO_ERROR),      *)
(* which whoever asks for it clears, and an errno per thread, which no     *)
(* other thread disturbs.  The sockets it makes are numbered in the order  *)
(* of their making; a pending error is the number of its socket.  A call   *)
(* that blocks is taken to look its descriptor up when it ends.  Left out  *)
(* are the addresses that an object records, the errno of failed calls,    *)
(* and whether a Result is a success, which no later step depends on.      *)
(*                                                                         *)
(* An object belongs to a thread, which calls it while it is valid.  It    *)
(* comes from create, accept or a copy of another object, that of another  *)
(* thread included, and goes when its scope ends: nothing is closed then.  *)
(* An assignment is the end of the old object and the start of a new one.  *)
(* Between a system call and the exact_err that follows it, other threads  *)
(* run.                                                                    *)
(***************************************************************************)
EXTENDS Integers, FiniteSets

CONSTANTS
  Threads,
  Objects,
  ThreadOf,     (* the thread that an object belongs to                    *)
  TableSize,    (* how many descriptors the process may have open          *)
  MaxSockets,   (* bound on the sockets that are made                      *)
  MaxStrays,    (* bound on the sockets that become loose or left          *)
  Requests,     (* the <<option, value>> that setters are called with      *)
  MaxSets,      (* bound on the options that are not as they were at first *)
  Tick          (* microseconds in a tick of the kernel's clock            *)

ASSUME ThreadAssumption == ThreadOf \in [Objects -> Threads]
ASSUME SizeAssumption == TableSize \in Nat \ {0} /\ {MaxSockets, MaxSets, MaxStrays} \subseteq Nat
ASSUME TickAssumption == Tick \in Nat \ {0}

Options == {"timeout", "closeWait", "flag"}

ASSUME RequestAssumption ==
  \A r \in Requests :
    r[1] \in Options /\ r[2] \in Nat \cup (IF r[1] = "closeWait" THEN {-1} ELSE {})

VARIABLES
  table,     (* the sockets behind the open descriptors                    *)
  kernel,    (* what the operating system knows of each socket             *)
  made,      (* how many sockets were made                                 *)
  obj,       (* the Socket objects; sock is history: what they stand for   *)
  call,      (* the calls that go on after their system call               *)
  result,    (* history: the pending error that the last step took, told   *)
             (* in its Result or not (0), by a call for sock               *)
  past       (* history: spare, the sockets whose descriptors accept       *)
             (* overwrote; loose, those that were copied, closed through   *)
             (* an object that stands for another one, or closed by a      *)
             (* close that reported an error; left, those whose last       *)
             (* object went out of scope without a close                   *)

vars == <<table, kernel, made, obj, call, result, past>>

kernelVars == <<table, kernel, made>>

Descriptors == 0 .. TableSize - 1
Sockets == 1 .. MaxSockets
None == 0                       (* no socket, no object                    *)
NoFd == -1                      (* INVALID_SOCKET                          *)
NoError == 0

-----------------------------------------------------------------------------
(* The options as the setters pass them and the getters read them back. *)

Timeval(ms) == [sec |-> ms \div 1000, usec |-> ms % 1000]

Milliseconds(tv) == tv.sec * 1000 + tv.usec

(* external: the kernel keeps a time in ticks, rounded up. *)
Kept(tv) == [tv EXCEPT !.usec = Tick * ((@ + Tick - 1) \div Tick)]

(* A faulty variant. *)
LingerAboveZero(wait) == IF wait < 1 THEN [on |-> 0, sec |-> 0] ELSE [on |-> 1, sec |-> wait]

Linger(wait) == IF wait = -1 THEN [on |-> 0, sec |-> 0] ELSE [on |-> 1, sec |-> wait]

CloseWait(l) == IF l.on # 0 THEN l.sec ELSE -1

Stored(option, value) ==
  CASE option = "timeout"   -> Kept(Timeval(value))
    [] option = "closeWait" -> Linger(value)
    [] option = "flag"      -> value

ReadBack(option, stored) ==
  CASE option = "timeout"   -> Milliseconds(stored)
    [] option = "closeWait" -> CloseWait(stored)
    [] option = "flag"      -> stored

Default(option) == IF option = "closeWait" THEN -1 ELSE 0

-----------------------------------------------------------------------------
Modes == {"closed", "fresh", "listening", "connected", "reset"}

Closed ==
  [mode |-> "closed", error |-> FALSE,
   option |-> [n \in Options |-> Stored(n, Default(n))],
   asked |-> [n \in Options |-> Default(n)]]

Fresh == [Closed EXCEPT !.mode = "fresh"]

NoSocket == [valid |-> FALSE, fd |-> NoFd, sock |-> None]

NoCall == [at |-> "idle", obj |-> None, into |-> None]
NoResult == [sock |-> None, told |-> NoError]

Init ==
  /\ table = [d \in Descriptors |-> None]
  /\ kernel = [s \in Sockets |-> Closed]
  /\ made = 0
  /\ obj = [o \in Objects |-> NoSocket]
  /\ call = [t \in Threads |-> NoCall]
  /\ result = NoResult
  /\ past = [spare |-> {}, loose |-> {}, left |-> {}]

(* The socket that an object's descriptor leads to now. *)
At(o) == IF obj[o].fd = NoFd THEN None ELSE table[obj[o].fd]

Mode(o) == IF At(o) = None THEN "closed" ELSE kernel[At(o)].mode

Pending(o) == At(o) # None /\ kernel[At(o)].error

(* The descriptor is no longer that of the object's own socket. *)
Stale(o) == obj[o].fd # NoFd /\ At(o) # obj[o].sock

LastOfItsSocket(o) ==
  \A p \in Objects \ {o} : obj[p].valid => obj[p].sock # obj[o].sock

Idle(o) == call[ThreadOf[o]] = NoCall

(* The bound on what may go wrong with objects. *)
MayStray == Cardinality(past.loose) + Cardinality(past.left) < MaxStrays

(* A method of the object may be called. *)
Calls(o) == Idle(o) /\ obj[o].valid

(* A Socket may come to life here. *)
Unused(o) == Idle(o) /\ obj[o] = NoSocket

Free == {d \in Descriptors : table[d] = None}

Lowest(d) == d \in Free /\ \A e \in Free : d <= e

(* external: socket(2), and accept(2) when a connection is there *)
Opens(d, as) ==
  /\ made < MaxSockets /\ Lowest(d)
  /\ made' = made + 1
  /\ table' = [table EXCEPT ![d] = made + 1]
  /\ kernel' = [kernel EXCEPT ![made + 1] = as]

NewSocket(d) == [valid |-> TRUE, fd |-> d, sock |-> made + 1]

(* external: close(2), whether it reports an error or not *)
Releases(o) ==
  /\ At(o) # None
  /\ table' = [table EXCEPT ![obj[o].fd] = None]
  /\ kernel' = [kernel EXCEPT ![At(o)] = Closed]
  /\ UNCHANGED made

(* What the getter of an option returns. *)
Got(o, n) == ReadBack(n, kernel[At(o)].option[n])

Becomes(o, mode) == kernel' = [kernel EXCEPT ![At(o)].mode = mode]

(* external: SO_ERROR is read, or a send or recv fails with it. *)
TakesError(o, told) ==
  IF Pending(o)
  THEN /\ kernel' = [kernel EXCEPT ![At(o)].error = FALSE]
       /\ result' = [sock |-> obj[o].sock, told |-> told]
  ELSE UNCHANGED kernel /\ result' = NoResult

Returns(o) == call' = [call EXCEPT ![ThreadOf[o]] = NoCall]

(* The system call is over, and the call goes on somewhere else. *)
GoesOn(o, at) ==
  call' = [call EXCEPT ![ThreadOf[o]] = [at |-> at, obj |-> o, into |-> None]]

-----------------------------------------------------------------------------
(* Faulty variants of the definitions below. *)

CreateFailsUnseen(o) ==
  /\ Unused(o) /\ Free = {}
  /\ obj' = [obj EXCEPT ![o].valid = TRUE]
  /\ result' = NoResult
  /\ UNCHANGED <<kernelVars, call, past>>

AcceptsBesideTheSpare(t) ==
  /\ call[t].at = "accepting" /\ Mode(call[t].obj) = "listening"
  /\ \E d \in Descriptors : Opens(d, [Fresh EXCEPT !.mode = "connected"])
  /\ obj' = [obj EXCEPT ![call[t].into].sock = made + 1]
  /\ GoesOn(call[t].obj, "asking")
  /\ result' = NoResult
  /\ UNCHANGED past

CloseStayingValid(o) ==
  /\ Calls(o) /\ Releases(o)
  /\ GoesOn(o, "asking")
  /\ result' = NoResult
  /\ UNCHANGED <<obj, past>>

-----------------------------------------------------------------------------
(* How objects come and go. *)

Create(o) ==
  /\ Unused(o)
  /\ \E d \in Descriptors : Opens(d, Fresh) /\ obj' = [obj EXCEPT ![o] = NewSocket(d)]
  /\ result' = NoResult
  /\ UNCHANGED <<call, past>>

CreateFails(o) ==
  /\ Unused(o) /\ Free = {}
  /\ result' = NoResult
  /\ UNCHANGED <<kernelVars, obj, call, past>>

(* The implicit copy, by which Sockets leave their Results: remote and      *)
(* accept_res of the server are both valid.                                *)
Copy(o, p) ==
  /\ Calls(o) /\ Unused(p) /\ MayStray
  /\ obj' = [obj EXCEPT ![p] = obj[o]]
  /\ past' = [past EXCEPT !.loose = @ \cup {obj[o].sock}]
  /\ result' = NoResult
  /\ UNCHANGED <<kernelVars, call>>

(* No destructor closes what an object leads to. *)
EndsScope(o) ==
  /\ Calls(o)
  /\ obj' = [obj EXCEPT ![o] = NoSocket]
  /\ IF LastOfItsSocket(o)
     THEN MayStray /\ past' = [past EXCEPT !.left = @ \cup {obj[o].sock}]
     ELSE UNCHANGED past
  /\ result' = NoResult
  /\ UNCHANGED <<kernelVars, call>>

-----------------------------------------------------------------------------
(* accept makes a socket first, whose descriptor it then overwrites: the    *)
(* object is valid from then on, whatever accept(2) says.                  *)

AcceptBegins(o, p) ==
  /\ Calls(o) /\ Unused(p) /\ ThreadOf[p] = ThreadOf[o]
  /\ \/ \E d \in Descriptors :
          /\ Opens(d, Fresh)
          /\ obj' = [obj EXCEPT ![p] = NewSocket(d)]
          /\ past' = [past EXCEPT !.spare = @ \cup {made + 1}]
     \/ Free = {} /\ UNCHANGED <<kernelVars, obj, past>>
  /\ call' = [call EXCEPT ![ThreadOf[o]] = [at |-> "accepting", obj |-> o, into |-> p]]
  /\ result' = NoResult

(* external: a connection has the options that its listener had when it     *)
(* came.                                                                   *)
Accepts(t) ==
  /\ call[t].at = "accepting" /\ Mode(call[t].obj) = "listening"
  /\ \E d \in Descriptors, like \in {kernel[At(call[t].obj)], Fresh} :
       /\ Opens(d, [like EXCEPT !.mode = "connected", !.error = FALSE])
       /\ obj' = [obj EXCEPT ![call[t].into] = NewSocket(d)]
  /\ GoesOn(call[t].obj, "asking")
  /\ result' = NoResult
  /\ UNCHANGED past

AcceptFails(t) ==
  /\ call[t].at = "accepting"
  /\ obj' = [obj EXCEPT ![call[t].into].fd = NoFd]
  /\ GoesOn(call[t].obj, "asking")
  /\ result' = NoResult
  /\ UNCHANGED <<kernelVars, past>>

-----------------------------------------------------------------------------
(* h_sock_ keeps its number, and exact_err asks for that number's error. *)
Close(o) ==
  /\ Calls(o) /\ Releases(o)
  /\ obj' = [obj EXCEPT ![o].valid = FALSE]
  /\ past' = [past EXCEPT !.loose = IF Stale(o) THEN @ \cup {At(o)} ELSE @]
  /\ GoesOn(o, "asking")
  /\ result' = NoResult

(* The object remains valid, though its descriptor was not open, or is not  *)
(* any more.                                                               *)
CloseFails(o) ==
  /\ Calls(o)
  /\ \/ At(o) = None /\ UNCHANGED <<kernelVars, past>>
     \/ MayStray /\ Releases(o) /\ past' = [past EXCEPT !.loose = @ \cup {At(o)}]
  /\ GoesOn(o, "asking")
  /\ result' = NoResult
  /\ UNCHANGED obj

Asking == {"asking", "askingTwice", "askingInVain"}

(* exact_err, as the last thing that the call does or, if it asks twice, as *)
(* the first.  Result::err leaves out the error that it is given.  Nothing  *)
(* calls a closed object any more: it counts as unused when close returns. *)
AsksForError(t) ==
  /\ call[t].at \in Asking
  /\ LET o == call[t].obj
     IN /\ TakesError(o, IF call[t].at = "asking" THEN At(o) ELSE NoError)
        /\ IF call[t].at = "askingTwice" THEN GoesOn(o, "askingInVain") ELSE Returns(o)
        /\ obj' = [obj EXCEPT ![o] = IF @.valid THEN @ ELSE NoSocket]
  /\ UNCHANGED <<table, made, past>>

-----------------------------------------------------------------------------
(* The calls below leave the objects and the descriptors as they are. *)

Connect(o) ==
  /\ Mode(o) = "fresh" /\ Becomes(o, "connected")
  /\ Returns(o) /\ result' = NoResult

(* The code of a failure is fast_err's. *)
ConnectFails(o) == Returns(o) /\ result' = NoResult /\ UNCHANGED kernel

(* exact_err knows nothing of why bind, listen or accept failed: the kernel *)
(* keeps that in errno only.                                               *)
Bind(o) == GoesOn(o, "asking") /\ result' = NoResult /\ UNCHANGED kernel

Listen(o) ==
  /\ \/ Mode(o) \in {"fresh", "listening"} /\ Becomes(o, "listening")
     \/ UNCHANGED kernel
  /\ GoesOn(o, "asking") /\ result' = NoResult

(* Of a listening socket it ends the listening, unless it is for sending. *)
Shutdown(o) ==
  /\ UNCHANGED kernel \/ (Mode(o) = "listening" /\ Becomes(o, "fresh"))
  /\ Returns(o) /\ result' = NoResult

Write(o) ==
  /\ Mode(o) = "connected"
  /\ GoesOn(o, "asking") /\ result' = NoResult
  /\ UNCHANGED kernel

(* send and recv fail with the pending error, if there is one. *)
WriteFails(o) == TakesError(o, NoError) /\ Returns(o)

Readsome(o) ==
  /\ Mode(o) \in {"connected", "reset"}
  /\ Returns(o) /\ result' = NoResult
  /\ UNCHANGED kernel

ReadsomeFails(o) == TakesError(o, NoError) /\ GoesOn(o, "asking")

(* FD_SET of a number below 0 is undefined: callers must not. *)
Selects(o) == obj[o].fd # NoFd /\ result' = NoResult /\ UNCHANGED kernel

Select(o) == Selects(o) /\ GoesOn(o, "asking")

(* readable, writeable and acceptable; the set of errors that select returns *)
(* is that of urgent data.                                                 *)
Readable(o) == Selects(o) /\ (Returns(o) \/ GoesOn(o, "asking"))

(* await_readable and await_writeable, at their end *)
Await(o) ==
  Selects(o) /\ (Returns(o) \/ GoesOn(o, "askingTwice") \/ GoesOn(o, "askingInVain"))

HasError(o) == Selects(o) /\ (Returns(o) \/ GoesOn(o, "askingInVain"))

Changed == {q \in Sockets \X Options : kernel[q[1]].asked[q[2]] # Default(q[2])}

(* setopt asks for the pending error, which may be that of anything before. *)
SetOption(o, n, v) ==
  /\ At(o) # None /\ Cardinality(Changed \ {<<At(o), n>>}) < MaxSets
  /\ kernel' = [kernel EXCEPT ![At(o)].option[n] = Stored(n, v), ![At(o)].asked[n] = v]
  /\ GoesOn(o, "asking") /\ result' = NoResult

(* The kernel does not let SO_ERROR be set, so rise_err is one of these. *)
SetOptionFails(o) == GoesOn(o, "asking") /\ result' = NoResult /\ UNCHANGED kernel

(* A getter's Result has what it Got. *)
GetOption(o) ==
  /\ At(o) # None
  /\ Returns(o) /\ result' = NoResult
  /\ UNCHANGED kernel

(* The code is fast_err's, but getters that convert the value leave it out. *)
GetOptionFails(o) ==
  /\ At(o) = None
  /\ Returns(o) /\ result' = NoResult
  /\ UNCHANGED kernel

ExactErr(o) ==
  /\ At(o) # None
  /\ TakesError(o, At(o)) /\ Returns(o)

(* external: the peer resets the connection. *)
ErrorArrives(s) ==
  /\ kernel[s].mode = "connected"
  /\ kernel' = [kernel EXCEPT ![s].mode = "reset", ![s].error = TRUE]
  /\ result' = NoResult
  /\ UNCHANGED <<table, made, obj, call, past>>

-----------------------------------------------------------------------------
CallOn(o) ==
  /\ Calls(o)
  /\ \/ Connect(o) \/ ConnectFails(o) \/ Bind(o) \/ Listen(o) \/ Shutdown(o)
     \/ Write(o) \/ WriteFails(o) \/ Readsome(o) \/ ReadsomeFails(o)
     \/ Select(o) \/ Readable(o) \/ Await(o) \/ HasError(o)
     \/ \E r \in Requests : SetOption(o, r[1], r[2])
     \/ SetOptionFails(o)
     \/ GetOption(o) \/ GetOptionFails(o) \/ ExactErr(o)
  /\ UNCHANGED <<table, made, obj, past>>

Next ==
  \/ \E o \in Objects : Create(o) \/ CreateFails(o) \/ EndsScope(o)
                        \/ Close(o) \/ CloseFails(o) \/ CallOn(o)
  \/ \E o, p \in Objects : Copy(o, p) \/ AcceptBegins(o, p)
  \/ \E t \in Threads : Accepts(t) \/ AcceptFails(t) \/ AsksForError(t)
  \/ \E s \in Sockets : ErrorArrives(s)

Spec == Init /\ [][Next]_vars

-----------------------------------------------------------------------------
HandleTypeOK ==
  /\ table \in [Descriptors -> Sockets \cup {None}]
  /\ made \in 0 .. MaxSockets
  /\ \A s \in Sockets : kernel[s].mode \in Modes /\ kernel[s].error \in BOOLEAN
  /\ obj \in [Objects -> [valid : BOOLEAN, fd : Descriptors \cup {NoFd},
                          sock : Sockets \cup {None}]]
  /\ call \in [Threads -> [at : {"idle", "accepting"} \cup Asking,
                           obj : Objects \cup {None}, into : Objects \cup {None}]]
  /\ past.spare \subseteq Sockets
  /\ past.loose \cup past.left \subseteq Sockets
  /\ \A o \in Objects : obj[o].valid /\ obj[o].fd = NoFd => obj[o].sock \in past.spare

(***************************************************************************)
(* A valid object whose descriptor is not its own any more stands for a    *)
(* socket that was copied, closed by a close that reported an error, or    *)
(* closed through another such object.  Numbers are reused as soon as any  *)
(* thread creates or accepts, so without copies and failed closes no call  *)
(* may leave an object valid whose number it gave back.                    *)
(***************************************************************************)
ValidIsOwn == \A o \in Objects : obj[o].valid /\ Stale(o) => obj[o].sock \in past.loose

(***************************************************************************)
(* Every open socket is in reach of a valid object that stands for it, or  *)
(* it is the spare one of an accept, or its last object went out of scope  *)
(* without a close: no call leaks anything but spares.                     *)
(***************************************************************************)
CallsLeakOnlySpares ==
  \A d \in Descriptors : table[d] # None =>
    \/ table[d] \in past.spare \cup past.left
    \/ \E o \in Objects : obj[o].valid /\ obj[o].fd = d /\ obj[o].sock = table[d]

(***************************************************************************)
(* An error that a Result tells came on the socket that was called.  Else  *)
(* that one is closed: by the call itself, which is a close, and no valid  *)
(* object stands for it, or it is one of the copied or badly closed ones.  *)
(***************************************************************************)
ToldIsOwn ==
  result.told \notin {NoError, result.sock} =>
    /\ kernel[result.sock].mode = "closed"
    /\ \/ result.sock \in past.loose
       \/ \A o \in Objects : obj[o].valid => obj[o].sock # result.sock

(***************************************************************************)
(* A pending error goes with the socket, or with a call through an object  *)
(* that stands for it.  Another object takes it only if it was closed and  *)
(* asks at the end of that close, or if its socket is one of the copied or *)
(* badly closed ones.                                                      *)
(***************************************************************************)
StolenOnlyByStale ==
  [][\A s \in Sockets : kernel[s].error /\ ~kernel'[s].error =>
       \/ kernel'[s].mode = "closed"
       \/ \E o \in Objects :
            /\ At(o) = s
            /\ call[ThreadOf[o]] # call'[ThreadOf[o]] \/ result'.sock = obj[o].sock
            /\ \/ obj[o].sock = s
               \/ ~obj[o].valid /\ call[ThreadOf[o]].at = "asking"
               \/ obj[o].sock \in past.loose]_vars

(***************************************************************************)
(* Through every object that leads to its socket, options read back as     *)
(* they were set through it, a copy, or the listener that the socket came  *)
(* from: whole seconds, close waits and flags.  Other times do not.        *)
(***************************************************************************)
OptionsReadBack ==
  \A o \in Objects, n \in Options : At(o) # None /\ ~Stale(o) =>
    LET asked == kernel[obj[o].sock].asked[n] IN
      Got(o, n) = asked \/ (n = "timeout" /\ asked % 1000 # 0)
=============================================================================
