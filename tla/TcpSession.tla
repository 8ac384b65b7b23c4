----------------------------- MODULE TcpSession -----------------------------
(***************************************************************************)
(* tcp_server and tcp_client of main.cpp, which share need_stop, on the    *)
(* two ends of a SocketStream: the client writes words, the server reads   *)
(* messages of a size in Sizes with a timeout in Timeouts, none of them 0. *)
(*                                                                         *)
(* Whether a system call fails is up to MaxFaults.  except throws out of   *)
(* the session, no_except does not.                                        *)
(***************************************************************************)
EXTENDS SocketStream

VARIABLES
  srv,         (* where tcp_server is                                      *)
  cli,         (* where tcp_client is                                      *)
  needStop,    (* need_stop                                                *)
  fds          (* the open descriptors of the two                          *)

sessionVars == <<srv, cli, needStop, fds>>
streamVars == <<wireVars, faults, writeVars, readVars, waitVars, gap>>
allVars == <<streamVars, sessionVars>>

SessionInit ==
  /\ Init
  /\ srv = "start" /\ cli = "start" /\ needStop = FALSE /\ fds = {}

ServerMoves(from, to) == srv = from /\ srv' = to /\ UNCHANGED <<cli, needStop>>
ClientMoves(from, to) == cli = from /\ cli' = to /\ UNCHANGED srv

(* A system call of the sessions themselves fails. *)
CallFails ==
  Fault /\ UNCHANGED <<wireVars, writeVars, readVars, waitVars, gap>>

-----------------------------------------------------------------------------
(* Faulty variants of the steps below. *)

ServerGivesUpAtOnce ==
  /\ rpc = "idle" /\ answer = "failed"
  /\ ServerMoves("serving", "closing")
  /\ UNCHANGED <<fds, streamVars>>

ServerReadsForever ==
  /\ srv = "serving" /\ rpc = "idle" /\ answer # "failed" /\ ~needStop
  /\ \E n \in Sizes : Read(n, 0)
  /\ UNCHANGED sessionVars


-----------------------------------------------------------------------------
(* tcp_server *)

ServerCreates ==
  /\ \/ ServerMoves("start", "created") /\ fds' = fds \cup {"listener"}
        /\ UNCHANGED streamVars
     \/ ServerMoves("start", "thrown") /\ CallFails /\ UNCHANGED fds

ServerBinds ==
  /\ \/ ServerMoves("created", "bound") /\ UNCHANGED streamVars
     \/ ServerMoves("created", "closing") /\ CallFails
  /\ UNCHANGED fds

ServerListens ==
  /\ \/ ServerMoves("bound", "listening") /\ UNCHANGED streamVars
     \/ ServerMoves("bound", "closing") /\ CallFails
  /\ UNCHANGED fds

(* accept makes a socket, or fails to, and overwrites its descriptor. *)
ServerAccepts ==
  /\ cli \notin {"start", "created", "unconnected"}
  /\ ServerMoves("listening", "serving")
  /\ \/ fds' = fds \cup {"spare", "remote"} /\ UNCHANGED streamVars
     \/ fds' = fds \cup {"remote"} /\ CallFails

(* The result is valid all the same if the socket was made: the server goes *)
(* on and its first readall fails.  If one cause kept it from either, it   *)
(* gives up.                                                               *)
AcceptFails ==
  /\ \/ ServerMoves("listening", "unserved") /\ fds' = fds \cup {"spare"}
     \/ ServerMoves("listening", "closing") /\ UNCHANGED fds
  /\ CallFails

UnservedEnds ==
  /\ ServerMoves("unserved", IF needStop THEN "thrown" ELSE "closing")
  /\ UNCHANGED <<fds, streamVars>>

ServerReads ==
  /\ srv = "serving" /\ rpc = "idle" /\ answer # "failed" /\ ~needStop
  /\ \E n \in Sizes, t \in Timeouts : Read(n, t)
  /\ UNCHANGED sessionVars

(* Nobody looks at the results of this shutdown and close. *)
ServerGivesUp ==
  /\ answer = "failed"
  /\ ServerMoves("serving", "closing")
  /\ fds' = fds \ {"remote"}
  /\ CloseReader

(* shutdown and close of the connection, which throw when they fail *)
ServerStops ==
  /\ rpc = "idle" /\ answer # "failed" /\ needStop
  /\ \/ /\ CloseReader /\ fds' = fds \ {"remote"}
        /\ ServerMoves("serving", IF faults' = faults THEN "closing" ELSE "thrown")
     \/ ServerMoves("serving", "thrown") /\ CallFails /\ UNCHANGED fds

(* The close of the listening socket, whose error is only printed, ends    *)
(* the connections that were not accepted.                                 *)
ServerReturns ==
  /\ ServerMoves("closing", "returned")
  /\ fds' = fds \ {"listener"}
  /\ IF ropen /\ "remote" \notin fds THEN CloseReader ELSE CallFails \/ UNCHANGED streamVars

-----------------------------------------------------------------------------
(* tcp_client *)

ClientCreates ==
  /\ \/ ClientMoves("start", "created") /\ fds' = fds \cup {"client"}
        /\ UNCHANGED streamVars
     \/ ClientMoves("start", "unconnected") /\ CallFails /\ UNCHANGED fds
  /\ UNCHANGED needStop

ClientConnects ==
  /\ srv = "listening"
  /\ ClientMoves("created", "typing")
  /\ UNCHANGED <<needStop, fds, streamVars>>

(* Nobody listens, or the call fails.  The shutdown of a socket that is not *)
(* connected fails as well, and except throws.                             *)
ClientIsRefused ==
  /\ ClientMoves("created", "unconnected")
  /\ (srv # "listening" /\ UNCHANGED streamVars) \/ CallFails
  /\ UNCHANGED <<needStop, fds>>

ClientWrites ==
  /\ cli = "typing"
  /\ \E n \in Lengths : Write(n)
  /\ UNCHANGED sessionVars

ClientStops ==
  /\ wpc = "idle"
  /\ ClientMoves("typing", "closing")
  /\ needStop' = TRUE
  /\ UNCHANGED <<fds, streamVars>>

(* shutdown and close, which throw when they fail; the shutdown of a       *)
(* connection that the server has reset does.                              *)
ClientCloses ==
  /\ CloseWriter
  /\ ClientMoves("closing", IF faults' = faults THEN "returned" ELSE "thrown")
  /\ fds' = fds \ {"client"}
  /\ UNCHANGED needStop

ClientThrows ==
  /\ ClientMoves("closing", "thrown")
  /\ (~ropen /\ UNCHANGED streamVars) \/ CallFails
  /\ UNCHANGED <<needStop, fds>>

-----------------------------------------------------------------------------
ServerStep ==
  \/ ServerCreates \/ ServerBinds \/ ServerListens \/ ServerAccepts \/ AcceptFails
  \/ UnservedEnds \/ ServerReads \/ ServerGivesUp \/ ServerStops \/ ServerReturns
  \/ ReadStep /\ UNCHANGED sessionVars

ClientStep ==
  \/ ClientCreates \/ ClientConnects \/ ClientIsRefused
  \/ ClientCloses \/ ClientThrows
  \/ WriteStep /\ UNCHANGED sessionVars

(* The time that the server spends outside select counts as spent in the    *)
(* next one: it is never as long as the timeout.                           *)
SessionTick == rpc = "select" /\ Tick /\ UNCHANGED sessionVars

SessionNext == ServerStep \/ ClientStep \/ ClientWrites \/ ClientStops \/ SessionTick

SessionSpec == SessionInit /\ [][SessionNext]_allVars

(* Both threads run and time passes; the user need not type anything. *)
FairSessionSpec ==
  /\ SessionSpec
  /\ WF_allVars(ServerStep) /\ WF_allVars(ClientStep) /\ SF_allVars(SessionTick)

-----------------------------------------------------------------------------
Over == {"returned", "thrown"}

(***************************************************************************)
(* A session that returns has closed what it opened, but for the socket    *)
(* that accept overwrote; one that throws may leave descriptors open.      *)
(***************************************************************************)
ReturnsHavingClosed ==
  /\ srv = "returned" => fds \cap {"listener", "remote"} = {}
  /\ cli = "returned" => "client" \notin fds

(***************************************************************************)
(* Once the user has stopped the client, the server comes to an end too:   *)
(* the timeout of its readall brings it back to need_stop, although at the *)
(* end of the stream readall by itself would read nothing for ever.        *)
(***************************************************************************)
StopEndsBoth == needStop ~> srv \in Over /\ cli \in Over


(* A write_all comes back whatever becomes of the server; what it cannot   *)
(* send is lost.                                                           *)
WritesReturn == wpc # "idle" ~> wpc = "idle"
=============================================================================
