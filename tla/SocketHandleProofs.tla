------------------------- MODULE SocketHandleProofs -------------------------
(***************************************************************************)
(* For any number of threads, objects, descriptors and sockets, however    *)
(* often objects are copied and go out of scope: where valid objects lead, *)
(* what leaks, which errors are told and taken, and that options read back. *)
(***************************************************************************)
EXTENDS SocketHandle, TLAPS

-----------------------------------------------------------------------------
(* The inductive invariant: Owned speaks of the descriptors, the objects   *)
(* and the kernel's sockets, Callers of the calls that have begun.         *)

Legal(n, v) == n \in Options /\ v \in Nat \cup (IF n = "closeWait" THEN {-1} ELSE {})

StoredValues == {Stored(n, v) : n \in Options, v \in Int}

Kernels ==
  [mode : Modes, error : BOOLEAN, option : [Options -> StoredValues], asked : [Options -> Int]]

AsAsked(k) ==
  \A n \in Options : Legal(n, k.asked[n]) /\ k.option[n] = Stored(n, k.asked[n])

Handles == [valid : BOOLEAN, fd : Descriptors \cup {NoFd}, sock : Sockets \cup {None}]

Pasts == [spare : SUBSET Sockets, loose : SUBSET Sockets, left : SUBSET Sockets]

OwnedTypes ==
  /\ table \in [Descriptors -> Sockets \cup {None}]
  /\ kernel \in [Sockets -> Kernels]
  /\ made \in 0 .. MaxSockets
  /\ obj \in [Objects -> Handles]
  /\ past \in Pasts

OptionsAsAsked == \A s \in Sockets : AsAsked(kernel[s])

IsOpen(s) == kernel[s].mode # "closed"

(* The next socket to be made is not known anywhere. *)
Numbered ==
  /\ \A d \in Descriptors : table[d] <= made
  /\ \A o \in Objects : obj[o].sock <= made

(* An open socket has one descriptor, and what has one is open. *)
OnePlace == \A d, e \in Descriptors : table[d] = table[e] /\ table[d] # None => d = e

TableIsOpen == \A d \in Descriptors : table[d] # None => IsOpen(table[d])

Standing == \A o \in Objects : obj[o] = NoSocket \/ obj[o].sock # None

(* As long as its socket is open, an object leads to it, valid or not. *)
OpenLeads ==
  \A o \in Objects : obj[o].fd # NoFd /\ IsOpen(obj[o].sock) => table[obj[o].fd] = obj[o].sock

SharedAreLoose ==
  \A o, p \in Objects :
    o # p /\ obj[o].sock = obj[p].sock /\ obj[o].sock # None => obj[o].sock \in past.loose

(* Only a failed accept leaves an object valid without a descriptor. *)
WithoutOnlySpares ==
  \A o \in Objects : obj[o].valid /\ obj[o].fd = NoFd => obj[o].sock \in past.spare

Owned ==
  /\ OwnedTypes /\ OptionsAsAsked /\ Numbered /\ OnePlace /\ TableIsOpen /\ Standing
  /\ OpenLeads /\ SharedAreLoose /\ ValidIsOwn /\ CallsLeakOnlySpares /\ WithoutOnlySpares

Calling ==
  [at : {"idle", "accepting"} \cup Asking, obj : Objects \cup {None}, into : Objects \cup {None}]

(* A thread asks for the error of an object of its own.  One that is not    *)
(* valid any more was closed by that call.                                 *)
AskerFits(t) ==
  call[t].at \in Asking =>
    /\ call[t].obj \in Objects /\ ThreadOf[call[t].obj] = t
    /\ obj[call[t].obj] # NoSocket
    /\ ~obj[call[t].obj].valid => call[t].at = "asking"

(* Until accept(2) returns, the object that is to be accepted is unused or  *)
(* stands for a spare socket.                                              *)
AccepterFits(t) ==
  call[t].at = "accepting" =>
    /\ call[t].obj \in Objects /\ ThreadOf[call[t].obj] = t /\ obj[call[t].obj].valid
    /\ call[t].into \in Objects /\ ThreadOf[call[t].into] = t /\ call[t].into # call[t].obj
    /\ \/ obj[call[t].into] = NoSocket
       \/ obj[call[t].into].valid /\ obj[call[t].into].sock \in past.spare

Callers == call \in [Threads -> Calling] /\ \A t \in Threads : AskerFits(t) /\ AccepterFits(t)

HandleInv == Owned /\ Callers

LEMMA ClosedIsKnown == Closed \in Kernels /\ Closed.mode = "closed" /\ AsAsked(Closed)
<1>1. \A n \in Options : Default(n) \in Int /\ Legal(n, Default(n))
  BY DEF Default, Legal
<1>2. [n \in Options |-> Stored(n, Default(n))] \in [Options -> StoredValues]
  BY <1>1 DEF StoredValues
<1>3. [n \in Options |-> Default(n)] \in [Options -> Int]
  BY <1>1
<1> QED
  BY <1>1, <1>2, <1>3 DEF Closed, Kernels, Modes, AsAsked

LEMMA FreshIsKnown ==
  ASSUME NEW k \in Kernels, AsAsked(k), NEW m \in Modes, NEW e \in BOOLEAN
  PROVE  LET r == [k EXCEPT !.mode = m, !.error = e] IN r \in Kernels /\ AsAsked(r) /\ r.mode = m
BY DEF Kernels, AsAsked

LEMMA InitHandleInv == Init => HandleInv
<1> SUFFICES ASSUME Init PROVE HandleInv
  OBVIOUS
<1> USE SizeAssumption
<1>1. \A o \in Objects : obj[o] = NoSocket
  BY DEF Init
<1>2. \A d \in Descriptors : table[d] = None
  BY DEF Init
<1>3. NoSocket \in Handles
  BY DEF NoSocket, Handles
<1>4. OwnedTypes /\ OptionsAsAsked
  BY <1>3, ClosedIsKnown DEF Init, OwnedTypes, Pasts, OptionsAsAsked
<1>5. Numbered /\ OnePlace /\ TableIsOpen /\ CallsLeakOnlySpares
  BY <1>1, <1>2 DEF Init, Numbered, OnePlace, TableIsOpen, CallsLeakOnlySpares, None, NoSocket
<1>6. Standing /\ OpenLeads /\ SharedAreLoose /\ ValidIsOwn /\ WithoutOnlySpares
  <2>1. \A o \in Objects : ~obj[o].valid /\ obj[o].fd = NoFd /\ obj[o].sock = None
    BY <1>1 DEF NoSocket
  <2> QED
    BY <1>1, <2>1
       DEF Standing, OpenLeads, SharedAreLoose, ValidIsOwn, Stale, WithoutOnlySpares
<1>7. NoCall \in Calling /\ NoCall.at = "idle"
  BY DEF NoCall, Calling
<1>8. Callers
  BY <1>7 DEF Init, Callers, AskerFits, AccepterFits, Asking
<1> QED
  BY <1>4, <1>5, <1>6, <1>8 DEF HandleInv, Owned

-----------------------------------------------------------------------------
(* A new socket for an object that is unused or stands for a spare one. *)
LEMMA OpeningKeepsOwned ==
  ASSUME Owned, NEW o \in Objects, NEW d \in Descriptors,
         NEW k \in Kernels, AsAsked(k), k.mode # "closed", Opens(d, k),
         obj' = [obj EXCEPT ![o] = NewSocket(d)],
         obj[o] = NoSocket \/ obj[o].sock \in past.spare,
         past' \in {past, [past EXCEPT !.spare = @ \cup {made + 1}]}
  PROVE  Owned'
<1> USE SizeAssumption
<1> DEFINE n == made + 1
<1>1. n \in Sockets /\ made' = n /\ made' \in 0 .. MaxSockets /\ made \in Nat
  BY DEF Opens, Owned, OwnedTypes, Sockets
<1>2. /\ NewSocket(d) \in Handles /\ NewSocket(d) # NoSocket
      /\ NewSocket(d).valid /\ NewSocket(d).fd = d /\ NewSocket(d).sock = n
  BY <1>1 DEF NewSocket, Handles, NoSocket
<1>3. obj'[o] = NewSocket(d) /\ \A p \in Objects : p # o => obj'[p] = obj[p]
  BY DEF Owned, OwnedTypes
<1>4. table[d] = None /\ table'[d] = n /\ \A e \in Descriptors : e # d => table'[e] = table[e]
  BY DEF Opens, Lowest, Free, Owned, OwnedTypes
<1>5. kernel'[n] = k /\ \A s \in Sockets : s # n => kernel'[s] = kernel[s]
  BY <1>1 DEF Opens, Owned, OwnedTypes
<1>6. /\ past' \in Pasts /\ past'.loose = past.loose /\ past'.left = past.left
      /\ past.spare \subseteq past'.spare
  BY <1>1 DEF Owned, OwnedTypes, Pasts
<1>7. OwnedTypes'
  BY <1>1, <1>2, <1>6 DEF Owned, OwnedTypes, Opens
<1>8. OptionsAsAsked'
  BY <1>5 DEF Owned, OptionsAsAsked
<1>9. \A e \in Descriptors : table[e] \in Int /\ table[e] # n /\ table[e] \in Sockets \cup {None}
  BY <1>1 DEF Owned, OwnedTypes, Numbered, Sockets, None
<1>10. \A p \in Objects : /\ obj[p].sock \in Int /\ obj[p].sock # n /\ obj[p].sock \in Sockets \cup {None}
                          /\ obj[p].fd \in Descriptors \cup {NoFd}
  BY <1>1 DEF Owned, OwnedTypes, Numbered, Handles, Sockets, None
<1>11. d # NoFd /\ n # None
  BY <1>1 DEF Descriptors, NoFd, Sockets, None
<1>12. Numbered'
  <2>1. ASSUME NEW e \in Descriptors PROVE table'[e] <= n
    BY <1>1, <1>4, <1>9 DEF Owned, Numbered
  <2>2. ASSUME NEW p \in Objects PROVE obj'[p].sock <= n
    BY <1>1, <1>2, <1>3, <1>10 DEF Owned, Numbered
  <2> QED BY <2>1, <2>2, <1>1 DEF Numbered
<1>13. OnePlace'
  BY <1>4, <1>9 DEF Owned, OnePlace
<1>14. TableIsOpen'
  <2> SUFFICES ASSUME NEW e \in Descriptors, table'[e] # None PROVE kernel'[table'[e]].mode # "closed"
    BY DEF TableIsOpen, IsOpen
  <2>1. CASE e = d
    BY <2>1, <1>4, <1>5
  <2>2. CASE e # d
    BY <2>2, <1>4, <1>5, <1>9 DEF Owned, TableIsOpen, IsOpen
  <2> QED BY <2>1, <2>2
<1>15. Standing'
  BY <1>2, <1>3, <1>11 DEF Owned, Standing
<1>16. \A p \in Objects : obj[p].fd # NoFd => obj[p].sock # None /\ obj[p].sock \in Sockets
  BY <1>10 DEF Owned, Standing, NoSocket
<1>17. OpenLeads'
  <2> SUFFICES ASSUME NEW p \in Objects, obj'[p].fd # NoFd, kernel'[obj'[p].sock].mode # "closed"
               PROVE  table'[obj'[p].fd] = obj'[p].sock
    BY DEF OpenLeads, IsOpen
  <2>1. CASE p = o
    BY <2>1, <1>2, <1>3, <1>4
  <2>2. CASE p # o
    <3>1. obj'[p] = obj[p] /\ kernel'[obj[p].sock] = kernel[obj[p].sock]
      BY <2>2, <1>3, <1>5, <1>10, <1>16
    <3>2. table[obj[p].fd] = obj[p].sock
      BY <3>1 DEF Owned, OpenLeads, IsOpen
    <3> QED BY <3>1, <3>2, <1>4, <1>10, <1>16
  <2> QED BY <2>1, <2>2
<1>18. SharedAreLoose'
  BY <1>2, <1>3, <1>6, <1>10 DEF Owned, SharedAreLoose
<1>19. ValidIsOwn'
  <2> SUFFICES ASSUME NEW p \in Objects, obj'[p].valid, Stale(p)' PROVE obj'[p].sock \in past'.loose
    BY DEF ValidIsOwn
  <2>1. p # o
    BY <1>2, <1>3, <1>4, <1>11 DEF Stale, At
  <2>2. obj'[p] = obj[p] /\ obj[p].fd # NoFd /\ table'[obj[p].fd] # obj[p].sock
    BY <2>1, <1>3 DEF Stale, At
  <2>3. table[obj[p].fd] # obj[p].sock
    BY <2>2, <1>4, <1>10, <1>16
  <2> QED BY <2>2, <2>3, <1>6 DEF Owned, ValidIsOwn, Stale, At
<1>20. CallsLeakOnlySpares'
  <2> SUFFICES ASSUME NEW e \in Descriptors, table'[e] # None
               PROVE  \/ table'[e] \in past'.spare \cup past'.left
                      \/ \E p \in Objects : obj'[p].valid /\ obj'[p].fd = e /\ obj'[p].sock = table'[e]
    BY DEF CallsLeakOnlySpares
  <2>1. CASE e = d
    BY <2>1, <1>2, <1>3, <1>4
  <2>2. CASE e # d
    <3>1. table'[e] = table[e]
      BY <2>2, <1>4
    <3>2. CASE table[e] \in past.spare \cup past.left
      BY <3>1, <3>2, <1>6
    <3>3. ASSUME NEW p \in Objects, obj[p].valid, obj[p].fd = e, obj[p].sock = table[e]
          PROVE  \/ table'[e] \in past'.spare \cup past'.left
                 \/ \E q \in Objects : obj'[q].valid /\ obj'[q].fd = e /\ obj'[q].sock = table'[e]
      <4>1. CASE p = o
        BY <4>1, <3>1, <3>3, <1>6 DEF NoSocket
      <4>2. CASE p # o
        BY <4>2, <3>1, <3>3, <1>3
      <4> QED BY <4>1, <4>2
    <3> QED BY <3>1, <3>2, <3>3 DEF Owned, CallsLeakOnlySpares
  <2> QED BY <2>1, <2>2
<1>21. WithoutOnlySpares'
  BY <1>2, <1>3, <1>6, <1>11 DEF Owned, WithoutOnlySpares
<1> QED
  BY <1>7, <1>8, <1>12, <1>13, <1>14, <1>15, <1>17, <1>18, <1>19, <1>20, <1>21 DEF Owned

(* close(2) of the descriptor of a valid object. *)
LEMMA ReleasingKeepsOwned ==
  ASSUME Owned, NEW o \in Objects, obj[o].valid, Releases(o),
         NEW L \in SUBSET Sockets, past' = [past EXCEPT !.loose = L],
         past.loose \subseteq L,
         obj' \in {obj, [obj EXCEPT ![o].valid = FALSE]},
         obj' = obj \/ Stale(o) => At(o) \in L
  PROVE  Owned'
<1> DEFINE d == obj[o].fd
           s == At(o)
<1>1. d # NoFd /\ d \in Descriptors /\ s = table[d] /\ s # None /\ s \in Sockets
  BY DEF Releases, At, Owned, OwnedTypes, Handles
<1>2. table'[d] = None /\ \A e \in Descriptors : e # d => table'[e] = table[e]
  BY <1>1 DEF Releases, Owned, OwnedTypes
<1>3. kernel'[s] = Closed /\ \A q \in Sockets : q # s => kernel'[q] = kernel[q]
  BY <1>1 DEF Releases, Owned, OwnedTypes
<1>4. /\ \A p \in Objects : p # o => obj'[p] = obj[p]
      /\ obj'[o].fd = obj[o].fd /\ obj'[o].sock = obj[o].sock
      /\ obj' \in [Objects -> Handles]
  BY DEF Owned, OwnedTypes, Handles
<1>5. /\ past' \in Pasts /\ past'.loose = L /\ past'.spare = past.spare /\ past'.left = past.left
      /\ made' = made
  BY DEF Releases, Owned, OwnedTypes, Pasts
<1>6. \A p \in Objects : /\ obj'[p].fd = obj[p].fd /\ obj'[p].sock = obj[p].sock
                         /\ obj[p].fd \in Descriptors \cup {NoFd}
                         /\ obj[p].sock \in Sockets \cup {None}
                         /\ obj'[p].valid => obj[p].valid
  BY <1>4 DEF Owned, OwnedTypes, Handles
<1>7. OwnedTypes'
  BY <1>1, <1>4, <1>5, ClosedIsKnown DEF Releases, Owned, OwnedTypes
<1>8. OptionsAsAsked'
  BY <1>3, ClosedIsKnown DEF Owned, OptionsAsAsked
<1>9. Numbered'
  <2>1. made \in Nat
    BY DEF Owned, OwnedTypes
  <2> QED BY <2>1, <1>1, <1>2, <1>5, <1>6 DEF Owned, Numbered, None
<1>10. OnePlace'
  BY <1>1, <1>2 DEF Owned, OnePlace
<1>11. TableIsOpen'
  <2> SUFFICES ASSUME NEW e \in Descriptors, table'[e] # None PROVE kernel'[table'[e]].mode # "closed"
    BY DEF TableIsOpen, IsOpen
  <2>1. e # d /\ table'[e] = table[e] /\ table[e] \in Sockets
    BY <1>2 DEF Owned, OwnedTypes
  <2>2. table[e] # s
    BY <2>1, <1>1 DEF Owned, OnePlace
  <2> QED BY <2>1, <2>2, <1>3 DEF Owned, TableIsOpen, IsOpen
<1>12. Standing'
  BY <1>4, <1>6 DEF Owned, Standing, NoSocket
<1>13. \A p \in Objects : obj[p].fd # NoFd => obj[p].sock # None /\ obj[p].sock \in Sockets
  BY <1>6 DEF Owned, Standing, NoSocket
<1>14. OpenLeads'
  <2> SUFFICES ASSUME NEW p \in Objects, obj[p].fd # NoFd, kernel'[obj[p].sock].mode # "closed"
               PROVE  table'[obj[p].fd] = obj[p].sock
    BY <1>6 DEF OpenLeads, IsOpen
  <2>1. obj[p].sock # s /\ kernel[obj[p].sock].mode # "closed"
    BY <1>3, <1>13, ClosedIsKnown
  <2>2. table[obj[p].fd] = obj[p].sock
    BY <2>1 DEF Owned, OpenLeads, IsOpen
  <2> QED BY <2>1, <2>2, <1>1, <1>2, <1>6
<1>15. SharedAreLoose'
  BY <1>5, <1>6 DEF Owned, SharedAreLoose
<1>16. ValidIsOwn'
  <2> SUFFICES ASSUME NEW p \in Objects, obj'[p].valid, Stale(p)' PROVE obj[p].sock \in L
    BY <1>5, <1>6 DEF ValidIsOwn
  <2>1. obj[p].valid /\ obj[p].fd # NoFd /\ table'[obj[p].fd] # obj[p].sock
    BY <1>6 DEF Stale, At
  <2>2. CASE table[obj[p].fd] # obj[p].sock
    BY <2>1, <2>2 DEF Owned, ValidIsOwn, Stale, At
  <2>3. CASE table[obj[p].fd] = obj[p].sock
    <3>1. obj[p].fd = d /\ obj[p].sock = s
      BY <2>1, <2>3, <1>1, <1>2, <1>6
    <3>2. CASE p = o \/ Stale(o)
      <4>1. p = o => obj' = obj
        BY <2>1 DEF Owned, OwnedTypes, Handles
      <4> QED BY <4>1, <3>1, <3>2
    <3>3. CASE p # o /\ ~Stale(o)
      <4>1. obj[o].sock = obj[p].sock
        BY <3>1, <3>3, <1>1 DEF Stale
      <4> QED BY <4>1, <3>1, <3>3, <1>1 DEF Owned, SharedAreLoose
    <3> QED BY <3>2, <3>3
  <2> QED BY <2>2, <2>3
<1>17. CallsLeakOnlySpares'
  <2> SUFFICES ASSUME NEW e \in Descriptors, table'[e] # None
               PROVE  \/ table'[e] \in past'.spare \cup past'.left
                      \/ \E p \in Objects : obj'[p].valid /\ obj'[p].fd = e /\ obj'[p].sock = table'[e]
    BY DEF CallsLeakOnlySpares
  <2>1. e # d /\ table'[e] = table[e]
    BY <1>2
  <2>2. CASE table[e] \in past.spare \cup past.left
    BY <2>1, <2>2, <1>5
  <2>3. ASSUME NEW p \in Objects, obj[p].valid, obj[p].fd = e, obj[p].sock = table[e]
        PROVE  obj'[p].valid /\ obj'[p].fd = e /\ obj'[p].sock = table'[e]
    BY <2>1, <2>3, <1>4
  <2> QED BY <2>1, <2>2, <2>3 DEF Owned, CallsLeakOnlySpares
<1>18. WithoutOnlySpares'
  BY <1>5, <1>6 DEF Owned, WithoutOnlySpares
<1> QED
  BY <1>7, <1>8, <1>9, <1>10, <1>11, <1>12, <1>14, <1>15, <1>16, <1>17, <1>18 DEF Owned

(* A step that neither opens nor closes a socket, at whose end an object   *)
(* that is not valid any more may count as unused. *)
KeepsOpen ==
  /\ kernel' \in [Sockets -> Kernels]
  /\ \A s \in Sockets : AsAsked(kernel'[s]) /\ (kernel'[s].mode = "closed" <=> kernel[s].mode = "closed")

LEMMA TameKeepsOwned ==
  ASSUME Owned, UNCHANGED <<table, made, past>>, KeepsOpen, NEW o,
         obj' \in {obj, [obj EXCEPT ![o] = NoSocket]},
         obj[o].valid => obj' = obj
  PROVE  Owned'
<1>1. /\ NoSocket \in Handles
      /\ ~NoSocket.valid /\ NoSocket.fd = NoFd /\ NoSocket.sock = None
  BY DEF NoSocket, Handles
<1>2. \A p \in Objects : obj'[p] = obj[p] \/ (obj'[p] = NoSocket /\ ~obj[p].valid)
  BY DEF Owned, OwnedTypes
<1>3. OwnedTypes' /\ OptionsAsAsked'
  BY <1>1 DEF Owned, OwnedTypes, KeepsOpen, OptionsAsAsked
<1>4. Numbered' /\ OnePlace' /\ TableIsOpen'
  <2>1. made \in Nat /\ 0 <= made
    BY DEF Owned, OwnedTypes
  <2>2. Numbered'
    BY <2>1, <1>1, <1>2 DEF Owned, Numbered, None
  <2>3. TableIsOpen'
    BY DEF Owned, OwnedTypes, TableIsOpen, IsOpen, KeepsOpen
  <2> QED BY <2>2, <2>3 DEF Owned, OnePlace
<1>5. Standing' /\ SharedAreLoose' /\ WithoutOnlySpares'
  BY <1>1, <1>2 DEF Owned, Standing, SharedAreLoose, WithoutOnlySpares
<1>6. OpenLeads'
  <2> SUFFICES ASSUME NEW p \in Objects, obj'[p].fd # NoFd, kernel'[obj'[p].sock].mode # "closed"
               PROVE  table'[obj'[p].fd] = obj'[p].sock
    BY DEF OpenLeads, IsOpen
  <2>1. obj'[p] = obj[p]
    BY <1>1, <1>2
  <2>2. obj[p].sock \in Sockets
    BY <2>1 DEF Owned, OwnedTypes, Handles, Standing, NoSocket
  <2> QED BY <2>1, <2>2 DEF Owned, OpenLeads, IsOpen, KeepsOpen
<1>7. ValidIsOwn'
  BY <1>1, <1>2 DEF Owned, ValidIsOwn, Stale, At
<1>8. CallsLeakOnlySpares'
  BY <1>2 DEF Owned, CallsLeakOnlySpares
<1> QED
  BY <1>3, <1>4, <1>5, <1>6, <1>7, <1>8 DEF Owned

-----------------------------------------------------------------------------
(* Objects that come and go without a system call. *)
LEMMA CopyKeepsOwned ==
  ASSUME Owned, NEW o \in Objects, NEW p \in Objects, Copy(o, p)
  PROVE  Owned'
<1>1. /\ obj[o].valid /\ obj[p] = NoSocket /\ p # o
      /\ ~NoSocket.valid /\ NoSocket.fd = NoFd /\ NoSocket.sock = None
  BY DEF Copy, Calls, Unused, NoSocket
<1>2. obj[o] # NoSocket /\ obj[o].sock # None /\ obj[o].sock \in Sockets
  BY <1>1 DEF Owned, OwnedTypes, Handles, Standing
<1>3. obj'[p] = obj[o] /\ \A q \in Objects : q # p => obj'[q] = obj[q]
  BY DEF Copy, Owned, OwnedTypes
<1>4. /\ past' \in Pasts /\ past'.loose = past.loose \cup {obj[o].sock}
      /\ past'.spare = past.spare /\ past'.left = past.left
  BY <1>2 DEF Copy, Owned, OwnedTypes, Pasts
<1>5. OwnedTypes' /\ OptionsAsAsked'
  BY <1>4 DEF Copy, kernelVars, Owned, OwnedTypes, OptionsAsAsked
<1>6. UNCHANGED <<table, kernel, made>>
  BY DEF Copy, kernelVars
<1>7. Numbered' /\ OnePlace' /\ TableIsOpen'
  BY <1>3, <1>6 DEF Owned, Numbered, OnePlace, TableIsOpen, IsOpen
<1>8. Standing'
  BY <1>2, <1>3 DEF Owned, Standing
<1>9. OpenLeads'
  BY <1>3, <1>6 DEF Owned, OpenLeads, IsOpen
<1>10. SharedAreLoose'
  <2> SUFFICES ASSUME NEW q \in Objects, NEW r \in Objects, q # r,
                      obj'[q].sock = obj'[r].sock, obj'[q].sock # None
               PROVE  obj'[q].sock \in past'.loose
    BY DEF SharedAreLoose
  <2>1. CASE q = p \/ r = p
    BY <2>1, <1>3, <1>4
  <2>2. CASE q # p /\ r # p
    BY <2>2, <1>3, <1>4 DEF Owned, SharedAreLoose
  <2> QED BY <2>1, <2>2
<1>11. ValidIsOwn'
  BY <1>3, <1>4, <1>6 DEF Owned, ValidIsOwn, Stale, At
<1>12. CallsLeakOnlySpares'
  BY <1>1, <1>3, <1>4, <1>6 DEF Owned, CallsLeakOnlySpares
<1>13. WithoutOnlySpares'
  BY <1>3, <1>4 DEF Owned, WithoutOnlySpares
<1> QED
  BY <1>5, <1>7, <1>8, <1>9, <1>10, <1>11, <1>12, <1>13 DEF Owned

LEMMA EndingKeepsOwned ==
  ASSUME Owned, NEW o \in Objects, EndsScope(o)
  PROVE  Owned'
<1>1. /\ obj[o].valid /\ NoSocket \in Handles
      /\ ~NoSocket.valid /\ NoSocket.fd = NoFd /\ NoSocket.sock = None
  BY DEF EndsScope, Calls, NoSocket, Handles
<1>2. obj[o].sock # None /\ obj[o].sock \in Sockets
  BY <1>1 DEF Owned, OwnedTypes, Handles, Standing
<1>3. obj'[o] = NoSocket /\ \A q \in Objects : q # o => obj'[q] = obj[q]
  BY DEF EndsScope, Owned, OwnedTypes
<1>4. /\ past' \in Pasts /\ past'.loose = past.loose /\ past'.spare = past.spare
      /\ past.left \subseteq past'.left
      /\ LastOfItsSocket(o) => obj[o].sock \in past'.left
  BY <1>2 DEF EndsScope, Owned, OwnedTypes, Pasts
<1>5. UNCHANGED <<table, kernel, made>>
  BY DEF EndsScope, kernelVars
<1>6. OwnedTypes' /\ OptionsAsAsked'
  BY <1>1, <1>4, <1>5 DEF EndsScope, Owned, OwnedTypes, OptionsAsAsked
<1>7. Numbered' /\ OnePlace' /\ TableIsOpen'
  <2>1. made \in Nat /\ 0 <= made
    BY DEF Owned, OwnedTypes
  <2> QED BY <2>1, <1>1, <1>3, <1>5 DEF Owned, Numbered, OnePlace, TableIsOpen, IsOpen, None
<1>8. Standing' /\ SharedAreLoose' /\ WithoutOnlySpares'
  BY <1>1, <1>3, <1>4 DEF Owned, Standing, SharedAreLoose, WithoutOnlySpares
<1>9. OpenLeads'
  BY <1>1, <1>3, <1>5 DEF Owned, OpenLeads, IsOpen
<1>10. ValidIsOwn'
  BY <1>1, <1>3, <1>4, <1>5 DEF Owned, ValidIsOwn, Stale, At
<1>11. CallsLeakOnlySpares'
  <2> SUFFICES ASSUME NEW e \in Descriptors, table[e] # None,
                      table[e] \notin past.spare, table[e] \notin past'.left
               PROVE  \E p \in Objects : obj'[p].valid /\ obj'[p].fd = e /\ obj'[p].sock = table[e]
    BY <1>4, <1>5 DEF CallsLeakOnlySpares
  <2>1. PICK q \in Objects : obj[q].valid /\ obj[q].fd = e /\ obj[q].sock = table[e]
    BY <1>4 DEF Owned, CallsLeakOnlySpares
  <2>2. CASE q # o
    BY <2>1, <2>2, <1>3
  <2>3. CASE q = o
    <3>1. PICK p \in Objects : p # o /\ obj[p].valid /\ obj[p].sock = table[e]
      BY <2>1, <2>3, <1>4 DEF LastOfItsSocket
    <3>2. obj[p].fd # NoFd
      BY <3>1 DEF Owned, WithoutOnlySpares
    <3>3. table[obj[p].fd] = table[e] /\ obj[p].fd \in Descriptors
      BY <3>1, <3>2 DEF Owned, OwnedTypes, Handles, OpenLeads, TableIsOpen
    <3>4. obj[p].fd = e
      BY <3>3 DEF Owned, OnePlace
    <3> QED BY <3>1, <3>4, <1>3
  <2> QED BY <2>2, <2>3
<1> QED
  BY <1>6, <1>7, <1>8, <1>9, <1>10, <1>11 DEF Owned

LEMMA FailedAcceptKeepsOwned ==
  ASSUME Owned, NEW o \in Objects, obj[o] = NoSocket \/ obj[o].sock \in past.spare,
         obj' = [obj EXCEPT ![o].fd = NoFd], UNCHANGED <<table, kernel, made, past>>
  PROVE  Owned'
<1>1. /\ \A q \in Objects : q # o => obj'[q] = obj[q]
      /\ obj'[o].fd = NoFd /\ obj'[o].sock = obj[o].sock /\ obj'[o].valid = obj[o].valid
      /\ obj' \in [Objects -> Handles]
  BY DEF Owned, OwnedTypes, Handles
<1>2. obj[o] = NoSocket => obj'[o] = NoSocket
  <2> DEFINE h == obj'[o]
  <2>1. h = [valid |-> h.valid, fd |-> h.fd, sock |-> h.sock]
    BY <1>1 DEF Handles
  <2> QED BY <2>1, <1>1 DEF NoSocket
<1>3. OwnedTypes' /\ OptionsAsAsked'
  BY <1>1 DEF Owned, OwnedTypes, OptionsAsAsked
<1>4. Numbered' /\ OnePlace' /\ TableIsOpen'
  BY <1>1 DEF Owned, Numbered, OnePlace, TableIsOpen, IsOpen
<1>5. Standing' /\ SharedAreLoose'
  BY <1>1, <1>2 DEF Owned, Standing, SharedAreLoose
<1>6. WithoutOnlySpares'
  BY <1>1 DEF Owned, WithoutOnlySpares, NoSocket
<1>7. OpenLeads'
  BY <1>1 DEF Owned, OpenLeads, IsOpen
<1>8. ValidIsOwn'
  BY <1>1 DEF Owned, ValidIsOwn, Stale, At
<1>9. CallsLeakOnlySpares'
  BY <1>1 DEF Owned, CallsLeakOnlySpares, NoSocket
<1> QED
  BY <1>3, <1>4, <1>5, <1>6, <1>7, <1>8, <1>9 DEF Owned

-----------------------------------------------------------------------------
(* What calls do to the sockets that they leave open. *)
Apart(o) == \A s \in Sockets : s # At(o) => kernel'[s] = kernel[s]

LEMMA WhereObjectsLead ==
  ASSUME Owned, NEW o \in Objects, At(o) # None
  PROVE  /\ obj[o].fd \in Descriptors /\ At(o) = table[obj[o].fd] /\ At(o) \in Sockets
         /\ kernel[At(o)] \in Kernels /\ AsAsked(kernel[At(o)])
<1>1. obj[o].fd \in Descriptors /\ At(o) = table[obj[o].fd]
  BY DEF At, Owned, OwnedTypes, Handles
<1>2. At(o) \in Sockets
  BY <1>1 DEF Owned, OwnedTypes
<1> QED
  BY <1>1, <1>2 DEF Owned, OwnedTypes, OptionsAsAsked

LEMMA OneSocketChanges ==
  ASSUME Owned, NEW o \in Objects, At(o) # None, NEW k \in Kernels, AsAsked(k),
         k.mode = "closed" <=> kernel[At(o)].mode = "closed",
         kernel' = [kernel EXCEPT ![At(o)] = k]
  PROVE  KeepsOpen /\ Apart(o)
<1>1. /\ At(o) \in Sockets /\ kernel'[At(o)] = k
      /\ \A s \in Sockets : s # At(o) => kernel'[s] = kernel[s]
      /\ kernel' \in [Sockets -> Kernels]
  BY WhereObjectsLead DEF Owned, OwnedTypes
<1> QED
  BY <1>1 DEF KeepsOpen, Apart, Owned, OptionsAsAsked

LEMMA NoSocketChanges ==
  ASSUME Owned, UNCHANGED kernel
  PROVE  KeepsOpen /\ \A o \in Objects : Apart(o)
BY DEF KeepsOpen, Apart, Owned, OwnedTypes, OptionsAsAsked

LEMMA TakingKeepsOpen ==
  ASSUME Owned, NEW o \in Objects, NEW told, TakesError(o, told)
  PROVE  KeepsOpen /\ Apart(o)
<1>1. CASE Pending(o)
  <2> DEFINE k == [kernel[At(o)] EXCEPT !.error = FALSE]
  <2>1. At(o) # None /\ kernel[At(o)] \in Kernels /\ AsAsked(kernel[At(o)]) /\ At(o) \in Sockets
    BY <1>1, WhereObjectsLead DEF Pending
  <2>2. k \in Kernels /\ AsAsked(k) /\ k.mode = kernel[At(o)].mode
    BY <2>1 DEF Kernels, AsAsked
  <2>3. kernel' = [kernel EXCEPT ![At(o)] = k]
    BY <1>1, <2>1 DEF TakesError, Owned, OwnedTypes
  <2> HIDE DEF k
  <2> QED BY <2>1, <2>2, <2>3, OneSocketChanges
<1>2. CASE ~Pending(o)
  BY <1>2, NoSocketChanges DEF TakesError
<1> QED BY <1>1, <1>2

LEMMA BecomingKeepsOpen ==
  ASSUME Owned, NEW o \in Objects, NEW m \in Modes, m # "closed", Mode(o) # "closed", Becomes(o, m)
  PROVE  KeepsOpen /\ Apart(o) /\ \A s \in Sockets : kernel'[s].error = kernel[s].error
<1> DEFINE k == [kernel[At(o)] EXCEPT !.mode = m]
<1>1. /\ At(o) # None /\ kernel[At(o)] \in Kernels /\ AsAsked(kernel[At(o)]) /\ At(o) \in Sockets
      /\ kernel[At(o)].mode # "closed"
  BY WhereObjectsLead DEF Mode
<1>2. k \in Kernels /\ AsAsked(k) /\ k.mode = m /\ k.error = kernel[At(o)].error
  BY <1>1 DEF Kernels, AsAsked
<1>3. kernel' = [kernel EXCEPT ![At(o)] = k]
  BY <1>1 DEF Becomes, Owned, OwnedTypes
<1> HIDE DEF k
<1>4. KeepsOpen /\ Apart(o)
  BY <1>1, <1>2, <1>3, OneSocketChanges
<1>5. \A s \in Sockets : kernel'[s].error = kernel[s].error
  BY <1>1, <1>2, <1>3 DEF Owned, OwnedTypes
<1> QED BY <1>4, <1>5

LEMMA SettingKeepsOpen ==
  ASSUME Owned, NEW o \in Objects, NEW r \in Requests, SetOption(o, r[1], r[2])
  PROVE  KeepsOpen /\ Apart(o) /\ \A s \in Sockets : kernel'[s].error = kernel[s].error
<1> DEFINE n == r[1]
           v == r[2]
           k == [kernel[At(o)] EXCEPT !.option[n] = Stored(n, v), !.asked[n] = v]
<1>1. /\ At(o) # None /\ At(o) \in Sockets
      /\ kernel[At(o)] \in Kernels /\ AsAsked(kernel[At(o)])
  BY WhereObjectsLead DEF SetOption
<1>2. Legal(n, v) /\ n \in Options /\ v \in Int /\ Stored(n, v) \in StoredValues
  BY RequestAssumption DEF Legal, StoredValues
<1>3. /\ k \in Kernels /\ k.mode = kernel[At(o)].mode /\ k.error = kernel[At(o)].error
      /\ k.asked = [kernel[At(o)].asked EXCEPT ![n] = v]
      /\ k.option = [kernel[At(o)].option EXCEPT ![n] = Stored(n, v)]
  BY <1>1, <1>2 DEF Kernels
<1>4. AsAsked(k)
  BY <1>1, <1>2, <1>3 DEF AsAsked, Kernels
<1>5. kernel' = [kernel EXCEPT ![At(o)] = k]
  BY <1>1 DEF SetOption, Owned, OwnedTypes
<1> HIDE DEF k
<1>6. KeepsOpen /\ Apart(o)
  BY <1>1, <1>3, <1>4, <1>5, OneSocketChanges
<1>7. \A s \in Sockets : kernel'[s].error = kernel[s].error
  BY <1>1, <1>3, <1>5 DEF Owned, OwnedTypes
<1> QED BY <1>6, <1>7

(* The calls that take no error, and those that do. *)
Quiet(o) == result'.told = NoError /\ \A s \in Sockets : kernel'[s].error = kernel[s].error

LEMMA CallsKeepOpen ==
  ASSUME Owned, NEW o \in Objects, CallOn(o)
  PROVE  /\ KeepsOpen /\ Apart(o)
         /\ Quiet(o) \/ TakesError(o, NoError) \/ (ExactErr(o) /\ TakesError(o, At(o)))
<1> USE DEF Quiet, NoResult
<1>0. {"fresh", "listening", "connected"} \subseteq Modes
  BY DEF Modes
<1>1. CASE Connect(o)
  <2>1. Becomes(o, "connected") /\ Mode(o) # "closed" /\ result' = NoResult
    BY <1>1 DEF Connect
  <2> QED BY <1>0, <2>1, BecomingKeepsOpen
<1>2. CASE Listen(o)
  <2>1. CASE UNCHANGED kernel
    BY <1>2, <2>1, NoSocketChanges DEF Listen
  <2>2. CASE Mode(o) # "closed" /\ Becomes(o, "listening")
    BY <1>0, <1>2, <2>2, BecomingKeepsOpen DEF Listen
  <2> QED BY <1>2, <2>1, <2>2 DEF Listen
<1>3. CASE Shutdown(o)
  <2>1. CASE UNCHANGED kernel
    BY <1>3, <2>1, NoSocketChanges DEF Shutdown
  <2>2. CASE Mode(o) # "closed" /\ Becomes(o, "fresh")
    BY <1>0, <1>3, <2>2, BecomingKeepsOpen DEF Shutdown
  <2> QED BY <1>3, <2>1, <2>2 DEF Shutdown
<1>4. CASE WriteFails(o) \/ ReadsomeFails(o)
  BY <1>4, TakingKeepsOpen DEF WriteFails, ReadsomeFails
<1>5. CASE ExactErr(o)
  BY <1>5, TakingKeepsOpen DEF ExactErr
<1>6. ASSUME NEW r \in Requests, SetOption(o, r[1], r[2])
      PROVE  KeepsOpen /\ Apart(o) /\ Quiet(o)
  BY <1>6, SettingKeepsOpen DEF SetOption
<1>7. CASE \/ ConnectFails(o) \/ Bind(o) \/ Write(o) \/ Readsome(o)
           \/ Select(o) \/ Readable(o) \/ Await(o) \/ HasError(o)
           \/ SetOptionFails(o) \/ GetOption(o) \/ GetOptionFails(o)
  <2>1. UNCHANGED kernel /\ result' = NoResult
    BY <1>7 DEF ConnectFails, Bind, Write, Readsome, Select, Readable, Await, HasError, Selects,
                SetOptionFails, GetOption, GetOptionFails
  <2> QED BY <2>1, NoSocketChanges
<1> QED
  BY <1>1, <1>2, <1>3, <1>4, <1>5, <1>6, <1>7 DEF CallOn

LEMMA ResetKeepsOpen ==
  ASSUME Owned, NEW s \in Sockets, ErrorArrives(s)
  PROVE  KeepsOpen
<1> DEFINE k == [kernel[s] EXCEPT !.mode = "reset", !.error = TRUE]
<1>1. kernel[s] \in Kernels /\ AsAsked(kernel[s]) /\ "reset" \in Modes
  BY DEF Owned, OwnedTypes, OptionsAsAsked, Modes
<1>2. k \in Kernels /\ AsAsked(k) /\ k.mode = "reset"
  BY <1>1, FreshIsKnown
<1>3. kernel' = [kernel EXCEPT ![s] = k]
  BY <1>1 DEF ErrorArrives, Owned, OwnedTypes
<1> HIDE DEF k
<1>4. /\ kernel'[s] = k /\ kernel' \in [Sockets -> Kernels]
      /\ \A q \in Sockets : q # s => kernel'[q] = kernel[q]
  BY <1>2, <1>3 DEF Owned, OwnedTypes
<1>5. kernel[s].mode # "closed"
  BY DEF ErrorArrives
<1> QED
  BY <1>2, <1>4, <1>5 DEF KeepsOpen, Owned, OptionsAsAsked

-----------------------------------------------------------------------------
(* Callers stay as they are.  One lemma is for the thread whose call begins,*)
(* goes on or ends, one for the steps in which no call does.               *)
LEMMA OneCallerMoves ==
  ASSUME Callers, NEW t \in Threads, NEW c \in Calling, call' = [call EXCEPT ![t] = c],
         past.spare \subseteq past'.spare,
         \A o \in Objects : ThreadOf[o] # t => obj'[o] = obj[o],
         AskerFits(t)', AccepterFits(t)'
  PROVE  Callers'
<1>1. call' \in [Threads -> Calling] /\ \A u \in Threads : u # t => call'[u] = call[u]
  BY DEF Callers
<1>2. ASSUME NEW u \in Threads PROVE AskerFits(u)' /\ AccepterFits(u)'
  <2>1. CASE u = t
    BY <2>1
  <2>2. CASE u # t
    <3>1. AskerFits(u) /\ AccepterFits(u) /\ call'[u] = call[u]
      BY <2>2, <1>1 DEF Callers
    <3>2. \A o \in Objects : ThreadOf[o] = u => obj'[o] = obj[o]
      BY <2>2
    <3> QED BY <3>1, <3>2 DEF AskerFits, AccepterFits
  <2> QED BY <2>1, <2>2
<1> QED BY <1>1, <1>2 DEF Callers

LEMMA NoCallerMoves ==
  ASSUME Callers, UNCHANGED call, past.spare \subseteq past'.spare,
         \A o \in Objects : obj'[o] = obj[o] \/ Idle(o)
  PROVE  Callers'
<1>1. \A t \in Threads : call[t].at # "idle" =>
        \A o \in Objects : ThreadOf[o] = t => obj'[o] = obj[o]
  BY DEF Idle, NoCall
<1>2. ASSUME NEW t \in Threads PROVE AskerFits(t)' /\ AccepterFits(t)'
  BY <1>1 DEF Callers, AskerFits, AccepterFits, Asking
<1> QED BY <1>2 DEF Callers

(* A call that goes on to exact_err, or ends. *)
LEMMA OwnCallMoves ==
  ASSUME Callers, NEW o \in Objects, Returns(o) \/ \E at \in Asking : GoesOn(o, at),
         past.spare \subseteq past'.spare,
         \A p \in Objects : ThreadOf[p] # ThreadOf[o] => obj'[p] = obj[p],
         Returns(o) \/ (obj'[o] # NoSocket /\ (obj'[o].valid \/ GoesOn(o, "asking")))
  PROVE  Callers'
<1> DEFINE t == ThreadOf[o]
<1>1. t \in Threads
  BY ThreadAssumption
<1>3. CASE Returns(o)
  <2>1. NoCall \in Calling /\ NoCall.at = "idle"
    BY DEF NoCall, Calling
  <2>2. call'[t] = NoCall
    BY <1>1, <1>3 DEF Returns, Callers
  <2>3. AskerFits(t)' /\ AccepterFits(t)'
    BY <2>1, <2>2 DEF AskerFits, AccepterFits, Asking
  <2> QED BY <1>1, <1>3, <2>1, <2>3, OneCallerMoves DEF Returns
<1>4. ASSUME NEW at \in Asking, GoesOn(o, at), ~Returns(o)
      PROVE  Callers'
  <2> DEFINE c == [at |-> at, obj |-> o, into |-> None]
  <2>1. c \in Calling /\ c.at = at /\ c.obj = o
    BY DEF Calling
  <2>2. call'[t] = c /\ call' = [call EXCEPT ![t] = c]
    BY <1>1, <1>4 DEF GoesOn, Callers
  <2>3. GoesOn(o, "asking") => at = "asking"
    <3>1. GoesOn(o, "asking") => call'[t].at = "asking"
      BY <1>1 DEF GoesOn, Callers
    <3> QED BY <3>1, <2>1, <2>2
  <2>4. AskerFits(t)' /\ AccepterFits(t)'
    BY <2>1, <2>2, <2>3, <1>4 DEF AskerFits, AccepterFits, Asking
  <2> HIDE DEF c
  <2> QED BY <1>1, <2>1, <2>2, <2>4, OneCallerMoves
<1> QED BY <1>3, <1>4

LEMMA CallsEndOrAsk ==
  ASSUME NEW o \in Objects, CallOn(o)
  PROVE  /\ obj[o].valid /\ call[ThreadOf[o]] = NoCall
         /\ UNCHANGED <<table, made, obj, past>>
         /\ Returns(o) \/ \E at \in Asking : GoesOn(o, at)
<1>1. {"asking", "askingTwice", "askingInVain"} \subseteq Asking
  BY DEF Asking
<1>2. CASE \/ Connect(o) \/ ConnectFails(o) \/ Bind(o) \/ Listen(o) \/ Shutdown(o)
           \/ Write(o) \/ WriteFails(o) \/ Readsome(o) \/ ReadsomeFails(o)
  BY <1>1, <1>2 DEF CallOn, Calls, Idle, Connect, ConnectFails, Bind, Listen, Shutdown, Write,
                    WriteFails, Readsome, ReadsomeFails
<1>3. CASE \/ Select(o) \/ Readable(o) \/ Await(o) \/ HasError(o)
           \/ \E r \in Requests : SetOption(o, r[1], r[2])
           \/ SetOptionFails(o) \/ GetOption(o) \/ GetOptionFails(o) \/ ExactErr(o)
  BY <1>1, <1>3 DEF CallOn, Calls, Idle, Select, Readable, Await, HasError, SetOption,
                    SetOptionFails, GetOption, GetOptionFails, ExactErr
<1> QED BY <1>2, <1>3 DEF CallOn, Calls, Idle

-----------------------------------------------------------------------------
(* One lemma for each of the actions that change objects or descriptors.   *)
LEMMA CreateKeeps ==
  ASSUME HandleInv, NEW o \in Objects, Create(o)
  PROVE  HandleInv'
<1>1. PICK d \in Descriptors : Opens(d, Fresh) /\ obj' = [obj EXCEPT ![o] = NewSocket(d)]
  BY DEF Create
<1>2. Fresh \in Kernels /\ AsAsked(Fresh) /\ Fresh.mode # "closed"
  BY ClosedIsKnown DEF Fresh, Kernels, AsAsked, Modes
<1>3. Owned'
  BY <1>1, <1>2, OpeningKeepsOwned DEF HandleInv, Create, Unused
<1>4. \A p \in Objects : obj'[p] = obj[p] \/ Idle(p)
  BY <1>1 DEF Create, Unused, HandleInv, Owned, OwnedTypes
<1>5. Callers'
  BY <1>4, NoCallerMoves DEF Create, HandleInv
<1> QED BY <1>3, <1>5 DEF HandleInv

LEMMA CopyKeeps ==
  ASSUME HandleInv, NEW o \in Objects, NEW p \in Objects, Copy(o, p)
  PROVE  HandleInv'
<1>1. Owned'
  BY CopyKeepsOwned DEF HandleInv
<1>2. \A q \in Objects : obj'[q] = obj[q] \/ Idle(q)
  BY DEF Copy, Unused, HandleInv, Owned, OwnedTypes
<1>3. past.spare \subseteq past'.spare
  BY DEF Copy, HandleInv, Owned, OwnedTypes, Pasts
<1>4. Callers'
  BY <1>2, <1>3, NoCallerMoves DEF Copy, HandleInv
<1> QED BY <1>1, <1>4 DEF HandleInv

LEMMA EndsScopeKeeps ==
  ASSUME HandleInv, NEW o \in Objects, EndsScope(o)
  PROVE  HandleInv'
<1>1. Owned'
  BY EndingKeepsOwned DEF HandleInv
<1>2. \A q \in Objects : obj'[q] = obj[q] \/ Idle(q)
  BY DEF EndsScope, Calls, HandleInv, Owned, OwnedTypes
<1>3. past.spare \subseteq past'.spare
  BY DEF EndsScope, HandleInv, Owned, OwnedTypes, Pasts
<1>4. Callers'
  BY <1>2, <1>3, NoCallerMoves DEF EndsScope, HandleInv
<1> QED BY <1>1, <1>4 DEF HandleInv

LEMMA AcceptBeginsKeeps ==
  ASSUME HandleInv, NEW o \in Objects, NEW p \in Objects, AcceptBegins(o, p)
  PROVE  HandleInv'
<1> DEFINE t == ThreadOf[o]
           c == [at |-> "accepting", obj |-> o, into |-> p]
<1>1. /\ t \in Threads /\ ThreadOf[p] = t /\ obj[o].valid /\ obj[p] = NoSocket /\ p # o
      /\ c \in Calling /\ c.at = "accepting" /\ c.obj = o /\ c.into = p
  BY ThreadAssumption DEF AcceptBegins, Calls, Unused, NoSocket, Calling
<1>2. call'[t] = c /\ call' = [call EXCEPT ![t] = c]
  BY <1>1 DEF AcceptBegins, HandleInv, Callers
<1> HIDE DEF c
<1>3. ASSUME NEW d \in Descriptors, Opens(d, Fresh), obj' = [obj EXCEPT ![p] = NewSocket(d)],
             past' = [past EXCEPT !.spare = @ \cup {made + 1}]
      PROVE  HandleInv'
  <2>1. Fresh \in Kernels /\ AsAsked(Fresh) /\ Fresh.mode # "closed"
    BY ClosedIsKnown DEF Fresh, Kernels, AsAsked, Modes
  <2>2. Owned'
    BY <1>1, <1>3, <2>1, OpeningKeepsOwned DEF HandleInv
  <2>3. past'.spare = past.spare \cup {made + 1}
    BY <1>3 DEF HandleInv, Owned, OwnedTypes, Pasts
  <2>4. obj'[p] = NewSocket(d) /\ \A q \in Objects : q # p => obj'[q] = obj[q]
    BY <1>3 DEF HandleInv, Owned, OwnedTypes
  <2>5. NewSocket(d).valid /\ NewSocket(d).sock = made + 1
    BY DEF NewSocket
  <2>6. AskerFits(t)' /\ AccepterFits(t)'
    BY <1>1, <1>2, <2>3, <2>4, <2>5 DEF AskerFits, AccepterFits, Asking
  <2>7. Callers'
    BY <1>1, <1>2, <2>3, <2>4, <2>6, OneCallerMoves DEF HandleInv
  <2> QED BY <2>2, <2>7 DEF HandleInv
<1>4. CASE UNCHANGED <<kernelVars, obj, past>>
  <2>1. Owned'
    BY <1>4, NoSocketChanges, TameKeepsOwned DEF HandleInv, kernelVars
  <2>2. AskerFits(t)' /\ AccepterFits(t)'
    BY <1>1, <1>2, <1>4 DEF AskerFits, AccepterFits, Asking
  <2>3. Callers'
    BY <1>1, <1>2, <1>4, <2>2, OneCallerMoves DEF HandleInv
  <2> QED BY <2>1, <2>3 DEF HandleInv
<1> QED BY <1>3, <1>4 DEF AcceptBegins

LEMMA AcceptEndsKeep ==
  ASSUME HandleInv, NEW t \in Threads, Accepts(t) \/ AcceptFails(t)
  PROVE  HandleInv'
<1> DEFINE o == call[t].obj
           p == call[t].into
<1>1. /\ o \in Objects /\ ThreadOf[o] = t /\ obj[o].valid
      /\ p \in Objects /\ ThreadOf[p] = t /\ p # o
      /\ obj[p] = NoSocket \/ obj[p].sock \in past.spare
  BY DEF Accepts, AcceptFails, HandleInv, Callers, AccepterFits
<1>2. \E x : obj' = [obj EXCEPT ![p] = x]
  BY DEF Accepts, AcceptFails
<1>3. /\ GoesOn(o, "asking") /\ past' = past /\ obj'[o] = obj[o] /\ "asking" \in Asking
      /\ \A q \in Objects : ThreadOf[q] # t => obj'[q] = obj[q]
  BY <1>1, <1>2 DEF Accepts, AcceptFails, Asking, HandleInv, Owned, OwnedTypes
<1>4. obj'[o].valid /\ obj'[o] # NoSocket
  BY <1>1, <1>3 DEF NoSocket
<1>5. Callers'
  <2>1. past.spare \subseteq past'.spare
    BY <1>3 DEF HandleInv, Owned, OwnedTypes, Pasts
  <2> QED BY <1>1, <1>3, <1>4, <2>1, OwnCallMoves DEF HandleInv
<1>6. CASE Accepts(t)
  <2>1. PICK d \in Descriptors, like \in {kernel[At(o)], Fresh} :
          /\ Opens(d, [like EXCEPT !.mode = "connected", !.error = FALSE])
          /\ obj' = [obj EXCEPT ![p] = NewSocket(d)]
    BY <1>6 DEF Accepts
  <2> DEFINE k == [like EXCEPT !.mode = "connected", !.error = FALSE]
  <2>2. Fresh \in Kernels /\ AsAsked(Fresh)
    BY ClosedIsKnown DEF Fresh, Kernels, AsAsked, Modes
  <2>3. kernel[At(o)] \in Kernels /\ AsAsked(kernel[At(o)])
    BY <1>1, <1>6, WhereObjectsLead DEF Accepts, Mode, HandleInv
  <2>4. k \in Kernels /\ AsAsked(k) /\ k.mode = "connected"
    BY <2>2, <2>3, FreshIsKnown DEF Modes
  <2>5. Opens(d, k)
    BY <2>1
  <2> HIDE DEF k
  <2>6. Owned'
    BY <1>1, <1>3, <2>1, <2>4, <2>5, OpeningKeepsOwned DEF HandleInv
  <2> QED BY <1>5, <2>6 DEF HandleInv
<1>7. CASE AcceptFails(t)
  <2>1. Owned'
    BY <1>1, <1>7, FailedAcceptKeepsOwned DEF AcceptFails, kernelVars, HandleInv
  <2> QED BY <1>5, <2>1 DEF HandleInv
<1> QED BY <1>6, <1>7

LEMMA CloseKeeps ==
  ASSUME HandleInv, NEW o \in Objects, Close(o) \/ CloseFails(o)
  PROVE  HandleInv'
<1>1. /\ obj[o].valid /\ GoesOn(o, "asking") /\ "asking" \in Asking
      /\ obj[o].sock # None
  BY DEF Close, CloseFails, Calls, Asking, HandleInv, Owned, Standing, NoSocket
<1>2. /\ obj' \in {obj, [obj EXCEPT ![o].valid = FALSE]}
      /\ past' = [past EXCEPT !.loose = past'.loose]
      /\ past.spare \subseteq past'.spare
      /\ \A p \in Objects : ThreadOf[p] # ThreadOf[o] => obj'[p] = obj[p]
      /\ obj'[o].sock = obj[o].sock
  BY DEF Close, CloseFails, HandleInv, Owned, OwnedTypes, Handles, Pasts
<1>3. obj'[o] # NoSocket
  BY <1>1, <1>2 DEF NoSocket
<1>4. Callers'
  BY <1>1, <1>2, <1>3, OwnCallMoves DEF HandleInv
<1>5. CASE At(o) = None
  <2>1. UNCHANGED <<table, kernel, made, obj, past>>
    BY <1>5 DEF Close, CloseFails, Releases, kernelVars
  <2>2. Owned'
    BY <2>1, NoSocketChanges, TameKeepsOwned DEF HandleInv
  <2> QED BY <1>4, <2>2 DEF HandleInv
<1>6. CASE At(o) # None
  <2> DEFINE L == past'.loose
  <2>0. At(o) \in Sockets /\ past.loose \in SUBSET Sockets
    BY <1>6, WhereObjectsLead DEF HandleInv, Owned, OwnedTypes, Pasts
  <2>1. CASE Close(o)
    <3>1. L = IF Stale(o) THEN past.loose \cup {At(o)} ELSE past.loose
      BY <2>1 DEF Close, HandleInv, Owned, OwnedTypes, Pasts
    <3>2. obj' # obj
      BY <1>1, <2>1 DEF Close, HandleInv, Owned, OwnedTypes, Handles
    <3>3. L \in SUBSET Sockets /\ past.loose \subseteq L /\ (obj' = obj \/ Stale(o) => At(o) \in L)
      BY <2>0, <3>1, <3>2
    <3>4. Releases(o)
      BY <2>1 DEF Close
    <3> HIDE DEF L
    <3>5. past' = [past EXCEPT !.loose = L]
      BY <1>2 DEF L
    <3> QED BY <1>1, <1>2, <1>4, <3>3, <3>4, <3>5, ReleasingKeepsOwned DEF HandleInv
  <2>2. CASE CloseFails(o)
    <3>1. L = past.loose \cup {At(o)} /\ Releases(o)
      BY <1>6, <2>2 DEF CloseFails, HandleInv, Owned, OwnedTypes, Pasts
    <3>2. L \in SUBSET Sockets /\ past.loose \subseteq L /\ At(o) \in L
      BY <2>0, <3>1
    <3> HIDE DEF L
    <3>3. past' = [past EXCEPT !.loose = L]
      BY <1>2 DEF L
    <3> QED BY <1>1, <1>2, <1>4, <3>1, <3>2, <3>3, ReleasingKeepsOwned DEF HandleInv
  <2> QED BY <2>1, <2>2
<1> QED BY <1>5, <1>6

LEMMA AsksForErrorKeeps ==
  ASSUME HandleInv, NEW t \in Threads, AsksForError(t)
  PROVE  HandleInv'
<1> DEFINE o == call[t].obj
<1>1. /\ o \in Objects /\ ThreadOf[o] = t /\ obj[o] # NoSocket
      /\ ~obj[o].valid => call[t].at = "asking"
  BY DEF AsksForError, HandleInv, Callers, AskerFits
<1>2. \E told : TakesError(o, told)
  BY DEF AsksForError
<1>3. KeepsOpen
  BY <1>1, <1>2, TakingKeepsOpen DEF HandleInv
<1>4. UNCHANGED <<table, made, past>> /\ obj' = [obj EXCEPT ![o] = IF @.valid THEN @ ELSE NoSocket]
  BY DEF AsksForError
<1>5. /\ obj[o].valid => obj' = obj
      /\ obj' \in {obj, [obj EXCEPT ![o] = NoSocket]}
      /\ \A p \in Objects : p # o => obj'[p] = obj[p]
  BY <1>1, <1>4 DEF HandleInv, Owned, OwnedTypes
<1>6. Owned'
  <2> HIDE DEF o
  <2>1. UNCHANGED <<table, made, past>> /\ Owned
    BY <1>4 DEF HandleInv
  <2> QED BY <1>3, <1>5, <2>1, TameKeepsOwned
<1>7. Callers'
  <2>1. past.spare \subseteq past'.spare
    BY <1>4 DEF HandleInv, Owned, OwnedTypes, Pasts
  <2>2. \A p \in Objects : ThreadOf[p] # ThreadOf[o] => obj'[p] = obj[p]
    BY <1>1, <1>5
  <2>3. CASE call[t].at = "askingTwice"
    <3>1. GoesOn(o, "askingInVain") /\ "askingInVain" \in Asking
      BY <2>3 DEF AsksForError, Asking
    <3>2. obj'[o] = obj[o] /\ obj[o].valid
      BY <1>1, <1>5, <2>3
    <3> QED BY <1>1, <2>1, <2>2, <3>1, <3>2, OwnCallMoves DEF HandleInv
  <2>4. CASE call[t].at # "askingTwice"
    <3>1. Returns(o)
      BY <2>4 DEF AsksForError
    <3> QED BY <1>1, <2>1, <2>2, <3>1, OwnCallMoves DEF HandleInv
  <2> QED BY <2>3, <2>4
<1> QED BY <1>6, <1>7 DEF HandleInv

LEMMA CallOnKeeps ==
  ASSUME HandleInv, NEW o \in Objects, CallOn(o)
  PROVE  HandleInv'
<1>1. /\ obj[o].valid /\ UNCHANGED <<table, made, obj, past>>
      /\ Returns(o) \/ \E at \in Asking : GoesOn(o, at)
  BY CallsEndOrAsk
<1>2. KeepsOpen
  BY CallsKeepOpen DEF HandleInv
<1>3. Owned'
  BY <1>1, <1>2, TameKeepsOwned DEF HandleInv
<1>4. past.spare \subseteq past'.spare
  BY <1>1 DEF HandleInv, Owned, OwnedTypes, Pasts
<1>5. Callers'
  BY <1>1, <1>4, OwnCallMoves DEF HandleInv, NoSocket
<1> QED BY <1>3, <1>5 DEF HandleInv

LEMMA StepKeepsHandleInv == HandleInv /\ [Next]_vars => HandleInv'
<1> SUFFICES ASSUME HandleInv, [Next]_vars PROVE HandleInv'
  OBVIOUS
<1>1. ASSUME NEW o \in Objects, CreateFails(o) PROVE HandleInv'
  <2>1. UNCHANGED <<table, kernel, made, obj, call, past>>
    BY <1>1 DEF CreateFails, kernelVars
  <2>2. Owned'
    BY <2>1, NoSocketChanges, TameKeepsOwned DEF HandleInv
  <2> QED BY <2>1, <2>2, NoCallerMoves DEF HandleInv
<1>2. ASSUME NEW s \in Sockets, ErrorArrives(s) PROVE HandleInv'
  <2>1. UNCHANGED <<table, made, obj, call, past>> /\ KeepsOpen
    BY <1>2, ResetKeepsOpen DEF ErrorArrives, HandleInv
  <2>2. Callers'
    BY <2>1, NoCallerMoves DEF HandleInv
  <2> QED BY <2>1, <2>2, TameKeepsOwned DEF HandleInv
<1>3. CASE UNCHANGED vars
  BY <1>3 DEF vars, HandleInv, Owned, OwnedTypes, OptionsAsAsked, Numbered, OnePlace, TableIsOpen,
     IsOpen, Standing, OpenLeads, SharedAreLoose, ValidIsOwn, Stale, At, CallsLeakOnlySpares,
     WithoutOnlySpares, Callers, AskerFits, AccepterFits
<1> QED
  BY <1>1, <1>2, <1>3, CreateKeeps, CopyKeeps, EndsScopeKeeps, AcceptBeginsKeeps, AcceptEndsKeep,
     CloseKeeps, AsksForErrorKeeps, CallOnKeeps DEF Next

LEMMA AlwaysHandleInv == Spec => []HandleInv
BY InitHandleInv, StepKeepsHandleInv, PTL DEF Spec

-----------------------------------------------------------------------------
(* What holds of every state. *)

(***************************************************************************)
(* However descriptors are reused: a valid object leads to its own socket, *)
(* or stands for a socket that was copied, whose close reported an error,  *)
(* or that was closed through another such object.                         *)
(***************************************************************************)
THEOREM ValidObjectsAreOwn == Spec => []ValidIsOwn
<1>1. HandleInv => ValidIsOwn
  BY DEF HandleInv, Owned
<1> QED BY <1>1, AlwaysHandleInv, PTL

(***************************************************************************)
(* Whatever fails, no call loses an open socket but accept, the one that   *)
(* it makes first.  What is left besides went out of scope with its last   *)
(* valid object.                                                           *)
(***************************************************************************)
THEOREM OnlySparesLeakByCalls == Spec => []CallsLeakOnlySpares
<1>1. HandleInv => CallsLeakOnlySpares
  BY DEF HandleInv, Owned
<1> QED BY <1>1, AlwaysHandleInv, PTL

(***************************************************************************)
(* Types, and only a failed accept leaves an object valid without a        *)
(* descriptor (its spare socket is then lost).                             *)
(***************************************************************************)
THEOREM HandlesAreTyped == Spec => []HandleTypeOK
<1>1. HandleInv => HandleTypeOK
  BY DEF HandleInv, Owned, OwnedTypes, Handles, Kernels, Pasts, Callers, Calling,
         WithoutOnlySpares, HandleTypeOK
<1> QED BY <1>1, AlwaysHandleInv, PTL

-----------------------------------------------------------------------------
(* Rounding up to ticks leaves 0 as it is. *)
LEMMA NoTicksIsNone == Tick * ((0 + Tick - 1) \div Tick) = 0
<1>1. Tick \in Nat /\ Tick > 0
  BY TickAssumption
<1>2. (0 + Tick - 1) \div Tick = 0
  <2> DEFINE q == (Tick - 1) \div Tick
  <2>1. q \in Nat /\ Tick * q <= Tick - 1
    BY <1>1
  <2>2. q >= 1 => Tick * q >= Tick
    BY <1>1, <2>1
  <2> QED BY <1>1, <2>1, <2>2
<1> QED BY <1>1, <1>2

(* What a getter makes of what a setter stored. *)
LEMMA OptionsComeBack ==
  ASSUME NEW n \in Options, NEW v, Legal(n, v), v % 1000 = 0 \/ n # "timeout"
  PROVE  ReadBack(n, Stored(n, v)) = v
<1>1. CASE n = "timeout"
  <2>1. v \in Nat /\ v % 1000 = 0
    BY <1>1 DEF Legal
  <2>2. v = 1000 * (v \div 1000)
    BY <2>1
  <2>3. Kept(Timeval(v)) = [sec |-> v \div 1000, usec |-> 0]
    BY <2>1, NoTicksIsNone DEF Kept, Timeval
  <2>4. ReadBack(n, Stored(n, v)) = Milliseconds(Kept(Timeval(v)))
    BY <1>1 DEF ReadBack, Stored
  <2>5. ReadBack(n, Stored(n, v)) = (v \div 1000) * 1000 + 0
    BY <2>3, <2>4 DEF Milliseconds
  <2> QED BY <2>1, <2>2, <2>5
<1>2. CASE n = "closeWait"
  <2>1. v \in Nat \cup {-1}
    BY <1>2 DEF Legal
  <2>2. ReadBack(n, Stored(n, v)) = CloseWait(Linger(v))
    BY <1>2 DEF ReadBack, Stored
  <2>3. CloseWait(Linger(v)) = v
    BY <2>1 DEF CloseWait, Linger
  <2> QED BY <2>2, <2>3
<1>3. CASE n = "flag"
  BY <1>3 DEF ReadBack, Stored
<1> QED
  BY <1>1, <1>2, <1>3 DEF Options

(***************************************************************************)
(* For every tick of the kernel's clock and every value that a setter may  *)
(* be called with: an object that leads to its socket reads back what was  *)
(* set, times in whole seconds, close waits and flags, after a copy or as  *)
(* inherited from the listener too.                                        *)
(***************************************************************************)
THEOREM OptionsAreReadBack == Spec => []OptionsReadBack
<1>1. ASSUME HandleInv, NEW o \in Objects, NEW n \in Options, At(o) # None, ~Stale(o)
      PROVE  LET asked == kernel[obj[o].sock].asked[n]
             IN  Got(o, n) = asked \/ (n = "timeout" /\ asked % 1000 # 0)
  <2>1. obj[o].sock = At(o) /\ AsAsked(kernel[At(o)])
    BY <1>1, WhereObjectsLead DEF HandleInv, Stale, At
  <2> DEFINE asked == kernel[At(o)].asked[n]
  <2>2. Legal(n, asked) /\ kernel[At(o)].option[n] = Stored(n, asked)
    BY <2>1 DEF AsAsked
  <2>3. Got(o, n) = ReadBack(n, Stored(n, asked))
    BY <2>2 DEF Got
  <2>4. Got(o, n) = asked \/ ~(asked % 1000 = 0 \/ n # "timeout")
    <3> HIDE DEF asked
    <3> QED BY <2>2, <2>3, OptionsComeBack
  <2> QED BY <2>1, <2>4
<1>2. HandleInv => OptionsReadBack
  BY <1>1 DEF OptionsReadBack
<1> QED BY <1>2, AlwaysHandleInv, PTL

-----------------------------------------------------------------------------
(* Errors. *)

(* An object that does not lead to its own socket stands for a closed one. *)
LEMMA StaleIsClosed ==
  ASSUME Owned, NEW o \in Objects, obj[o] # NoSocket, At(o) # None, At(o) # obj[o].sock
  PROVE  /\ obj[o].sock \in Sockets /\ ~IsOpen(obj[o].sock)
         /\ obj[o].valid => obj[o].sock \in past.loose
<1>1. obj[o].sock \in Sockets
  BY DEF Owned, OwnedTypes, Handles, Standing
<1>2. obj[o].fd # NoFd /\ table[obj[o].fd] # obj[o].sock /\ Stale(o)
  BY DEF At, Stale
<1> QED
  BY <1>1, <1>2 DEF Owned, OpenLeads, ValidIsOwn

LEMMA OwnersTellTheirOwn ==
  ASSUME Owned, NEW o \in Objects, obj[o] # NoSocket,
         NEW told \in {At(o), NoError}, TakesError(o, told),
         past' = past, \A p \in Objects : obj'[p] = obj[p] \/ obj'[p] = NoSocket
  PROVE  ToldIsOwn'
<1> SUFFICES ASSUME result'.told \notin {NoError, result'.sock}
             PROVE  /\ kernel'[result'.sock].mode = "closed"
                    /\ \/ result'.sock \in past'.loose
                       \/ \A p \in Objects : obj'[p].valid => obj'[p].sock # result'.sock
  BY DEF ToldIsOwn
<1>1. /\ Pending(o) /\ told = At(o) /\ result'.sock = obj[o].sock /\ At(o) # obj[o].sock
      /\ At(o) # None
  BY DEF TakesError, NoResult, Pending
<1>2. /\ obj[o].sock \in Sockets /\ kernel[obj[o].sock].mode = "closed" /\ obj[o].sock # None
      /\ obj[o].valid => obj[o].sock \in past.loose
  BY <1>1, StaleIsClosed DEF IsOpen, Sockets, None
<1>3. kernel'[obj[o].sock].mode = "closed"
  BY <1>2, TakingKeepsOpen DEF KeepsOpen
<1>4. ASSUME NEW p \in Objects, obj'[p].valid, obj'[p].sock = obj[o].sock
      PROVE  obj[o].sock \in past.loose
  <2>1. obj[p].valid /\ obj[p].sock = obj[o].sock
    BY <1>4 DEF NoSocket
  <2>2. CASE p = o
    BY <2>1, <2>2, <1>2
  <2>3. CASE p # o
    BY <2>1, <2>3, <1>2 DEF Owned, SharedAreLoose
  <2> QED BY <2>2, <2>3
<1> QED BY <1>1, <1>3, <1>4

LEMMA StepKeepsTold ==
  ASSUME HandleInv, ToldIsOwn, [Next]_vars
  PROVE  ToldIsOwn'
<1>1. CASE result'.told = NoError
  BY <1>1 DEF ToldIsOwn
<1>2. CASE result' = NoResult
  BY <1>1, <1>2 DEF NoResult
<1>3. ASSUME NEW o \in Objects, CallOn(o) PROVE ToldIsOwn'
  <2>1. obj[o] # NoSocket /\ past' = past /\ obj' = obj
    BY <1>3, CallsEndOrAsk DEF NoSocket
  <2>2. CASE Quiet(o)
    BY <1>1, <2>2 DEF Quiet
  <2>3. CASE TakesError(o, NoError) \/ TakesError(o, At(o))
    BY <2>1, <2>3, OwnersTellTheirOwn DEF HandleInv
  <2> QED BY <1>3, <2>2, <2>3, CallsKeepOpen DEF HandleInv
<1>4. ASSUME NEW t \in Threads, AsksForError(t) PROVE ToldIsOwn'
  <2> DEFINE o == call[t].obj
  <2>1. o \in Objects /\ obj[o] # NoSocket
    BY <1>4 DEF AsksForError, HandleInv, Callers, AskerFits
  <2>2. TakesError(o, At(o)) \/ TakesError(o, NoError)
    BY <1>4 DEF AsksForError
  <2>3. past' = past /\ \A p \in Objects : obj'[p] = obj[p] \/ obj'[p] = NoSocket
    BY <1>4 DEF AsksForError, HandleInv, Owned, OwnedTypes
  <2> HIDE DEF o
  <2> QED BY <2>1, <2>2, <2>3, OwnersTellTheirOwn DEF HandleInv
<1>5. CASE UNCHANGED vars
  BY <1>5 DEF vars, ToldIsOwn
<1>6. ASSUME NEW o \in Objects,
             Create(o) \/ CreateFails(o) \/ EndsScope(o) \/ Close(o) \/ CloseFails(o)
      PROVE  ToldIsOwn'
  BY <1>2, <1>6 DEF Create, CreateFails, EndsScope, Close, CloseFails
<1>7. ASSUME NEW o \in Objects, NEW p \in Objects, Copy(o, p) \/ AcceptBegins(o, p)
      PROVE  ToldIsOwn'
  BY <1>2, <1>7 DEF Copy, AcceptBegins
<1>8. ASSUME NEW t \in Threads, Accepts(t) \/ AcceptFails(t) PROVE ToldIsOwn'
  BY <1>2, <1>8 DEF Accepts, AcceptFails
<1>9. ASSUME NEW s \in Sockets, ErrorArrives(s) PROVE ToldIsOwn'
  BY <1>2, <1>9 DEF ErrorArrives
<1> QED
  BY <1>3, <1>4, <1>5, <1>6, <1>7, <1>8, <1>9 DEF Next

(***************************************************************************)
(* A Result tells of an error on another socket than the one called only   *)
(* if that one is closed, by this very call or because its number was      *)
(* still in use by one of the copied or badly closed objects.              *)
(***************************************************************************)
THEOREM ErrorsAreToldOfTheirSocket == Spec => []ToldIsOwn
<1>1. Init => ToldIsOwn
  BY DEF Init, NoResult, ToldIsOwn
<1>2. HandleInv /\ ToldIsOwn /\ [Next]_vars => ToldIsOwn'
  BY StepKeepsTold
<1> QED BY <1>1, <1>2, AlwaysHandleInv, PTL DEF Spec

-----------------------------------------------------------------------------
(* Who changes what the operating system knows of a socket. *)

UnmadeAreClosed == \A s \in Sockets : s > made => kernel[s] = Closed

(* The call, or the rest of it, is one on the object o. *)
ActsOn(o) ==
  \/ CallOn(o) \/ Close(o) \/ CloseFails(o)
  \/ call[ThreadOf[o]].obj = o /\ AsksForError(ThreadOf[o])

Loses(s) == kernel[s].error /\ ~kernel'[s].error

(* A socket is changed by a call on an object that leads to it. *)
TouchedBy(o, s) ==
  /\ ActsOn(o) /\ At(o) = s
  /\ \/ obj[o].valid
     \/ /\ call[ThreadOf[o]].at = "asking"
        /\ kernel'[s] = [kernel[s] EXCEPT !.error = FALSE]
  /\ Loses(s) => kernel'[s].mode = "closed" \/ result'.sock = obj[o].sock

LEMMA ReleasesTouch ==
  ASSUME HandleInv, NEW o \in Objects, Close(o) \/ CloseFails(o),
         NEW s \in Sockets, kernel'[s] # kernel[s]
  PROVE  TouchedBy(o, s)
<1>1. kernel' = [kernel EXCEPT ![At(o)] = Closed] /\ obj[o].valid
  BY DEF Close, CloseFails, Releases, Calls, kernelVars
<1>2. At(o) = s /\ kernel'[s].mode = "closed"
  BY <1>1, ClosedIsKnown DEF HandleInv, Owned, OwnedTypes
<1> QED BY <1>1, <1>2 DEF TouchedBy, ActsOn

LEMMA CallsTouch ==
  ASSUME HandleInv, NEW o \in Objects, CallOn(o),
         NEW s \in Sockets, kernel'[s] # kernel[s]
  PROVE  TouchedBy(o, s)
<1>1. Apart(o) /\ (Quiet(o) \/ TakesError(o, NoError) \/ TakesError(o, At(o)))
  BY CallsKeepOpen DEF HandleInv
<1>2. At(o) = s /\ obj[o].valid
  BY <1>1, CallsEndOrAsk DEF Apart
<1>3. Loses(s) => result'.sock = obj[o].sock
  BY <1>1 DEF Loses, Quiet, TakesError
<1> QED BY <1>2, <1>3 DEF TouchedBy, ActsOn

LEMMA AskersTouch ==
  ASSUME HandleInv, NEW t \in Threads, AsksForError(t),
         NEW s \in Sockets, kernel'[s] # kernel[s]
  PROVE  \E o \in Objects : TouchedBy(o, s)
<1> DEFINE o == call[t].obj
<1>1. o \in Objects /\ ThreadOf[o] = t /\ (~obj[o].valid => call[t].at = "asking")
  BY DEF AsksForError, HandleInv, Callers, AskerFits
<1>2. TakesError(o, At(o)) \/ TakesError(o, NoError)
  BY DEF AsksForError
<1>3. ActsOn(o)
  BY <1>1 DEF ActsOn
<1> HIDE DEF o
<1>4. Apart(o) /\ Pending(o) /\ result'.sock = obj[o].sock
  BY <1>1, <1>2, TakingKeepsOpen DEF TakesError, HandleInv
<1>5. At(o) = s
  BY <1>4 DEF Apart
<1>6. kernel'[s] = [kernel[s] EXCEPT !.error = FALSE]
  BY <1>2, <1>4, <1>5 DEF TakesError, HandleInv, Owned, OwnedTypes
<1> QED BY <1>1, <1>3, <1>4, <1>5, <1>6 DEF TouchedBy

(* A step that changes s is the peer's reset, the making of s or a call. *)
LEMMA ChangesAreAccounted ==
  ASSUME HandleInv, Next, NEW s \in Sockets, kernel'[s] # kernel[s]
  PROVE  \/ ErrorArrives(s)
         \/ s = made + 1 /\ made' = made + 1
         \/ made' = made /\ \E o \in Objects : TouchedBy(o, s)
<1>1. ASSUME NEW d, NEW k, Opens(d, k) PROVE s = made + 1 /\ made' = made + 1
  BY <1>1 DEF Opens, HandleInv, Owned, OwnedTypes
<1>2. ASSUME NEW o \in Objects, Create(o) \/ CreateFails(o) \/ EndsScope(o)
      PROVE  s = made + 1 /\ made' = made + 1
  BY <1>1, <1>2 DEF Create, CreateFails, EndsScope, kernelVars
<1>3. ASSUME NEW o \in Objects, NEW p \in Objects, Copy(o, p) \/ AcceptBegins(o, p)
      PROVE  s = made + 1 /\ made' = made + 1
  BY <1>1, <1>3 DEF Copy, AcceptBegins, kernelVars
<1>4. ASSUME NEW t \in Threads, Accepts(t) \/ AcceptFails(t)
      PROVE  s = made + 1 /\ made' = made + 1
  BY <1>1, <1>4 DEF Accepts, AcceptFails, kernelVars
<1>5. ASSUME NEW o \in Objects, Close(o) \/ CloseFails(o)
      PROVE  made' = made /\ TouchedBy(o, s)
  BY <1>5, ReleasesTouch DEF Close, CloseFails, Releases, kernelVars
<1>6. ASSUME NEW o \in Objects, CallOn(o) PROVE made' = made /\ TouchedBy(o, s)
  BY <1>6, CallsTouch, CallsEndOrAsk
<1>7. ASSUME NEW t \in Threads, AsksForError(t)
      PROVE  made' = made /\ \E o \in Objects : TouchedBy(o, s)
  BY <1>7, AskersTouch DEF AsksForError
<1>8. ASSUME NEW q \in Sockets, ErrorArrives(q) PROVE ErrorArrives(s)
  <2>1. q = s
    BY <1>8 DEF ErrorArrives, HandleInv, Owned, OwnedTypes
  <2> QED BY <1>8, <2>1
<1> QED
  BY <1>2, <1>3, <1>4, <1>5, <1>6, <1>7, <1>8 DEF Next

LEMMA AlwaysUnmadeAreClosed == Spec => []UnmadeAreClosed
<1>1. Init => UnmadeAreClosed
  BY DEF Init, UnmadeAreClosed
<1>2. HandleInv /\ UnmadeAreClosed /\ [Next]_vars => UnmadeAreClosed'
  <2> SUFFICES ASSUME HandleInv, UnmadeAreClosed, [Next]_vars PROVE UnmadeAreClosed'
    OBVIOUS
  <2>1. CASE UNCHANGED vars
    BY <2>1 DEF vars, UnmadeAreClosed
  <2>2. ASSUME Next, NEW s \in Sockets, s > made' PROVE kernel'[s] = Closed
    <3>1. made \in Nat /\ s \in Int /\ made' \in Nat /\ made <= made'
      <4>1. made \in Nat /\ HandleInv'
        BY StepKeepsHandleInv DEF HandleInv, Owned, OwnedTypes
      <4>2. made' \in Nat
        BY <4>1 DEF HandleInv, Owned, OwnedTypes
      <4>3. made' = made \/ made' = made + 1
        <5>1. \A d, k : Opens(d, k) => made' = made + 1
          BY DEF Opens
        <5> QED BY <2>2, <5>1, CallsEndOrAsk
              DEF Next, Create, CreateFails, Copy, EndsScope, AcceptBegins, Accepts, AcceptFails,
                  Close, CloseFails, Releases, AsksForError, ErrorArrives, kernelVars
      <4> QED BY <4>1, <4>2, <4>3 DEF Sockets
    <3>2. kernel[s] = Closed
      BY <2>2, <3>1 DEF UnmadeAreClosed
    <3>3. SUFFICES ASSUME kernel'[s] # kernel[s] PROVE FALSE
      BY <3>2
    <3>4. ~ErrorArrives(s)
      BY <3>2, ClosedIsKnown DEF ErrorArrives
    <3>5. ~(s = made + 1 /\ made' = made + 1)
      BY <2>2, <3>1
    <3>6. ASSUME NEW o \in Objects, TouchedBy(o, s) PROVE FALSE
      <4>1. At(o) = s /\ s # None
        BY <3>6 DEF TouchedBy, Sockets, None
      <4>2. s <= made
        BY <4>1, WhereObjectsLead DEF HandleInv, Owned, Numbered
      <4> QED BY <2>2, <3>1, <4>2
    <3> QED BY <2>2, <3>3, <3>4, <3>5, <3>6, ChangesAreAccounted
  <2> QED BY <2>1, <2>2 DEF UnmadeAreClosed
<1> QED BY <1>1, <1>2, AlwaysHandleInv, PTL DEF Spec

(***************************************************************************)
(* A pending error leaves a socket with its close, with a call through an  *)
(* object that stands for it, at the end of another object's close, or     *)
(* with an object whose socket was copied or badly closed.                 *)
(***************************************************************************)
THEOREM ErrorsAreTakenByTheirCallers == Spec => StolenOnlyByStale
<1> DEFINE Accounts(s) ==
      \/ kernel'[s].mode = "closed"
      \/ \E o \in Objects :
           /\ At(o) = s
           /\ call[ThreadOf[o]] # call'[ThreadOf[o]] \/ result'.sock = obj[o].sock
           /\ \/ obj[o].sock = s
              \/ ~obj[o].valid /\ call[ThreadOf[o]].at = "asking"
              \/ obj[o].sock \in past.loose
<1>1. ASSUME HandleInv, UnmadeAreClosed, Next, NEW s \in Sockets, Loses(s)
      PROVE  Accounts(s)
  <2>1. kernel'[s] # kernel[s]
    BY <1>1 DEF Loses
  <2>2. ~ErrorArrives(s)
    BY <1>1 DEF Loses, ErrorArrives, HandleInv, Owned, OwnedTypes, Kernels
  <2>3. s # made + 1
    BY <1>1, ClosedIsKnown DEF Loses, UnmadeAreClosed, HandleInv, Owned, OwnedTypes, Closed
  <2>4. PICK o \in Objects : TouchedBy(o, s)
    BY <1>1, <2>1, <2>2, <2>3, ChangesAreAccounted
  <2>5. SUFFICES ASSUME kernel'[s].mode # "closed" PROVE Accounts(s)
    OBVIOUS
  <2>6. At(o) = s /\ result'.sock = obj[o].sock /\ s # None
    BY <1>1, <2>4, <2>5 DEF TouchedBy, Sockets, None
  <2>7. obj[o].valid \/ call[ThreadOf[o]].at = "asking"
    BY <2>4 DEF TouchedBy
  <2>8. obj[o].valid /\ obj[o].sock # s => obj[o].sock \in past.loose
    BY <1>1, <2>6 DEF HandleInv, Owned, ValidIsOwn, Stale, At
  <2> QED BY <2>6, <2>7, <2>8
<1>2. HandleInv /\ UnmadeAreClosed /\ [Next]_vars =>
        [\A s \in Sockets : kernel[s].error /\ ~kernel'[s].error => Accounts(s)]_vars
  BY <1>1 DEF Loses
<1> QED BY <1>2, AlwaysHandleInv, AlwaysUnmadeAreClosed, PTL DEF Spec, StolenOnlyByStale

(***************************************************************************)
(* A socket is changed, closed in particular, only by the peer's reset, or *)
(* by a call through a valid object that stands for it or for a copied or  *)
(* badly closed one.  All that a finished close can do to the socket that  *)
(* has its number now is to take its pending error.                        *)
(***************************************************************************)
THEOREM SocketsAreChangedByTheirObjects ==
  Spec => [][\A s \in Sockets : kernel'[s] # kernel[s] =>
               \/ ErrorArrives(s)
               \/ s = made + 1 /\ made' = made + 1
               \/ \E o \in Objects :
                    /\ ActsOn(o) /\ At(o) = s
                    /\ \/ obj[o].valid /\ obj[o].sock \in {s} \cup past.loose
                       \/ kernel'[s] = [kernel[s] EXCEPT !.error = FALSE]]_vars
<1> DEFINE Accounts(s) ==
      \/ ErrorArrives(s)
      \/ s = made + 1 /\ made' = made + 1
      \/ \E o \in Objects :
           /\ ActsOn(o) /\ At(o) = s
           /\ \/ obj[o].valid /\ obj[o].sock \in {s} \cup past.loose
              \/ kernel'[s] = [kernel[s] EXCEPT !.error = FALSE]
<1>1. ASSUME HandleInv, Next, NEW s \in Sockets, kernel'[s] # kernel[s]
      PROVE  Accounts(s)
  <2>1. ASSUME NEW o \in Objects, TouchedBy(o, s) PROVE Accounts(s)
    <3>1. ActsOn(o) /\ At(o) = s /\ s # None
      BY <2>1 DEF TouchedBy, Sockets, None
    <3>2. obj[o].valid \/ kernel'[s] = [kernel[s] EXCEPT !.error = FALSE]
      BY <2>1 DEF TouchedBy
    <3>3. obj[o].valid => obj[o].sock \in {s} \cup past.loose
      BY <1>1, <3>1 DEF HandleInv, Owned, ValidIsOwn, Stale, At
    <3> QED BY <3>1, <3>2, <3>3
  <2> QED BY <1>1, <2>1, ChangesAreAccounted
<1>2. HandleInv /\ [Next]_vars =>
        [\A s \in Sockets : kernel'[s] # kernel[s] => Accounts(s)]_vars
  <2> HIDE DEF Accounts
  <2> QED BY <1>1 DEF vars
<1> QED BY <1>2, AlwaysHandleInv, PTL DEF Spec
=============================================================================
