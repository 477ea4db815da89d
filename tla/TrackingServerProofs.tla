------------------------ MODULE TrackingServerProofs ------------------------
(***************************************************************************)
(* Proofs about TrackingServer, for any number of senders and packet        *)
(* indices, and where it is said for any number of controllers.  They fall  *)
(* into three inductive invariants: the types, what the loop's place says   *)
(* of thread, client and socket, and what the one controller's place says   *)
(* of the server's life.                                                    *)
(***************************************************************************)
EXTENDS TrackingServer, TLAPS

\* Every packet, the empty one too, has its index in range.
LEMMA PacketIndex ==
    ASSUME NEW p \in Packets \cup {NoPacket}
    PROVE  p.index \in Indices
<1>1. CASE p \in Packets
  BY <1>1 DEF Packets
<1>2. CASE p = NoPacket
  BY <1>2, IndexAssumption DEF NoPacket, Indices
<1> QED BY <1>1, <1>2

\* The next index wraps into the range.
LEMMA NextIndex ==
    ASSUME NEW i \in Indices
    PROVE  (i + 1) % IndexWrap \in Indices
BY IndexAssumption DEF Indices

----------------------------------------------------------------------------
(* Types *)

\* The variables of the users, and all others.
UserTypes ==
    /\ upc \in [Users -> {"idle", "raise", "launch", "shut", "join", "store", "post"}]
    /\ draft \in [Senders -> Packets \cup {NoPacket}]
    /\ index \in Indices

ServerTypes ==
    /\ running \in BOOLEAN
    /\ thread \in {"none", "alive", "ended"}
    /\ loop \in {"off", "socket", "listen", "test", "accept", "register", "serve",
                 "unregister", "closing"}
    /\ serverFd \in {"none", "bare", "listening"}
    /\ clientFd \in BOOLEAN
    /\ socket \in {"none", "open", "closed"}
    /\ peer \in BOOLEAN
    /\ cached \in Packets \cup {NoPacket}
    /\ got \in Packets \cup {NoPacket}
    /\ crashed \in BOOLEAN
    /\ portTaken \in BOOLEAN

\* The type invariant falls into the two groups.
LEMMA TypeParts == TypeOK <=> UserTypes /\ ServerTypes
BY DEF TypeOK, UserTypes, ServerTypes

\* The initial state is well typed.
LEMMA TypesInit == Init => TypeOK
<1> SUFFICES ASSUME Init PROVE TypeOK
  OBVIOUS
<1>1. 0 \in Indices
  BY IndexAssumption DEF Indices
<1>2. UserTypes
  BY <1>1 DEF Init, UserTypes
<1>3. ServerTypes
  BY ListenAssumption DEF Init, ServerTypes
<1> QED BY <1>2, <1>3, TypeParts

\* A user that goes from one place to another is somewhere.
LEMMA StepType ==
    ASSUME UserTypes, NEW u \in Users, NEW from,
           NEW to \in {"idle", "raise", "launch", "shut", "join", "store", "post"},
           Step(u, from, to)
    PROVE  upc' \in [Users -> {"idle", "raise", "launch", "shut", "join", "store", "post"}]
BY DEF UserTypes, Step

\* Every step keeps the types of the users' variables ...
LEMMA UserTypesNext == UserTypes /\ [Next]_vars => UserTypes'
<1> SUFFICES ASSUME UserTypes, [Next]_vars PROVE UserTypes'
  OBVIOUS
<1>1. ASSUME NEW c \in Controllers, Start(c) \/ Stop(c) PROVE UserTypes'
  <2>1. UNCHANGED <<draft, index>>
    BY <1>1 DEF Start, StartAgain, StartCheck, StartRaise, StartLaunch,
       Stop, StopEarly, StopExchange, StopShut, StopJoin
  <2>2. c \in Users
    BY DEF Users
  <2>3. \E from, to \in {"idle", "raise", "launch", "shut", "join", "store", "post"} :
            Step(c, from, to)
    BY <1>1 DEF Start, StartAgain, StartCheck, StartRaise, StartLaunch,
       Stop, StopEarly, StopExchange, StopShut, StopJoin
  <2> QED BY <2>1, <2>2, <2>3, StepType DEF UserTypes
<1>2. ASSUME NEW s \in Senders, NEW command \in Commands, SendLoad(s, command)
      PROVE  UserTypes'
  <2>1. [index |-> (index + 1) % IndexWrap, command |-> command] \in Packets
    BY NextIndex DEF Packets, UserTypes
  <2>2. s \in Users
    BY DEF Users
  <2>3. UNCHANGED index /\ Step(s, "idle", "store")
    BY <1>2 DEF SendLoad
  <2>4. draft' \in [Senders -> Packets \cup {NoPacket}]
    BY <1>2, <2>1 DEF SendLoad, UserTypes
  <2> QED BY <2>2, <2>3, <2>4, StepType DEF UserTypes
<1>3. ASSUME NEW s \in Senders, SendStore(s) PROVE UserTypes'
  <2>1. draft[s].index \in Indices
    BY PacketIndex DEF UserTypes
  <2>2. s \in Users
    BY DEF Users
  <2>3. UNCHANGED draft /\ index' = draft[s].index /\ Step(s, "store", "post")
    BY <1>3 DEF SendStore
  <2> QED BY <2>1, <2>2, <2>3, StepType DEF UserTypes
<1>4. ASSUME NEW s \in Senders, SendPost(s) PROVE UserTypes'
  <2>1. UNCHANGED <<draft, index>> /\ Step(s, "post", "idle") /\ s \in Users
    BY <1>4 DEF SendPost, Users
  <2> QED BY <2>1, StepType DEF UserTypes
<1>5. ASSUME Loop \/ PeerLeaves \/ UNCHANGED vars PROVE UserTypes'
  <2>1. UNCHANGED userVars
    BY <1>5 DEF Loop, LoopNoSocket, LoopSocket, LoopNoListen, LoopListen, LoopTest,
       LoopAccept, LoopAcceptFails, LoopRegister, LoopHangUp, LoopUnregister, LoopEnd,
       PeerLeaves, vars
  <2> QED BY <2>1 DEF userVars, UserTypes
<1>6. ASSUME NEW s \in Senders, Send(s) PROVE UserTypes'
  BY <1>2, <1>3, <1>4, <1>6 DEF Send
<1> QED BY <1>1, <1>5, <1>6 DEF Next

\* ... and, given those, of the server's.
LEMMA ServerTypesNext == UserTypes /\ ServerTypes /\ [Next]_vars => ServerTypes'
<1> SUFFICES ASSUME UserTypes, ServerTypes, [Next]_vars PROVE ServerTypes'
  OBVIOUS
<1> USE DEF ServerTypes
<1>1. ASSUME NEW c \in Controllers, Start(c) PROVE ServerTypes'
  <2>1. CASE StartAgain(c) \/ StartCheck(c) \/ StartRaise(c)
    <3>1. UNCHANGED <<thread, crashed, loopVars, clientVars, packetVars, portTaken>>
      BY <2>1 DEF StartAgain, StartCheck, StartRaise, lifeVars
    <3>2. running' \in BOOLEAN
      BY <2>1 DEF StartAgain, StartCheck, StartRaise, lifeVars
    <3> QED BY <3>1, <3>2 DEF loopVars, clientVars, packetVars
  <2>2. CASE StartLaunch(c)
    <3>1. UNCHANGED <<running, serverFd, clientVars, packetVars, portTaken>>
      BY <2>2 DEF StartLaunch
    <3>2. thread' \in {"none", "alive", "ended"} /\ crashed' \in BOOLEAN
      BY <2>2 DEF StartLaunch
    <3>3. loop' \in {"off", "socket", "listen", "test", "accept", "register", "serve",
                     "unregister", "closing"}
      BY <2>2 DEF StartLaunch
    <3> QED BY <3>1, <3>2, <3>3 DEF clientVars, packetVars
  <2> QED BY <1>1, <2>1, <2>2 DEF Start
<1>2. ASSUME NEW c \in Controllers, Stop(c) PROVE ServerTypes'
  <2>1. CASE StopEarly(c) \/ StopExchange(c)
    <3>1. UNCHANGED <<thread, crashed, loopVars, clientVars, packetVars, portTaken>>
      BY <2>1 DEF StopEarly, StopExchange, lifeVars
    <3>2. running' \in BOOLEAN
      BY <2>1 DEF StopEarly, StopExchange, lifeVars
    <3> QED BY <3>1, <3>2 DEF loopVars, clientVars, packetVars
  <2>2. CASE StopShut(c) \/ StopJoin(c)
    BY <2>2 DEF StopShut, StopJoin, lifeVars, loopVars, clientVars, packetVars
  <2> QED BY <1>2, <2>1, <2>2 DEF Stop
<1>3. ASSUME NEW s \in Senders, NEW command \in Commands, SendLoad(s, command)
      PROVE  ServerTypes'
  BY <1>3 DEF SendLoad, lifeVars, loopVars, clientVars, packetVars
<1>4. ASSUME NEW s \in Senders, SendStore(s) PROVE ServerTypes'
  BY <1>4 DEF SendStore, lifeVars, loopVars, clientVars, packetVars
<1>5. ASSUME NEW s \in Senders, SendPost(s) PROVE ServerTypes'
  <2>1. draft[s] \in Packets \cup {NoPacket}
    BY DEF UserTypes
  <2>2. cached' \in Packets \cup {NoPacket} /\ got' \in Packets \cup {NoPacket}
    BY <1>5, <2>1 DEF SendPost
  <2> QED BY <1>5, <2>2 DEF SendPost, lifeVars, loopVars, clientVars
<1>6. ASSUME Loop PROVE ServerTypes'
  <2>1. CASE LoopNoSocket \/ LoopNoListen \/ LoopEnd
    BY <2>1 DEF LoopNoSocket, LoopNoListen, LoopEnd, clientVars, packetVars
  <2>2. CASE LoopSocket \/ LoopListen
    BY <2>2 DEF LoopSocket, LoopListen, lifeVars, clientVars, packetVars
  <2>3. CASE LoopTest \/ LoopAcceptFails
    BY <2>3 DEF LoopTest, LoopAcceptFails, lifeVars, clientVars, packetVars
  <2>4. CASE LoopAccept
    BY <2>4 DEF LoopAccept, lifeVars
  <2>5. CASE LoopRegister
    BY <2>5 DEF LoopRegister, lifeVars
  <2>6. CASE LoopHangUp \/ LoopUnregister
    BY <2>6 DEF LoopHangUp, LoopUnregister, lifeVars, packetVars
  <2> QED BY <1>6, <2>1, <2>2, <2>3, <2>4, <2>5, <2>6 DEF Loop
<1>7. ASSUME PeerLeaves PROVE ServerTypes'
  <2>1. peer' \in BOOLEAN
    BY <1>7 DEF PeerLeaves
  <2>2. UNCHANGED <<lifeVars, loopVars, clientFd, socket, packetVars, portTaken>>
    BY <1>7 DEF PeerLeaves
  <2> QED BY <2>1, <2>2 DEF lifeVars, loopVars, packetVars
<1>8. ASSUME UNCHANGED vars PROVE ServerTypes'
  BY <1>8 DEF vars, lifeVars, loopVars, clientVars, packetVars
<1> QED
  BY <1>1, <1>2, <1>3, <1>4, <1>5, <1>6, <1>7, <1>8 DEF Next, Send

\* Every step keeps the types.
LEMMA TypesNext == TypeOK /\ [Next]_vars => TypeOK'
<1>1. UserTypes' /\ ServerTypes' => TypeOK'
  BY DEF TypeOK, UserTypes, ServerTypes
<1> QED BY <1>1, TypeParts, UserTypesNext, ServerTypesNext

\* Every variable of the server keeps its type, whatever the users and trackers
\* do; in particular the racing updates of the packet index stay within a byte.
THEOREM TypeCorrect == Spec => []TypeOK
BY TypesInit, TypesNext, PTL DEF Spec

----------------------------------------------------------------------------
(* Delivery *)

\* What the loop's place says of the thread, the client and the socket, and the
\* delivery itself.
ClientInv ==
    /\ loop # "off" => thread = "alive"
    /\ clientFd => loop \in {"serve", "unregister"}
    /\ socket = "open" => loop \in {"register", "serve"}
    /\ LatestDelivered

\* No client is registered at the start.
LEMMA ClientInvInit == Init => ClientInv
BY DEF Init, ClientInv, LatestDelivered

\* Every step keeps what is said of client and socket.
LEMMA ClientInvNext == TypeOK /\ ClientInv /\ [Next]_vars => ClientInv'
<1> SUFFICES ASSUME TypeOK, ClientInv, [Next]_vars PROVE ClientInv'
  OBVIOUS
<1> USE DEF ClientInv
\* The thread is started when there is none, and joined when the loop is over.
<1>1. ASSUME NEW c \in Controllers, Start(c) \/ Stop(c) PROVE ClientInv'
  <2>1. UNCHANGED <<clientVars, packetVars>>
    BY <1>1 DEF Start, StartAgain, StartCheck, StartRaise, StartLaunch,
       Stop, StopEarly, StopExchange, StopShut, StopJoin
  <2>2. CASE UNCHANGED <<thread, loop>>
    BY <2>1, <2>2 DEF clientVars, packetVars, LatestDelivered
  <2>3. CASE thread = "none" /\ thread' = "alive" /\ loop' = "socket"
    <3>1. loop = "off"
      BY <2>3
    <3>2. ~clientFd /\ socket # "open"
      BY <3>1
    <3> QED BY <2>1, <2>3, <3>2 DEF clientVars, packetVars, LatestDelivered
  <2>4. CASE thread # "alive" /\ UNCHANGED loop
    BY <2>1, <2>4 DEF clientVars, packetVars, LatestDelivered
  <2>5. \/ UNCHANGED <<thread, loop>>
        \/ thread = "none" /\ thread' = "alive" /\ loop' = "socket"
        \/ thread # "alive" /\ UNCHANGED loop
    BY <1>1 DEF Start, StartAgain, StartCheck, StartRaise, StartLaunch,
       Stop, StopEarly, StopExchange, StopShut, StopJoin, lifeVars, loopVars
  <2> QED BY <2>2, <2>3, <2>4, <2>5
\* A command is cached and sent under one lock.
<1>2. ASSUME NEW s \in Senders, Send(s) PROVE ClientInv'
  <2>1. UNCHANGED <<lifeVars, loopVars, clientVars>>
    BY <1>2 DEF Send, SendLoad, SendStore, SendPost
  <2>2. CASE UNCHANGED packetVars
    BY <2>1, <2>2 DEF lifeVars, loopVars, clientVars, packetVars, LatestDelivered
  <2>3. CASE SendPost(s)
    <3>1. LatestDelivered'
      BY <2>1, <2>3 DEF SendPost, clientVars, LatestDelivered
    <3> QED BY <2>1, <3>1 DEF lifeVars, loopVars, clientVars
  <2> QED BY <1>2, <2>2, <2>3 DEF Send, SendLoad, SendStore
\* A client gets the cached command when it is registered, and is registered
\* only until its socket is closed.
<1>3. ASSUME Loop PROVE ClientInv'
  <2>1. CASE LoopNoSocket \/ LoopNoListen \/ LoopEnd
    <3>1. ~clientFd /\ socket # "open"
      BY <2>1 DEF LoopNoSocket, LoopNoListen, LoopEnd
    <3>2. UNCHANGED <<clientVars, packetVars>> /\ loop' = "off"
      BY <2>1 DEF LoopNoSocket, LoopNoListen, LoopEnd
    <3> QED BY <3>1, <3>2 DEF clientVars, packetVars, LatestDelivered
  <2>2. CASE LoopSocket \/ LoopListen \/ LoopTest \/ LoopAcceptFails
    <3>1. ~clientFd /\ socket # "open" /\ thread = "alive"
      BY <2>2 DEF LoopSocket, LoopListen, LoopTest, LoopAcceptFails
    <3>2. UNCHANGED <<clientVars, packetVars, thread>>
      BY <2>2 DEF LoopSocket, LoopListen, LoopTest, LoopAcceptFails, lifeVars
    <3> QED BY <3>1, <3>2 DEF clientVars, packetVars, LatestDelivered
  <2>3. CASE LoopAccept
    <3>1. ~clientFd /\ thread = "alive"
      BY <2>3 DEF LoopAccept
    <3> QED BY <2>3, <3>1 DEF LoopAccept, lifeVars, LatestDelivered
  <2>4. CASE LoopRegister
    <3>1. LatestDelivered'
      BY <2>4 DEF LoopRegister, LatestDelivered
    <3>2. loop' = "serve" /\ thread' = "alive"
      BY <2>4 DEF LoopRegister, lifeVars
    <3> QED BY <3>1, <3>2
  <2>5. CASE LoopHangUp
    BY <2>5 DEF LoopHangUp, lifeVars, packetVars, LatestDelivered
  <2>6. CASE LoopUnregister
    BY <2>6 DEF LoopUnregister, lifeVars, packetVars, LatestDelivered
  <2> QED BY <1>3, <2>1, <2>2, <2>3, <2>4, <2>5, <2>6 DEF Loop
<1>4. ASSUME PeerLeaves PROVE ClientInv'
  <2>1. LatestDelivered'
    BY <1>4 DEF PeerLeaves, LatestDelivered
  <2>2. UNCHANGED <<thread, loop, clientFd, socket>>
    BY <1>4 DEF PeerLeaves, lifeVars, loopVars
  <2> QED BY <2>1, <2>2
<1>5. ASSUME UNCHANGED vars PROVE ClientInv'
  BY <1>5 DEF vars, lifeVars, loopVars, clientVars, packetVars, LatestDelivered
<1> QED
  BY <1>1, <1>2, <1>3, <1>4, <1>5 DEF Next

\* A tracker that is registered and still there has the latest command, for any
\* number of senders and controllers.
THEOREM CommandsDelivered == Spec => []LatestDelivered
<1>1. ClientInv => LatestDelivered
  BY DEF ClientInv
<1> QED BY <1>1, TypesInit, TypesNext, ClientInvInit, ClientInvNext, PTL DEF Spec

----------------------------------------------------------------------------
(* The life of the server with one controller *)

\* Where the controller u is tells what runs: while it starts the server there
\* is no loop, and a loop that is not wanted any more is being stopped.
LifeInv(u) ==
    /\ upc[u] \in {"raise", "launch"} => loop = "off"
    /\ upc[u] = "launch" => running
    /\ loop # "off" => running \/ upc[u] \in {"shut", "join"}
    /\ loop \in {"off", "socket"} => serverFd = "none"

\* On a host that lets the server listen, the loop ends only when it is stopped,
\* and then the controller joins it: no start finds an old thread.
ThreadInv(u) ==
    ~portTaken =>
        /\ ~crashed
        /\ upc[u] \in {"raise", "launch"} => thread = "none"
        /\ upc[u] = "idle" /\ ~running => thread = "none"
        /\ loop = "listen" /\ serverFd = "none" => upc[u] = "join"
        /\ loop = "closing" => ~running

OneInv(u) == ClientInv /\ LifeInv(u) /\ ThreadInv(u)

\* The server is not running at the start.
LEMMA OneInvInit ==
    ASSUME NEW u, Controllers = {u}, Init
    PROVE  OneInv(u)
<1>1. LifeInv(u)
  BY DEF Init, LifeInv, Users
<1>2. ThreadInv(u)
  BY DEF Init, ThreadInv, Users
<1> QED BY <1>1, <1>2, ClientInvInit DEF OneInv

\* A start by the one controller finds no loop left over.
LEMMA StartLife ==
    ASSUME NEW u, Controllers = {u}, TypeOK, OneInv(u), Start(u), ~crashed
    PROVE  LifeInv(u)' /\ ThreadInv(u)'
<1> u \in Users
  BY DEF Users
<1> USE DEF TypeOK, OneInv, ClientInv, LifeInv, ThreadInv, Step
<1>1. CASE StartAgain(u)
  BY <1>1 DEF StartAgain, lifeVars, loopVars
<1>2. CASE StartCheck(u)
  BY <1>2 DEF StartCheck, lifeVars, loopVars
<1>3. CASE StartRaise(u)
  BY <1>3 DEF StartRaise, loopVars
<1>4. CASE StartLaunch(u)
  BY <1>4 DEF StartLaunch
<1> QED BY <1>1, <1>2, <1>3, <1>4 DEF Start

\* A stop by the one controller takes the thread back.
LEMMA StopLife ==
    ASSUME NEW u, Controllers = {u}, TypeOK, OneInv(u), Stop(u)
    PROVE  LifeInv(u)' /\ ThreadInv(u)'
<1> u \in Users
  BY DEF Users
<1> USE DEF TypeOK, OneInv, ClientInv, LifeInv, ThreadInv, Step
<1>1. CASE StopEarly(u)
  BY <1>1 DEF StopEarly, lifeVars, loopVars
<1>2. CASE StopExchange(u)
  BY <1>2 DEF StopExchange, loopVars
<1>3. CASE StopShut(u)
  BY <1>3 DEF StopShut, lifeVars
<1>4. CASE StopJoin(u)
  BY <1>4 DEF StopJoin, loopVars
<1> QED BY <1>1, <1>2, <1>3, <1>4 DEF Stop

\* The loop's steps keep what is said of the server's life.
LEMMA LoopLife ==
    ASSUME NEW u, Controllers = {u}, TypeOK, OneInv(u), Loop
    PROVE  LifeInv(u)' /\ ThreadInv(u)'
<1> USE DEF TypeOK, OneInv, ClientInv, LifeInv, ThreadInv
<1>1. UNCHANGED upc /\ UNCHANGED portTaken
  BY DEF Loop, LoopNoSocket, LoopSocket, LoopNoListen, LoopListen, LoopTest, LoopAccept,
     LoopAcceptFails, LoopRegister, LoopHangUp, LoopUnregister, LoopEnd, userVars
<1>2. CASE LoopNoSocket
  BY <1>1, <1>2 DEF LoopNoSocket
<1>3. CASE LoopSocket \/ LoopListen
  BY <1>1, <1>3 DEF LoopSocket, LoopListen, lifeVars
<1>4. CASE LoopNoListen
  BY <1>1, <1>4 DEF LoopNoListen
<1>5. CASE LoopTest
  BY <1>1, <1>5 DEF LoopTest, lifeVars
<1>6. CASE LoopAccept \/ LoopAcceptFails
  BY <1>1, <1>6 DEF LoopAccept, LoopAcceptFails, lifeVars
<1>7. CASE LoopRegister \/ LoopHangUp \/ LoopUnregister
  BY <1>1, <1>7 DEF LoopRegister, LoopHangUp, LoopUnregister, lifeVars
<1>8. CASE LoopEnd
  BY <1>1, <1>8 DEF LoopEnd
<1> QED BY <1>2, <1>3, <1>4, <1>5, <1>6, <1>7, <1>8 DEF Loop

\* The senders and the tracker leave the server's life alone.
LEMMA OtherLife ==
    ASSUME NEW u, Controllers = {u}, TypeOK, OneInv(u),
           (\E s \in Senders : Send(s)) \/ PeerLeaves \/ UNCHANGED vars
    PROVE  LifeInv(u)' /\ ThreadInv(u)'
<1>1. UNCHANGED <<running, thread, crashed, loop, serverFd, portTaken>>
  BY DEF Send, SendLoad, SendStore, SendPost, PeerLeaves, vars, lifeVars, loopVars
<1>2. upc'[u] = upc[u]
  <2>1. u \in Users /\ u \notin Senders
    BY UsersAssumption DEF Users
  <2> QED BY <2>1 DEF Send, SendLoad, SendStore, SendPost, Step, PeerLeaves, vars,
         userVars, TypeOK
<1> QED BY <1>1, <1>2 DEF OneInv, LifeInv, ThreadInv

\* With one controller every step keeps the invariant.
LEMMA OneInvNext ==
    ASSUME NEW u, Controllers = {u}, TypeOK, OneInv(u), [Next]_vars
    PROVE  OneInv(u)'
<1>1. ClientInv'
  BY ClientInvNext DEF OneInv
<1>2. LifeInv(u)' /\ ThreadInv(u)'
  BY StartLife, StopLife, LoopLife, OtherLife DEF Next
<1> QED BY <1>1, <1>2 DEF OneInv

\* With one controller the invariant always holds.
LEMMA OneInvHolds ==
    ASSUME NEW CONSTANT u, Controllers = {u}
    PROVE  Spec => [](TypeOK /\ OneInv(u))
<1>1. Init => OneInv(u)
  BY OneInvInit
<1>2. TypeOK /\ OneInv(u) /\ [Next]_vars => OneInv(u)'
  BY OneInvNext
<1> QED BY <1>1, <1>2, TypesInit, TypesNext, PTL DEF Spec

\* With one controller, a server that does not run and that nobody is starting
\* or stopping has no loop, no open port and no client, also if it ended because
\* it could not listen.
THEOREM StoppedServerIsQuiet ==
    ASSUME NEW CONSTANT u, Controllers = {u}
    PROVE  Spec => []StoppedIsQuiet
<1>1. TypeOK /\ OneInv(u) => StoppedIsQuiet
  BY DEF TypeOK, OneInv, ClientInv, LifeInv, StoppedIsQuiet
<1> QED BY <1>1, OneInvHolds, PTL

\* With one controller, no start and stop ends the program on a host that lets
\* the server listen.
THEOREM RestartsAreSafe ==
    ASSUME NEW CONSTANT u, Controllers = {u}
    PROVE  Spec => []TerminatesOnlyUnheard
<1>1. OneInv(u) => TerminatesOnlyUnheard
  BY DEF OneInv, ThreadInv, TerminatesOnlyUnheard
<1> QED BY <1>1, OneInvHolds, PTL

----------------------------------------------------------------------------
(* The end of the loop *)

\* While the one controller stops the server nothing lets it run again, and once
\* the port is closed nothing waits at an open one.
NearInv(u) ==
    /\ upc[u] \in {"shut", "join"} => ~running
    /\ upc[u] = "join" /\ loop = "accept" => serverFd = "none"

\* With one controller every step keeps this.
LEMMA NearInvNext ==
    ASSUME NEW u, Controllers = {u}, TypeOK, NearInv(u), [Next]_vars
    PROVE  NearInv(u)'
<1> u \in Users /\ u \notin Senders
  BY UsersAssumption DEF Users
<1> USE DEF NearInv, TypeOK, Step
<1>1. CASE Start(u)
  BY <1>1 DEF Start, StartAgain, StartCheck, StartRaise, StartLaunch, lifeVars, loopVars
<1>2. CASE Stop(u)
  BY <1>2 DEF Stop, StopEarly, StopExchange, StopShut, StopJoin, lifeVars, loopVars
<1>3. CASE Loop
  <2>1. UNCHANGED upc /\ (running' => running)
    BY <1>3 DEF Loop, LoopNoSocket, LoopSocket, LoopNoListen, LoopListen, LoopTest, LoopAccept,
       LoopAcceptFails, LoopRegister, LoopHangUp, LoopUnregister, LoopEnd, userVars, lifeVars
  <2>2. loop' = "accept" => running
    BY <1>3 DEF Loop, LoopNoSocket, LoopSocket, LoopNoListen, LoopListen, LoopTest, LoopAccept,
       LoopAcceptFails, LoopRegister, LoopHangUp, LoopUnregister, LoopEnd
  <2> QED BY <2>1, <2>2
<1>4. CASE (\E s \in Senders : Send(s)) \/ PeerLeaves \/ UNCHANGED vars
  <2>1. UNCHANGED <<running, loop, serverFd>>
    BY <1>4 DEF Send, SendLoad, SendStore, SendPost, PeerLeaves, vars, lifeVars, loopVars
  <2>2. upc'[u] = upc[u]
    BY <1>4 DEF Send, SendLoad, SendStore, SendPost, PeerLeaves, vars, userVars
  <2> QED BY <2>1, <2>2
<1> QED BY <1>1, <1>2, <1>3, <1>4 DEF Next

\* While the one controller waits for the loop, a step of it lowers the rank.
LEMMA LoopNears ==
    ASSUME NEW u, Controllers = {u}, TypeOK, NearInv(u), upc[u] = "join", Loop
    PROVE  LoopLeft[loop'] < LoopLeft[loop]
<1>1. ~running /\ ~(loop = "accept" /\ serverFd = "listening")
  BY DEF NearInv
<1>2. \/ loop \in {"socket", "listen"} /\ loop' = "off"
      \/ loop = "socket" /\ loop' = "listen"
      \/ loop = "listen" /\ loop' = "test"
      \/ loop = "test" /\ loop' = "closing"
      \/ loop = "accept" /\ loop' = "test"
      \/ loop = "register" /\ loop' = "serve"
      \/ loop = "serve" /\ loop' = "unregister"
      \/ loop = "unregister" /\ loop' = "test"
      \/ loop = "closing" /\ loop' = "off"
  BY <1>1 DEF Loop, LoopNoSocket, LoopSocket, LoopNoListen, LoopListen, LoopTest, LoopAccept,
     LoopAcceptFails, LoopRegister, LoopHangUp, LoopUnregister, LoopEnd
<1> QED BY <1>2 DEF LoopLeft

\* With one controller, a stop waits for a loop that has at most five steps left
\* and takes none back, whatever trackers do.
THEOREM StopsComeNearer ==
    ASSUME NEW CONSTANT u, Controllers = {u}
    PROVE  Spec => StopNears
<1> DEFINE Nears == \A c \in Controllers : upc[c] = "join" /\ upc'[c] = "join" =>
                       loop' = loop \/ LoopLeft[loop'] < LoopLeft[loop]
<1>1. Init => NearInv(u)
  BY DEF Init, NearInv, Users
<1>2. TypeOK /\ NearInv(u) /\ [Next]_vars => NearInv(u)'
  BY NearInvNext
<1>3. ASSUME TypeOK, NearInv(u), [Next]_vars PROVE [Nears]_vars
  <2> SUFFICES ASSUME upc[u] = "join", upc'[u] = "join"
               PROVE  loop' = loop \/ LoopLeft[loop'] < LoopLeft[loop]
    OBVIOUS
  <2> u \in Users
    BY DEF Users
  <2>1. CASE Loop
    BY <1>3, <2>1, LoopNears
  <2>2. CASE Start(u) \/ Stop(u)
    BY <1>3, <2>2 DEF Start, StartAgain, StartCheck, StartRaise, StartLaunch, Stop, StopEarly,
       StopExchange, StopShut, StopJoin, Step, loopVars, TypeOK
  <2>3. CASE (\E s \in Senders : Send(s)) \/ PeerLeaves \/ UNCHANGED vars
    BY <2>3 DEF Send, SendLoad, SendStore, SendPost, PeerLeaves, vars, loopVars
  <2> QED BY <1>3, <2>1, <2>2, <2>3 DEF Next
<1> QED BY <1>1, <1>2, <1>3, TypesInit, TypesNext, PTL DEF Spec, StopNears

----------------------------------------------------------------------------
(* The promise to the users *)

\* The packet of a sender that is about to post it is one that can be sent.
DraftInv == \A s \in Senders : upc[s] \in {"store", "post"} => draft[s] \in Packets

\* Nobody is sending at the start.
LEMMA DraftInvInit == Init => DraftInv
BY DEF Init, DraftInv, Users

\* A packet is built before it is posted.
LEMMA DraftInvNext == TypeOK /\ DraftInv /\ [Next]_vars => DraftInv'
<1> SUFFICES ASSUME TypeOK, DraftInv, [Next]_vars, NEW s \in Senders,
                    upc'[s] \in {"store", "post"}
             PROVE  draft'[s] \in Packets
  BY DEF DraftInv
<1> USE DEF DraftInv, TypeOK, Step
<1>1. ASSUME NEW c \in Controllers, Start(c) \/ Stop(c) PROVE draft'[s] \in Packets
  <2>1. c # s /\ c \in Users /\ s \in Users
    BY UsersAssumption DEF Users
  <2> QED BY <1>1, <2>1 DEF Start, StartAgain, StartCheck, StartRaise, StartLaunch,
       Stop, StopEarly, StopExchange, StopShut, StopJoin
<1>2. ASSUME NEW t \in Senders, Send(t) PROVE draft'[s] \in Packets
  <2>0. s \in Users /\ t \in Users
    BY DEF Users
  <2>1. CASE SendStore(t) \/ SendPost(t)
    BY <2>0, <2>1 DEF SendStore, SendPost
  <2>2. ASSUME NEW command \in Commands, SendLoad(t, command) PROVE draft'[s] \in Packets
    <3>1. [index |-> (index + 1) % IndexWrap, command |-> command] \in Packets
      BY NextIndex DEF Packets
    <3> QED BY <2>0, <2>2, <3>1 DEF SendLoad
  <2> QED BY <1>2, <2>1, <2>2 DEF Send
<1>3. ASSUME Loop \/ PeerLeaves \/ UNCHANGED vars PROVE draft'[s] \in Packets
  <2>1. UNCHANGED userVars
    BY <1>3 DEF Loop, LoopNoSocket, LoopSocket, LoopNoListen, LoopListen, LoopTest,
       LoopAccept, LoopAcceptFails, LoopRegister, LoopHangUp, LoopUnregister, LoopEnd,
       PeerLeaves, vars
  <2> QED BY <2>1 DEF userVars
<1> QED BY <1>1, <1>2, <1>3 DEF Next

\* The server begins closed.
LEMMA LinkInit == Init => Link!Init
BY DEF Init, Link!Init, Reached

\* A start opens the loop of a server that has none; everything else that
\* controllers do is invisible.
LEMMA LinkControl ==
    ASSUME ClientInv, NEW c \in Controllers, Start(c) \/ Stop(c)
    PROVE  [Link!Next]_(Link!linkVars)
<1> USE DEF Reached, Link!linkVars
<1>1. UNCHANGED <<clientVars, packetVars>>
  BY DEF Start, StartAgain, StartCheck, StartRaise, StartLaunch,
     Stop, StopEarly, StopExchange, StopShut, StopJoin
<1>2. CASE UNCHANGED loop
  BY <1>1, <1>2 DEF clientVars, packetVars
<1>3. CASE thread = "none" /\ loop' = "socket"
  <2>1. loop = "off"
    BY <1>3 DEF ClientInv
  <2>2. Link!Open
    BY <1>1, <1>3, <2>1 DEF Link!Open, clientVars, packetVars
  <2> QED BY <2>2 DEF Link!Next
<1>4. UNCHANGED loop \/ (thread = "none" /\ loop' = "socket")
  BY DEF Start, StartAgain, StartCheck, StartRaise, StartLaunch,
     Stop, StopEarly, StopExchange, StopShut, StopJoin, loopVars
<1> QED BY <1>2, <1>3, <1>4

\* A command is posted when its packet goes into the cache.
LEMMA LinkSend ==
    ASSUME DraftInv, NEW s \in Senders, Send(s)
    PROVE  [Link!Next]_(Link!linkVars)
<1> USE DEF Reached, Link!linkVars
<1>1. UNCHANGED <<loopVars, clientVars>>
  BY DEF Send, SendLoad, SendStore, SendPost
<1>2. CASE UNCHANGED packetVars
  BY <1>1, <1>2 DEF loopVars, clientVars, packetVars
<1>3. CASE SendPost(s)
  <2>1. draft[s] \in Packets
    BY <1>3 DEF DraftInv, SendPost, Step
  <2>2. Link!Post(draft[s])
    BY <1>1, <1>3 DEF SendPost, Link!Post, loopVars, clientVars
  <2> QED BY <2>1, <2>2 DEF Link!Next
<1> QED BY <1>2, <1>3 DEF Send, SendLoad, SendStore

\* The loop connects a tracker when it registers one that is still there, and
\* loses it when it closes the socket.
LEMMA LinkLoop ==
    ASSUME TypeOK, ClientInv, Loop
    PROVE  [Link!Next]_(Link!linkVars)
<1> USE DEF Reached, Link!linkVars, ClientInv, TypeOK
<1>1. CASE LoopNoSocket \/ LoopNoListen \/ LoopEnd
  <2>1. ~Reached /\ loop # "off" /\ loop' = "off" /\ UNCHANGED <<clientVars, packetVars>>
    BY <1>1 DEF LoopNoSocket, LoopNoListen, LoopEnd
  <2>2. Link!Close
    BY <2>1 DEF Link!Close, clientVars, packetVars
  <2> QED BY <2>2 DEF Link!Next
<1>2. CASE LoopSocket \/ LoopListen \/ LoopTest \/ LoopAcceptFails
  BY <1>2 DEF LoopSocket, LoopListen, LoopTest, LoopAcceptFails, clientVars, packetVars
<1>3. CASE LoopAccept
  <2>1. ~clientFd /\ ~clientFd' /\ cached' = cached /\ loop # "off" /\ loop' # "off"
    BY <1>3 DEF LoopAccept
  <2> QED BY <2>1
<1>4. CASE LoopRegister
  <2>1. ~Reached /\ loop # "off" /\ loop' # "off" /\ clientFd'
        /\ UNCHANGED <<socket, peer, cached>>
    BY <1>4 DEF LoopRegister
  <2>2. CASE Reached'
    <3>1. got' = cached
      BY <1>4, <2>2 DEF LoopRegister
    <3>2. Link!Connect
      BY <2>1, <2>2, <3>1 DEF Link!Connect
    <3> QED BY <3>2 DEF Link!Next
  <2>3. CASE ~Reached'
    BY <2>1, <2>3
  <2> QED BY <2>2, <2>3
<1>5. CASE LoopHangUp
  <2>1. ~Reached' /\ loop # "off" /\ loop' # "off" /\ cached' = cached
    BY <1>5 DEF LoopHangUp, packetVars
  <2>2. CASE Reached
    <3>1. Link!Disconnect
      BY <2>1, <2>2 DEF Link!Disconnect
    <3> QED BY <3>1 DEF Link!Next
  <2>3. CASE ~Reached
    BY <2>1, <2>3
  <2> QED BY <2>2, <2>3
<1>6. CASE LoopUnregister
  BY <1>6 DEF LoopUnregister, packetVars
<1> QED BY <1>1, <1>2, <1>3, <1>4, <1>5, <1>6 DEF Loop

\* A tracker that leaves is disconnected at once, although the loop learns of it
\* later.
LEMMA LinkPeer ==
    ASSUME ClientInv, PeerLeaves
    PROVE  [Link!Next]_(Link!linkVars)
<1> USE DEF Reached, Link!linkVars
<1>1. ~Reached' /\ UNCHANGED <<loop, cached>>
  BY DEF PeerLeaves, loopVars, packetVars
<1>2. CASE Reached
  <2>1. loop # "off"
    BY <1>2 DEF ClientInv
  <2>2. Link!Disconnect
    BY <1>1, <1>2, <2>1 DEF Link!Disconnect
  <2> QED BY <2>2 DEF Link!Next
<1>3. CASE ~Reached
  BY <1>1, <1>3
<1> QED BY <1>2, <1>3

\* The sockets, locks and threads of the server implement the simple link that
\* its users see, for any users: every command reaches the tracker that is
\* connected, and none is connected to a loop that has ended.
THEOREM ServerImplementsLink == Spec => ImplementsLink
<1>1. TypeOK /\ ClientInv /\ DraftInv /\ [Next]_vars => [Link!Next]_(Link!linkVars)
  <2> SUFFICES ASSUME TypeOK, ClientInv, DraftInv, [Next]_vars
               PROVE  [Link!Next]_(Link!linkVars)
    OBVIOUS
  <2>1. CASE UNCHANGED vars
    <3>1. UNCHANGED <<loop, cached, got, clientFd, socket, peer>>
      BY <2>1 DEF vars, loopVars, clientVars, packetVars
    <3> QED BY <3>1 DEF Link!linkVars, Reached
  <2> QED BY <2>1, LinkControl, LinkSend, LinkLoop, LinkPeer DEF Next
<1> QED
  BY <1>1, LinkInit, TypesInit, TypesNext, ClientInvInit, ClientInvNext,
     DraftInvInit, DraftInvNext, PTL DEF Spec, ImplementsLink, Link!Spec
=============================================================================
